-------------------------------- MODULE Server --------------------------------
(***************************************************************************)
(* What the components behind the HTTP interface have in common            *)
(* (identity/container.py): a handler owns one database session, whose     *)
(* transaction is committed when it answers and rolled back when it        *)
(* raises. Until then its writes are invisible to the others and keep the  *)
(* rows they changed locked.                                               *)
(***************************************************************************)
CONSTANTS
    Handlers,  \* bound: handlers that run at the same time
    None       \* no handler, no row, no value

ASSUME NoneIsNoHandler == None \notin Handlers

\* The row may be written by h: an UPDATE, a DELETE or a FOR UPDATE by another
\* handler waits until the owner's transaction ends.
Available(owner, h) == owner \in {None, h}
===============================================================================
