------------------------------- MODULE AiConfig -------------------------------
(***************************************************************************)
(* The organization's AI configuration                                     *)
(* (identity/application/organization_ai_config_service.py): one row that  *)
(* nobody locks. Every handler reads it, perhaps asks the provider for up  *)
(* to half a minute, and saves; the UPDATE holds the columns it changed    *)
(* against what it read, so two handlers may each win some columns.        *)
(*                                                                         *)
(* A key stands for what api_key_enc decrypts to, NoKey for an empty one.  *)
(* Provider, model, policy preset and percentage are left out.             *)
(***************************************************************************)
EXTENDS Naturals, Server

CONSTANTS
    Versions,      \* of the classifier
    Capabilities,  \* bound: some of automation and assistant, which are alike
    MaxKeys        \* bound: keys of the organization

ASSUME KeysBounded == MaxKeys \in Nat

VARIABLES
    settings,   \* organization_ai_configurations: its only row, or None
    keys,       \* keys that were ever typed in
    revoked,    \* keys that were in force when a revocation was committed
    gated,      \* versions whose release metrics passed the gates
    clerk       \* per handler: what it is about to save

settingsVars == <<settings, keys, revoked, gated, clerk>>

-------------------------------------------------------------------------------
(* Types *)

NoKey == 0
Modes == {"stable", "shadow", "canary", "full"}
ConsentTo == [automation |-> "automation_consent", assistant |-> "assistant_consent"]

ASSUME CapabilitiesKnown == Capabilities \subseteq DOMAIN ConsentTo

Settings ==
    [key : 0..MaxKeys, source : {"org_api_key", "deployment_key"}, policy : BOOLEAN,
     automation_consent : BOOLEAN, assistant_consent : BOOLEAN,
     automation : BOOLEAN, assistant : BOOLEAN,
     candidate : Versions \cup {None}, mode : Modes]

\* A new row.
Blank ==
    [key |-> NoKey, source |-> "org_api_key", policy |-> FALSE,
     automation_consent |-> FALSE, assistant_consent |-> FALSE,
     automation |-> FALSE, assistant |-> FALSE,
     candidate |-> None, mode |-> "stable"]

\* The row as it is, or as it is made.
SettingsRow == IF settings = None THEN Blank ELSE settings

Nothing == [pc |-> "idle", writes |-> <<>>]

AiTypeOK ==
    /\ settings = None \/ settings \in Settings
    /\ keys \in 0..MaxKeys
    /\ revoked \subseteq 1..MaxKeys
    /\ gated \subseteq Versions
    /\ DOMAIN clerk = Handlers
    /\ \A h \in Handlers :
        /\ clerk[h].pc \in {"idle", "save", "revoke"}
        /\ DOMAIN clerk[h].writes \subseteq DOMAIN Blank

AiInit ==
    /\ settings = None
    /\ keys = 0
    /\ revoked = {}
    /\ gated = {}
    /\ clerk = [h \in Handlers |-> Nothing]

\* Mutant: a save writes every column.
WholeRow(old, new) == new

\* What the session finds changed when it is flushed.
Dirty(old, new) == [c \in {c \in DOMAIN new : new[c] # old[c]} |-> new[c]]

\* A handler has read the row and knows what it will make of it. The row it
\* makes when there is none is written, or copied over another one, in full.
Turns(h, pc, new) ==
    /\ clerk[h] = Nothing
    /\ clerk' = [clerk EXCEPT ![h] =
            [pc |-> pc,
             writes |-> IF settings = None THEN new ELSE Dirty(settings, new)]]
    /\ UNCHANGED <<settings, revoked>>

Sets(h, column, value) ==
    /\ settings # None
    /\ Turns(h, "save", [settings EXCEPT ![column] = value])
    /\ UNCHANGED <<keys, gated>>

\* _resolve_api_key
Usable == settings.source = "deployment_key" \/ settings.key # NoKey

-------------------------------------------------------------------------------
(* The provider and its key: the system admin *)

NewKey == keys + 1

\* update: the provider was asked before the row is read.
UpdateAll(h) ==
    /\ NewKey <= MaxKeys
    /\ keys' = NewKey
    /\ Turns(h, "save", [SettingsRow EXCEPT !.key = NewKey, !.source = "org_api_key"])
    /\ UNCHANGED gated

\* update_provider_config: the key stays.
UpdateProvider(h) ==
    /\ Turns(h, "save", SettingsRow)
    /\ UNCHANGED <<keys, gated>>

\* activate_org_api_key
ActivateKey(h) ==
    /\ settings # None
    /\ NewKey <= MaxKeys
    /\ keys' = NewKey
    /\ Turns(h, "save", [settings EXCEPT !.key = NewKey, !.source = "org_api_key"])
    /\ UNCHANGED gated

\* set_credential_source: the provider is asked with the deployment's key.
SetCredentialSource(h, source) ==
    /\ settings # None
    /\ source = "org_api_key" => settings.key # NoKey
    /\ Sets(h, "source", source)

\* revoke_org_api_key
RevokeKey(h) ==
    /\ settings # None
    /\ Turns(h, "revoke", [settings EXCEPT !.key = NoKey, !.source = "org_api_key"])
    /\ UNCHANGED <<keys, gated>>

-------------------------------------------------------------------------------
(* Consent and switches: HR *)

AcceptDataPolicy(h) == Sets(h, "policy", TRUE)

AcceptConsent(h, capability) == Sets(h, ConsentTo[capability], TRUE)

\* _can_enable: after the consents, the provider is asked.
Enable(h, capability) ==
    /\ settings # None
    /\ settings.policy
    /\ settings[ConsentTo[capability]]
    /\ Usable
    /\ Sets(h, capability, TRUE)

Disable(h, capability) == Sets(h, capability, FALSE)

-------------------------------------------------------------------------------
(* Rollout of a classifier *)

\* configure_classification_rollout: a full one needs metrics that pass.
ConfigureRollout(h, v, mode) ==
    /\ settings # None
    /\ gated' = IF mode = "full" THEN gated \cup {v} ELSE gated
    /\ Turns(h, "save", [settings EXCEPT !.candidate = v, !.mode = mode])
    /\ UNCHANGED keys

\* rollback_classification_rollout, also by enforce_classification_guardrails.
RollBackRollout(h) ==
    /\ settings # None
    /\ Turns(h, "save", [settings EXCEPT !.candidate = None, !.mode = "stable"])
    /\ UNCHANGED <<keys, gated>>

-------------------------------------------------------------------------------

CommitSettings(h) ==
    LET writes == clerk[h].writes IN
    /\ clerk[h].pc # "idle"
    /\ settings' = [c \in DOMAIN SettingsRow |-> IF c \in DOMAIN writes THEN writes[c] ELSE SettingsRow[c]]
    /\ revoked' = IF clerk[h].pc = "revoke" /\ "key" \in DOMAIN writes
                  THEN revoked \cup ({SettingsRow.key} \ {NoKey})
                  ELSE revoked
    /\ clerk' = [clerk EXCEPT ![h] = Nothing]
    /\ UNCHANGED <<keys, gated>>

\* The provider's test fails, an insert collides, the request is dropped.
RefuseSettings(h) ==
    /\ clerk[h].pc # "idle"
    /\ clerk' = [clerk EXCEPT ![h] = Nothing]
    /\ UNCHANGED <<settings, keys, revoked, gated>>

AdminStep(h) ==
    \/ UpdateAll(h)
    \/ UpdateProvider(h)
    \/ ActivateKey(h)
    \/ \E s \in {"org_api_key", "deployment_key"} : SetCredentialSource(h, s)
    \/ RevokeKey(h)
    \/ \E v \in Versions, mode \in Modes : ConfigureRollout(h, v, mode)
    \/ RollBackRollout(h)

HrStep(h) ==
    \/ AcceptDataPolicy(h)
    \/ \E c \in Capabilities : AcceptConsent(h, c) \/ Enable(h, c) \/ Disable(h, c)

AiNext ==
    \E h \in Handlers :
        \/ AdminStep(h)
        \/ HrStep(h)
        \/ CommitSettings(h)
        \/ RefuseSettings(h)

AiSpec == AiInit /\ [][AiNext]_settingsVars

-------------------------------------------------------------------------------
(* Properties *)

\* A key that was in force when a revocation took effect is never used again,
\* also when a handler that had read it saves afterwards.
RevokedIsGone == settings # None => settings.key \notin revoked

\* A classifier that decides alone has passed the release gates ("full rollout
\* requires a release metrics report", organization_ai_config_service.py:867).
FullPassedGates ==
    settings # None /\ settings.mode = "full" => settings.candidate \in gated
===============================================================================
