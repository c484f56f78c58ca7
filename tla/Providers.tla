------------------------------ MODULE Providers ------------------------------
(***************************************************************************)
(* ProviderRegistry: the Relay profiles of a workspace, which of them is   *)
(* the default, and the upload token of each: a file under keys/ and its   *)
(* name in the row. File and row change one after the other, and the       *)
(* process may end between the two.                                        *)
(***************************************************************************)
EXTENDS Naturals, FiniteSets

CONSTANT Providers

VARIABLES
    profile,   \* mca_provider_profiles
    token,     \* the files relay_upload_token_*.secret
    inUse,     \* providers some attachment refers to
    doing,     \* the operation between its two steps, if any
    stray      \* history: a token was written and the process ended before the row named it

provVars == <<profile, token, inUse, doing, stray>>

NoProfile == [there |-> FALSE]
Rows == [there : {TRUE}, enabled : BOOLEAN, default : BOOLEAN, named : BOOLEAN]
Nothing == [what |-> "nothing"]

ProvTypeOK ==
    /\ profile \in [Providers -> {NoProfile} \cup Rows]
    /\ token \in [Providers -> {"none", "empty", "token"}]
    /\ inUse \in SUBSET Providers
    /\ doing \in {Nothing} \cup [what : {"default", "set", "clear", "remove"}, of : Providers]
    /\ stray \in SUBSET Providers

ProvInit ==
    /\ profile = [p \in Providers |-> NoProfile]
    /\ token = [p \in Providers |-> "none"]
    /\ inUse = {} /\ doing = Nothing /\ stray = {}

Known(p) == profile[p].there
Named(p) == Known(p) /\ profile[p].named
IsDefault(p) == Known(p) /\ profile[p].default
Does(what, p) == doing' = [what |-> what, of |-> p]
Does2nd(what, p) == doing = [what |-> what, of |-> p] /\ doing' = Nothing

\* register(): a known provider keeps its default mark and its token.
RegisterProfile(p) ==
    /\ doing = Nothing
    /\ profile' = IF Known(p) THEN profile
                  ELSE [profile EXCEPT ![p] = [there |-> TRUE, enabled |-> TRUE, default |-> FALSE,
                                               named |-> FALSE]]
    /\ doing' = Nothing \/ Does("default", p)
    /\ UNCHANGED <<token, inUse, stray>>

\* set_default(): one transaction, rolled back when there is no such provider.
MadeDefault(p) ==
    profile' = IF ~Known(p) THEN profile
               ELSE [q \in Providers |-> IF Known(q) THEN [profile[q] EXCEPT !.default = q = p]
                                         ELSE profile[q]]

\* Fault: the old default is unmarked whether or not the new one exists.
SetDefaultUnchecked(p) ==
    /\ doing = Nothing /\ UNCHANGED <<doing, token, inUse, stray>>
    /\ profile' = [q \in Providers |-> IF Known(q) THEN [profile[q] EXCEPT !.default = q = p]
                                       ELSE profile[q]]

SetDefault(p) == doing = Nothing /\ MadeDefault(p) /\ UNCHANGED <<doing, token, inUse, stray>>
RegisterAsDefault(p) == Does2nd("default", p) /\ MadeDefault(p) /\ UNCHANGED <<token, inUse, stray>>

UpdateProfile(p, on) ==
    /\ doing = Nothing /\ Known(p)
    /\ profile' = [profile EXCEPT ![p].enabled = on]
    /\ UNCHANGED <<doing, token, inUse, stray>>

\* set_upload_token(): the file is emptied and written, then the row names it.
SetTokenFile(p) ==
    /\ doing = Nothing /\ Known(p)
    /\ Does("set", p)
    /\ token' = [token EXCEPT ![p] = "token"]
    /\ UNCHANGED <<profile, inUse, stray>>
SetTokenRow(p) ==
    /\ Does2nd("set", p)
    /\ profile' = [profile EXCEPT ![p].named = TRUE]
    /\ stray' = stray \ {p}
    /\ UNCHANGED <<token, inUse>>

\* Fault: the row forgets the file first.
ClearTokenBackwards(p) ==
    /\ doing = Nothing /\ Known(p)
    /\ Does("clear", p)
    /\ profile' = [profile EXCEPT ![p].named = FALSE]
    /\ UNCHANGED <<token, inUse, stray>>

\* clear_upload_token(): the file goes before the row forgets it.
ClearTokenFile(p) ==
    /\ doing = Nothing /\ Known(p)
    /\ Does("clear", p)
    /\ token' = IF Named(p) THEN [token EXCEPT ![p] = "none"] ELSE token
    /\ UNCHANGED <<profile, inUse, stray>>
ClearTokenRow(p) ==
    /\ Does2nd("clear", p)
    /\ profile' = [profile EXCEPT ![p].named = FALSE]
    /\ UNCHANGED <<token, inUse, stray>>

\* remove_or_disable(): a provider of some attachment is only switched off.
RemoveOrDisable(p) ==
    /\ doing = Nothing
    /\ IF p \in inUse
       THEN /\ Known(p) /\ profile' = [profile EXCEPT ![p].enabled = FALSE]
            /\ UNCHANGED <<token, doing>>
       ELSE /\ Does("remove", p) /\ UNCHANGED profile
            /\ token' = IF Named(p) THEN [token EXCEPT ![p] = "none"] ELSE token
    /\ UNCHANGED <<inUse, stray>>
RemoveRow(p) ==
    /\ Does2nd("remove", p)
    /\ profile' = [profile EXCEPT ![p] = NoProfile]
    /\ UNCHANGED <<token, inUse, stray>>

\* The worker commits a row that names the provider: an attachment it drafts,
\* or one of a received OFFER, whose provider need not be known here.
UseProvider(p) ==
    /\ doing = Nothing
    /\ inUse' = inUse \cup {p}
    /\ UNCHANGED <<profile, token, doing, stray>>

\* The process ends between the two steps of an operation.
ProvRestart ==
    /\ doing # Nothing /\ doing' = Nothing
    /\ IF doing.what = "set"
       THEN /\ token' \in {token, [token EXCEPT ![doing.of] = "empty"]}
            /\ stray' = IF Named(doing.of) THEN stray ELSE stray \cup {doing.of}
       ELSE UNCHANGED <<token, stray>>
    /\ UNCHANGED <<profile, inUse>>

ProvNext ==
    \/ ProvRestart
    \/ \E p \in Providers :
          \/ RegisterProfile(p) \/ SetDefault(p) \/ RegisterAsDefault(p)
          \/ \E on \in BOOLEAN : UpdateProfile(p, on)
          \/ SetTokenFile(p) \/ SetTokenRow(p) \/ ClearTokenFile(p) \/ ClearTokenRow(p)
          \/ RemoveOrDisable(p) \/ RemoveRow(p) \/ UseProvider(p)

-----------------------------------------------------------------------------
\* A default, once there is one, is lost only with its own profile, and there
\* are never two.
DefaultIsKept ==
    [][LET now == {p \in Providers : IsDefault(p)}
           next == {p \in Providers : IsDefault(p)'}
       IN /\ Cardinality(next) <= 1
          /\ now # {} /\ next = {} => \E p \in now : ~Known(p)']_provVars

\* "No orphaned file that nothing references but that still holds the raw
\* token": but for a set that was cut short, a token file is always named by
\* the row of its provider (provider_registry.py:584-607, 529-559).
NoSecretLeftBehind ==
    \A p \in Providers :
       token[p] # "none" => Named(p) \/ p \in stray \/ doing = [what |-> "set", of |-> p]
=============================================================================
