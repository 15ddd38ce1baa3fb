----------------------------- MODULE Provision -----------------------------
(***************************************************************************)
(* How a board gets its identity (main/provisioning.cpp, called by         *)
(* app_main() in main/main.cpp): node_id and chain_size are two keys in    *)
(* NVS.  A board that finds them missing or invalid asks on the console    *)
(* for a SETID line, writes the one and then the other, commits and        *)
(* restarts.  Power may go at any moment, an error in NVS aborts into a    *)
(* restart, and flash may be erased, by hand or by app_main().             *)
(*                                                                         *)
(* NVS is not part of the repository: what is written reaches flash in the *)
(* order it is written, at the latest with the commit.                     *)
(*                                                                         *)
(* A definition named F...Mutant is F with a plausible bug: the            *)
(* specification does not use it.                                          *)
(***************************************************************************)
EXTENDS Integers

CONSTANTS
  MaxChainNodes,   \* kMaxChainNodes
  Unprovisioned,   \* kUnprovisioned
  Typed,           \* numbers in the lines typed
  MaxLosses,       \* bound: power losses and aborts
  MaxErasures      \* bound: erasures of flash

ASSUME ProvisionAssumption ==
  /\ MaxChainNodes \in Nat \ {0}
  /\ Unprovisioned \in Nat /\ Unprovisioned > MaxChainNodes
  /\ Typed \subseteq Int
  /\ MaxLosses \in Nat /\ MaxErasures \in Nat

VARIABLES
  pc,         \* where app_main() is
  flash,      \* the two keys, as a restart finds them
  nvs,        \* the two keys, as nvs_get_u8() would read them
  line,       \* newId and newChainSize
  identity,   \* what loadOrProvision() has returned, Blank before it has
  losses, erasures,
  \* history, since flash was erased
  accepted,   \* the lines taken
  saved       \* the line the operator was told is saved, or Blank

faults == <<losses, erasures>>
vars == <<pc, flash, nvs, line, identity, faults, accepted, saved>>

Keys == [id : Nat, size : Nat]
Blank == [id |-> Unprovisioned, size |-> Unprovisioned]
Places == {"Off", "Loading", "Asking", "SettingId", "SettingSize", "Committing", "Restarting",
           "Running"}

TypeOK ==
  /\ pc \in Places
  /\ flash \in Keys /\ nvs \in Keys /\ line \in Keys /\ identity \in Keys
  /\ losses \in Nat /\ erasures \in Nat
  /\ accepted \subseteq Keys
  /\ saved \in Keys

Init ==
  /\ pc = "Off"
  /\ flash = Blank /\ nvs = Blank /\ line = Blank /\ identity = Blank
  /\ losses = 0 /\ erasures = 0
  /\ accepted = {} /\ saved = Blank

\* Bounds forgotten that parseSetId() has checked when the keys were written.
ValidMutant(k) == k.id # Unprovisioned /\ k.id < k.size

\* The check in loadOrProvision().
Valid(k) ==
  /\ k.id # Unprovisioned /\ k.size # Unprovisioned
  /\ k.id < k.size /\ k.size <= MaxChainNodes

\* A node_id of its own for a chain that is one shorter.
ParsesMutant(i, s) == i >= 0 /\ s > 0 /\ i <= s /\ s <= MaxChainNodes

\* A negative number let through.
ParsesNegativeMutant(i, s) == s > 0 /\ i < s /\ s <= MaxChainNodes

\* parseSetId(), of a line with two numbers in it.
Parses(i, s) == i >= 0 /\ s > 0 /\ i < s /\ s <= MaxChainNodes

-----------------------------------------------------------------------------
(* app_main() and loadOrProvision()                                        *)

\* nvs_flash_init(), and nvs_open()
Boot ==
  /\ pc = "Off"
  /\ pc' = "Loading"
  /\ nvs' = flash
  /\ UNCHANGED <<flash, line, identity, faults, accepted, saved>>

Load ==
  /\ pc = "Loading"
  /\ IF Valid(nvs)
     THEN pc' = "Running" /\ identity' = nvs
     ELSE pc' = "Asking" /\ UNCHANGED identity
  /\ UNCHANGED <<flash, nvs, line, faults, accepted, saved>>

\* A line that is not understood is answered and forgotten.
ReadLine(i, s) ==
  /\ pc = "Asking"
  /\ Parses(i, s)
  /\ pc' = "SettingId"
  /\ line' = [id |-> i, size |-> s]
  /\ accepted' = accepted \cup {line'}
  /\ UNCHANGED <<flash, nvs, identity, faults, saved>>

SetId ==
  /\ pc = "SettingId"
  /\ pc' = "SettingSize"
  /\ nvs' = [nvs EXCEPT !.id = line.id]
  /\ UNCHANGED <<flash, line, identity, faults, accepted, saved>>

SetSize ==
  /\ pc = "SettingSize"
  /\ pc' = "Committing"
  /\ nvs' = [nvs EXCEPT !.size = line.size]
  /\ UNCHANGED <<flash, line, identity, faults, accepted, saved>>

\* The line saved is printed.
Commit ==
  /\ pc = "Committing"
  /\ pc' = "Restarting"
  /\ flash' = nvs
  /\ saved' = line
  /\ UNCHANGED <<nvs, line, identity, faults, accepted>>

\* Back to the console instead of into a restart.
RestartMutant ==
  /\ pc = "Restarting"
  /\ pc' = "Asking"
  /\ line' = Blank
  /\ UNCHANGED <<flash, nvs, identity, faults, accepted, saved>>

Restart ==
  /\ pc = "Restarting"
  /\ pc' = "Off"
  /\ line' = Blank
  /\ UNCHANGED <<flash, nvs, identity, faults, accepted, saved>>

-----------------------------------------------------------------------------
(* NVS and the power                                                       *)

\* A write reaches flash before the commit asks for it, the first one first.
Persist ==
  /\ pc # "Off"
  /\ flash # nvs
  /\ flash' = IF flash.id # nvs.id
              THEN [flash EXCEPT !.id = nvs.id]
              ELSE [flash EXCEPT !.size = nvs.size]
  /\ UNCHANGED <<pc, nvs, line, identity, faults, accepted, saved>>

\* What has not reached flash is gone; so is it when ESP_ERROR_CHECK() aborts.
PowerLoss ==
  /\ pc # "Off" /\ losses < MaxLosses
  /\ losses' = losses + 1
  /\ pc' = "Off"
  /\ nvs' = flash /\ line' = Blank /\ identity' = Blank
  /\ UNCHANGED <<flash, erasures, accepted, saved>>

\* idf.py erase-flash, or app_main() because of what nvs_flash_init() says.
Erase ==
  /\ pc = "Off" /\ erasures < MaxErasures
  /\ erasures' = erasures + 1
  /\ flash' = Blank /\ nvs' = Blank
  /\ accepted' = {} /\ saved' = Blank
  /\ UNCHANGED <<pc, line, identity, losses>>

-----------------------------------------------------------------------------
Next ==
  \/ Boot \/ Load
  \/ \E i, s \in Typed : ReadLine(i, s)
  \/ SetId \/ SetSize \/ Commit \/ Restart
  \/ Persist \/ PowerLoss \/ Erase

Spec == Init /\ [][Next]_vars

\* The board runs, and the operator types a good line whenever it asks.
Fairness ==
  /\ WF_vars(Boot) /\ WF_vars(Load)
  /\ WF_vars(\E i, s \in Typed : ReadLine(i, s))
  /\ WF_vars(SetId) /\ WF_vars(SetSize) /\ WF_vars(Commit) /\ WF_vars(Restart)

FairSpec == Spec /\ Fairness

-----------------------------------------------------------------------------
\* A board never runs with half an identity, or with halves of two: whenever
\* the power goes, its node_id and chain_size are those of one line.
RunsAsTold == pc = "Running" => identity \in accepted

\* The line that is said to be saved is the one the board runs with from then
\* on, and it does not ask again: what parseSetId() lets through is what
\* loadOrProvision() finds valid.
SavedIsFinal ==
  saved # Blank =>
    /\ pc \notin {"Asking", "SettingId", "SettingSize", "Committing"}
    /\ pc = "Running" => identity = saved

\* However often it is interrupted, a board gets an identity and runs with it.
EventuallyRuns == <>[](pc = "Running")
=============================================================================
