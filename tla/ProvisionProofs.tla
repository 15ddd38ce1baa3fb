-------------------------- MODULE ProvisionProofs --------------------------
(***************************************************************************)
(* Theorems about provisioning, for any numbers typed and any number of     *)
(* power losses and erasures.  Neither property is inductive: what is in    *)
(* flash when the power goes decides, and that depends on the order in      *)
(* which the two keys get there (KeysInOrder).                              *)
(***************************************************************************)
EXTENDS Provision, TLAPS

Writing == {"SettingId", "SettingSize", "Committing"}

\* The size is the second key to be set and to reach flash: while it is
\* missing the board asks again, and once it is there the id is its own.
KeysInOrder ==
  /\ pc \notin {"SettingSize", "Committing"} => nvs = flash
  /\ pc \in {"Asking", "SettingId", "SettingSize"} =>
       nvs.size = Unprovisioned /\ flash.size = Unprovisioned
  /\ pc = "SettingSize" => nvs.id = line.id
  /\ pc \in {"Committing", "Restarting"} => nvs = line
  /\ pc = "Committing" => flash.size = Unprovisioned \/ flash = nvs
  /\ flash.size = Unprovisioned \/ flash \in accepted

LinesAccepted ==
  /\ \A k \in accepted : Valid(k)
  /\ pc \in Writing \cup {"Restarting"} => line \in accepted
  /\ pc = "Running" => identity = flash /\ identity \in accepted

SavedInFlash ==
  saved # Blank =>
    /\ saved = flash /\ saved \in accepted
    /\ pc \notin Writing \cup {"Asking"}

ProvisionInv == TypeOK /\ KeysInOrder /\ LinesAccepted /\ SavedInFlash

-----------------------------------------------------------------------------
LEMMA BlankFacts ==
  /\ Blank \in Keys
  /\ Blank.id = Unprovisioned /\ Blank.size = Unprovisioned
  /\ ~Valid(Blank)
  BY ProvisionAssumption DEF Blank, Keys, Valid

\* What parseSetId() lets through is what loadOrProvision() finds valid.
LEMMA ParsedIsValid ==
  ASSUME NEW i \in Int, NEW s \in Int, Parses(i, s)
  PROVE  [id |-> i, size |-> s] \in Keys /\ Valid([id |-> i, size |-> s])
  BY ProvisionAssumption DEF Parses, Keys, Valid

LEMMA ProvisionInit == Init => ProvisionInv
  <1> SUFFICES ASSUME Init PROVE ProvisionInv
    OBVIOUS
  <1>1. TypeOK
    BY BlankFacts DEF Init, TypeOK, Places
  <1>2. KeysInOrder
    BY BlankFacts DEF Init, KeysInOrder
  <1>3. LinesAccepted /\ SavedInFlash
    BY DEF Init, LinesAccepted, SavedInFlash, Writing
  <1> QED BY <1>1, <1>2, <1>3 DEF ProvisionInv

-----------------------------------------------------------------------------
LEMMA TypeStep == TypeOK /\ [Next]_vars => TypeOK'
  <1> SUFFICES ASSUME TypeOK, [Next]_vars PROVE TypeOK'
    OBVIOUS
  <1>1. CASE Boot \/ Load \/ Commit
    BY <1>1 DEF TypeOK, Places, Boot, Load, Commit, faults
  <1>2. ASSUME NEW i \in Typed, NEW s \in Typed, ReadLine(i, s) PROVE TypeOK'
    <2>1. line' \in Keys
      BY <1>2, ParsedIsValid, ProvisionAssumption DEF ReadLine
    <2> QED BY <1>2, <2>1 DEF TypeOK, Places, ReadLine, faults
  <1>3. CASE SetId
    <2>1. nvs' \in Keys
      BY <1>3 DEF SetId, TypeOK, Keys
    <2> QED BY <1>3, <2>1 DEF TypeOK, Places, SetId, faults
  <1>4. CASE SetSize
    <2>1. nvs' \in Keys
      BY <1>4 DEF SetSize, TypeOK, Keys
    <2> QED BY <1>4, <2>1 DEF TypeOK, Places, SetSize, faults
  <1>5. CASE Restart
    BY <1>5, BlankFacts DEF TypeOK, Places, Restart, faults
  <1>6. CASE Persist
    <2>1. flash' \in Keys
      BY <1>6 DEF Persist, TypeOK, Keys
    <2> QED BY <1>6, <2>1 DEF TypeOK, Places, Persist, faults
  <1>7. CASE PowerLoss
    BY <1>7, BlankFacts DEF TypeOK, Places, PowerLoss
  <1>8. CASE Erase
    BY <1>8, BlankFacts DEF TypeOK, Places, Erase
  <1>9. CASE UNCHANGED vars
    BY <1>9 DEF TypeOK, vars, faults
  <1> QED BY <1>1, <1>2, <1>3, <1>4, <1>5, <1>6, <1>7, <1>8, <1>9 DEF Next

LEMMA KeysStep == ProvisionInv /\ [Next]_vars => KeysInOrder'
  <1> SUFFICES ASSUME ProvisionInv, [Next]_vars PROVE KeysInOrder'
    OBVIOUS
  <1>0. TypeOK /\ KeysInOrder /\ LinesAccepted
    BY DEF ProvisionInv
  <1>1. CASE Boot
    BY <1>0, <1>1 DEF KeysInOrder, Boot
  <1>2. CASE Load
    <2>1. ~Valid(nvs) => flash.size = Unprovisioned
      BY <1>0, <1>2 DEF KeysInOrder, LinesAccepted, Load
    <2> QED BY <1>0, <1>2, <2>1 DEF KeysInOrder, Load
  <1>3. ASSUME NEW i \in Typed, NEW s \in Typed, ReadLine(i, s) PROVE KeysInOrder'
    BY <1>0, <1>3 DEF KeysInOrder, ReadLine
  <1>4. CASE SetId
    BY <1>0, <1>4 DEF KeysInOrder, SetId, TypeOK, Keys
  <1>5. CASE SetSize
    <2>1. nvs' = line
      BY <1>0, <1>5 DEF KeysInOrder, SetSize, TypeOK, Keys
    <2> QED BY <1>0, <1>5, <2>1 DEF KeysInOrder, SetSize
  <1>6. CASE Commit
    <2>1. flash' = line /\ line \in accepted
      BY <1>0, <1>6 DEF KeysInOrder, LinesAccepted, Writing, Commit
    <2> QED BY <1>0, <1>6, <2>1 DEF KeysInOrder, Commit
  <1>7. CASE Restart
    BY <1>0, <1>7 DEF KeysInOrder, Restart
  <1>8. CASE Persist
    <2>1. pc \in {"SettingSize", "Committing"}
      BY <1>0, <1>8 DEF KeysInOrder, Persist
    <2>2. CASE flash.id # nvs.id
      <3>1. flash'.size = flash.size
        BY <1>0, <1>8, <2>2 DEF Persist, TypeOK, Keys
      <3>2. flash.size = Unprovisioned
        BY <1>0, <2>1, <2>2 DEF KeysInOrder
      <3> QED BY <1>0, <1>8, <2>1, <3>1, <3>2 DEF KeysInOrder, Persist
    <2>3. CASE flash.id = nvs.id
      <3>1. flash' = nvs
        BY <1>0, <1>8, <2>3 DEF Persist, TypeOK, Keys
      <3>2. nvs.size = Unprovisioned \/ nvs \in accepted
        BY <1>0, <2>1 DEF KeysInOrder, LinesAccepted, Writing
      <3> QED BY <1>0, <1>8, <2>1, <3>1, <3>2 DEF KeysInOrder, Persist
    <2> QED BY <2>2, <2>3
  <1>9. CASE PowerLoss
    BY <1>0, <1>9 DEF KeysInOrder, PowerLoss
  <1>10. CASE Erase
    BY <1>0, <1>10, BlankFacts DEF KeysInOrder, Erase
  <1>11. CASE UNCHANGED vars
    BY <1>0, <1>11 DEF KeysInOrder, vars
  <1> QED BY <1>1, <1>2, <1>3, <1>4, <1>5, <1>6, <1>7, <1>8, <1>9, <1>10, <1>11 DEF Next

LEMMA LinesStep == ProvisionInv /\ [Next]_vars => LinesAccepted'
  <1> SUFFICES ASSUME ProvisionInv, [Next]_vars PROVE LinesAccepted'
    OBVIOUS
  <1>0. TypeOK /\ KeysInOrder /\ LinesAccepted
    BY DEF ProvisionInv
  <1>1. CASE Boot
    BY <1>0, <1>1 DEF LinesAccepted, Writing, Boot
  <1>2. CASE Load
    <2>1. Valid(nvs) => flash = nvs /\ flash \in accepted
      BY <1>0, <1>2 DEF KeysInOrder, Load, Valid
    <2> QED BY <1>0, <1>2, <2>1 DEF LinesAccepted, Writing, Load
  <1>3. ASSUME NEW i \in Typed, NEW s \in Typed, ReadLine(i, s) PROVE LinesAccepted'
    <2>1. Valid(line')
      BY <1>3, ParsedIsValid, ProvisionAssumption DEF ReadLine
    <2>2. accepted' = accepted \cup {line'} /\ pc' = "SettingId"
      BY <1>3 DEF ReadLine
    <2> QED BY <1>0, <2>1, <2>2 DEF LinesAccepted, Writing
  <1>4. CASE SetId
    BY <1>0, <1>4 DEF LinesAccepted, Writing, SetId
  <1>5. CASE SetSize
    BY <1>0, <1>5 DEF LinesAccepted, Writing, SetSize
  <1>6. CASE Commit
    BY <1>0, <1>6 DEF LinesAccepted, Writing, Commit
  <1>7. CASE Restart
    BY <1>0, <1>7 DEF LinesAccepted, Writing, Restart
  <1>8. CASE Persist
    <2>1. pc # "Running" /\ UNCHANGED <<pc, line, accepted>>
      BY <1>0, <1>8 DEF KeysInOrder, Persist
    <2> QED BY <1>0, <2>1 DEF LinesAccepted
  <1>9. CASE PowerLoss
    BY <1>0, <1>9 DEF LinesAccepted, Writing, PowerLoss
  <1>10. CASE Erase
    BY <1>0, <1>10 DEF LinesAccepted, Writing, Erase
  <1>11. CASE UNCHANGED vars
    BY <1>0, <1>11 DEF LinesAccepted, vars
  <1> QED BY <1>1, <1>2, <1>3, <1>4, <1>5, <1>6, <1>7, <1>8, <1>9, <1>10, <1>11 DEF Next

LEMMA SavedStep == ProvisionInv /\ [Next]_vars => SavedInFlash'
  <1> SUFFICES ASSUME ProvisionInv, [Next]_vars PROVE SavedInFlash'
    OBVIOUS
  <1>0. TypeOK /\ KeysInOrder /\ LinesAccepted /\ SavedInFlash
    BY DEF ProvisionInv
  <1>1. CASE Boot
    BY <1>0, <1>1 DEF SavedInFlash, Writing, Boot
  \* What was saved is valid, so the board does not ask.
  <1>2. CASE Load
    <2>1. saved # Blank => Valid(nvs)
      BY <1>0, <1>2 DEF KeysInOrder, LinesAccepted, SavedInFlash, Load
    <2> QED BY <1>0, <1>2, <2>1 DEF SavedInFlash, Writing, Load
  <1>3. ASSUME NEW i \in Typed, NEW s \in Typed, ReadLine(i, s) PROVE SavedInFlash'
    <2>1. saved = Blank /\ saved' = saved
      BY <1>0, <1>3 DEF SavedInFlash, ReadLine
    <2> QED BY <2>1 DEF SavedInFlash
  <1>4. CASE SetId \/ SetSize
    <2>1. saved = Blank /\ saved' = saved
      BY <1>0, <1>4 DEF SavedInFlash, Writing, SetId, SetSize
    <2> QED BY <2>1 DEF SavedInFlash
  <1>5. CASE Commit
    <2>1. saved' = flash' /\ saved' \in accepted' /\ pc' = "Restarting"
      BY <1>0, <1>5 DEF KeysInOrder, LinesAccepted, Writing, Commit
    <2> QED BY <2>1 DEF SavedInFlash, Writing
  <1>6. CASE Restart
    BY <1>0, <1>6 DEF SavedInFlash, Writing, Restart
  <1>7. CASE Persist
    <2>1. saved = Blank /\ saved' = saved
      BY <1>0, <1>7 DEF KeysInOrder, SavedInFlash, Writing, Persist
    <2> QED BY <2>1 DEF SavedInFlash
  <1>8. CASE PowerLoss
    BY <1>0, <1>8 DEF SavedInFlash, Writing, PowerLoss
  <1>9. CASE Erase
    BY <1>9 DEF SavedInFlash, Erase
  <1>10. CASE UNCHANGED vars
    BY <1>0, <1>10 DEF SavedInFlash, vars
  <1> QED BY <1>1, <1>2, <1>3, <1>4, <1>5, <1>6, <1>7, <1>8, <1>9, <1>10 DEF Next

\* Everything the proofs need holds in every state.
THEOREM ProvisionInvariant == Spec => []ProvisionInv
  <1>1. ProvisionInv /\ [Next]_vars => ProvisionInv'
    BY TypeStep, KeysStep, LinesStep, SavedStep DEF ProvisionInv
  <1> QED BY <1>1, ProvisionInit, PTL DEF Spec

\* A board runs with the node_id and the chain_size of one line, whenever the
\* power goes between the two writes.
THEOREM RunsAsToldCorrect == Spec => []RunsAsTold
  <1>1. ProvisionInv => RunsAsTold
    BY DEF ProvisionInv, LinesAccepted, RunsAsTold
  <1> QED BY <1>1, ProvisionInvariant, PTL

\* What is said to be saved is what the board runs with from then on.
THEOREM SavedIsFinalCorrect == Spec => []SavedIsFinal
  <1>1. ProvisionInv => SavedIsFinal
    BY DEF ProvisionInv, LinesAccepted, SavedInFlash, SavedIsFinal, Writing
  <1> QED BY <1>1, ProvisionInvariant, PTL

\* The variables keep their types.
THEOREM TypeCorrect == Spec => []TypeOK
  <1>1. ProvisionInv => TypeOK
    BY DEF ProvisionInv
  <1> QED BY <1>1, ProvisionInvariant, PTL
=============================================================================
