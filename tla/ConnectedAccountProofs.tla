----------------------- MODULE ConnectedAccountProofs -----------------------
(***************************************************************************)
(* Proofs about one connected account, for any number of tasks that        *)
(* refresh its token, about what the adapters report of the networks, and  *)
(* about what a draft is published as.                                     *)
(***************************************************************************)
EXTENDS ConnectedAccount, Providers, Content, FiniteSetTheorems, SequenceTheorems,
        WellFoundedInduction, TLAPS

(* The initial state is well typed.                                         *)
LEMMA InitType == Init => TypeOK
BY DEF Init, TypeOK, Row, Labels

(* What storeTokens writes is a row of the vault.                           *)
LEMMA StoredIsRow ==
  ASSUME TypeOK, NEW t \in Nat
  PROVE  Stored(t) \in Row
<1>1. CASE tokens = None
  BY <1>1 DEF Stored, Row, TypeOK
<1>2. CASE tokens \in Row
  BY <1>2 DEF Stored, Row, TypeOK
<1> QED
  BY <1>1, <1>2 DEF TypeOK

(* Every step keeps the types.                                              *)
LEMMA StepType == TypeOK /\ [Next]_vars => TypeOK'
<1> SUFFICES ASSUME TypeOK, [Next]_vars PROVE TypeOK'
  OBVIOUS
<1> USE DEF Goto, Labels, accountRow, provider, bounds
<1>1. ASSUME NEW r \in Refreshers, FindStale(r) PROVE TypeOK'
  BY <1>1 DEF FindStale, TypeOK
<1>2. ASSUME NEW r \in Refreshers, LockAndRecheck(r) PROVE TypeOK'
  <2>1. CASE NeedsRefresh
    <3>1. tokens.token \in Nat
      BY <2>1 DEF NeedsRefresh, TypeOK, Row
    <3> QED
      BY <1>2, <2>1, <3>1 DEF LockAndRecheck, TypeOK
  <2>2. CASE ~NeedsRefresh
    BY <1>2, <2>2 DEF LockAndRecheck, TypeOK
  <2> QED
    BY <2>1, <2>2
<1>3. ASSUME NEW r \in Refreshers, RefreshGranted(r) PROVE TypeOK'
  <2>1. issued' \in Nat /\ refreshed' \in Nat
    BY <1>3 DEF RefreshGranted, TypeOK
  <2>2. valid' \in SUBSET Nat /\ seen' \in [Refreshers -> Nat]
    BY <1>3, <2>1 DEF RefreshGranted, TypeOK
  <2> QED
    BY <1>3, <2>1, <2>2 DEF RefreshGranted, TypeOK
<1>4. ASSUME NEW r \in Refreshers, RefreshRefused(r) PROVE TypeOK'
  BY <1>4 DEF RefreshRefused, TypeOK
<1>5. ASSUME NEW r \in Refreshers, StoreTokens(r) PROVE TypeOK'
  <2>1. Stored(seen[r]) \in Row
    BY StoredIsRow DEF TypeOK
  <2> QED
    BY <1>5, <2>1 DEF StoreTokens, TypeOK
<1>6. ASSUME NEW r \in Refreshers, SetAccountUnhealthy(r) PROVE TypeOK'
  BY <1>6 DEF SetAccountUnhealthy, TypeOK, Bad
<1>7. ASSUME NEW r \in Refreshers, Crash(r) PROVE TypeOK'
  BY <1>7 DEF Crash, TypeOK
<1>8. CASE ReadOldKey
  BY <1>8 DEF ReadOldKey, TypeOK
<1>9. CASE WriteNewKey
  <2>1. copy \in Row /\ key \in {1, 2}
    BY <1>9 DEF WriteNewKey, TypeOK
  <2>2. tokens # None => [tokens EXCEPT !.token = copy.token, !.key = key] \in Row
    BY <2>1 DEF TypeOK, Row
  <2>3. tokens' \in Row \cup {None}
    BY <1>9, <2>2 DEF WriteNewKey, TypeOK
  <2> QED
    BY <1>9, <2>3 DEF WriteNewKey, TypeOK
<1>10. CASE Disconnect
  BY <1>10 DEF Disconnect, TypeOK
<1>11. CASE Reconnect
  <2>1. issued' \in Nat
    BY <1>11 DEF Reconnect, TypeOK
  <2>2. Stored(issued') \in Row
    BY <2>1, StoredIsRow
  <2> QED
    BY <1>11, <2>1, <2>2 DEF Reconnect, TypeOK
<1>12. CASE TokenNearsExpiry
  <2>1. tokens' \in Row
    BY <1>12 DEF TokenNearsExpiry, TypeOK, Row
  <2> QED
    BY <1>12, <2>1 DEF TokenNearsExpiry, TypeOK
<1>13. CASE KeyRotates
  BY <1>13 DEF KeyRotates, TypeOK
<1>14. CASE UNCHANGED vars
  BY <1>14 DEF vars, TypeOK
<1> QED
  BY <1>1, <1>2, <1>3, <1>4, <1>5, <1>6, <1>7, <1>8, <1>9, <1>10, <1>11, <1>12,
     <1>13, <1>14 DEF Next, EnsureFreshToken

(* The account, its vault row and the tasks at work on it keep their types. *)
THEOREM AccountTypeCorrect == Spec => []TypeOK
BY InitType, StepType, PTL DEF Spec

-----------------------------------------------------------------------------
(* The latch names a status that was announced, so skipping the event on a  *)
(* matching latch hides nothing.                                            *)
LatchWasAnnounced == latch # None => latch \in alerted

AnnounceInv == LatchWasAnnounced /\ UnhealthyIsAnnounced

LEMMA StepAnnounce == TypeOK /\ AnnounceInv /\ [Next]_vars => AnnounceInv'
<1> SUFFICES ASSUME TypeOK, AnnounceInv, [Next]_vars PROVE AnnounceInv'
  OBVIOUS
<1> USE DEF AnnounceInv, LatchWasAnnounced, UnhealthyIsAnnounced
<1>1. ASSUME NEW r \in Refreshers, SetAccountUnhealthy(r) PROVE AnnounceInv'
  <2>1. PICK s \in Bad :
          /\ status' = s /\ latch' = s
          /\ alerted' = IF latch = s THEN alerted ELSE alerted \cup {s}
    BY <1>1 DEF SetAccountUnhealthy
  <2>2. s # None
    BY AccountAssumption
  <2> QED
    BY <2>1, <2>2
<1>2. CASE Disconnect
  BY <1>2 DEF Disconnect, Bad
<1>3. CASE Reconnect
  BY <1>3 DEF Reconnect, Bad
<1>4. CASE UNCHANGED accountRow
  BY <1>4 DEF accountRow
<1>5. \/ \E r \in Refreshers : SetAccountUnhealthy(r)
      \/ Disconnect \/ Reconnect \/ UNCHANGED accountRow
  BY DEF Next, EnsureFreshToken, FindStale, LockAndRecheck, RefreshGranted, RefreshRefused,
         StoreTokens, Crash, ReadOldKey, WriteNewKey, TokenNearsExpiry, KeyRotates, vars
<1> QED
  BY <1>1, <1>2, <1>3, <1>4, <1>5

(* An account in a bad status has been announced in that status since it    *)
(* was last connected.                                                      *)
THEOREM BadStatusAnnounced == Spec => []UnhealthyIsAnnounced
<1>1. Init => AnnounceInv
  BY DEF Init, AnnounceInv, LatchWasAnnounced, UnhealthyIsAnnounced, Bad
<1> QED
  BY <1>1, InitType, StepType, StepAnnounce, PTL DEF Spec, AnnounceInv

-----------------------------------------------------------------------------
(* The lock is held exactly inside the refreshing transaction.              *)
LockHeld == \A r \in Refreshers : pc[r] \in {"refresh", "store"} <=> lock = r

(* A refresh still to come is paid for: by the token found stale under the  *)
(* lock, or by one that is stale while nobody holds it.                     *)
Owed == IF lock = None THEN (IF NeedsRefresh THEN 1 ELSE 0)
                       ELSE (IF pc[lock] = "refresh" THEN 1 ELSE 0)

FlightInv == LockHeld /\ refreshed + Owed <= expiries + crashes

LEMMA LockStep == TypeOK /\ LockHeld /\ [Next]_vars => LockHeld'
<1> SUFFICES ASSUME TypeOK, LockHeld, [Next]_vars PROVE LockHeld'
  OBVIOUS
<1> USE AccountAssumption DEF LockHeld, Goto
<1>1. ASSUME NEW r \in Refreshers, EnsureFreshToken(r) \/ Crash(r) PROVE LockHeld'
  BY <1>1 DEF EnsureFreshToken, Crash, FindStale, LockAndRecheck, RefreshGranted,
     RefreshRefused, StoreTokens, SetAccountUnhealthy, TypeOK
<1>2. CASE UNCHANGED <<lock, pc>>
  BY <1>2
<1>3. \/ \E r \in Refreshers : EnsureFreshToken(r) \/ Crash(r)
      \/ UNCHANGED <<lock, pc>>
  BY DEF Next, Disconnect, Reconnect, ReadOldKey, WriteNewKey, TokenNearsExpiry,
         KeyRotates, vars
<1> QED
  BY <1>1, <1>2, <1>3

(* A step that leaves lock, labels and counters alone and makes no token    *)
(* stale owes nothing new.                                                  *)
LEMMA OwesNoMore ==
  ASSUME TypeOK, FlightInv, LockHeld', UNCHANGED <<lock, pc, refreshed, expiries, crashes>>,
         NeedsRefresh' => NeedsRefresh
  PROVE  FlightInv'
BY DEF FlightInv, Owed, TypeOK

LEMMA StepFlight == TypeOK /\ FlightInv /\ [Next]_vars => FlightInv'
<1> SUFFICES ASSUME TypeOK, FlightInv, [Next]_vars PROVE FlightInv'
  OBVIOUS
<1>0. LockHeld /\ LockHeld' /\ TypeOK'
  BY LockStep, StepType DEF FlightInv
<1>n. refreshed \in Nat /\ expiries \in Nat /\ crashes \in Nat /\ Owed \in Nat
  BY DEF TypeOK, Owed
<1>m. refreshed + Owed <= expiries + crashes
  BY DEF FlightInv
<1>1. ASSUME NEW r \in Refreshers, FindStale(r) PROVE FlightInv'
  <2>1. Owed' = Owed
    BY <1>0, <1>1, AccountAssumption DEF FindStale, Goto, Owed, LockHeld, TypeOK, NeedsRefresh
  <2> QED
    BY <1>0, <1>1, <2>1 DEF FindStale, FlightInv, provider, bounds
<1>2. ASSUME NEW r \in Refreshers, LockAndRecheck(r) PROVE FlightInv'
  <2>1. Owed' = Owed
    BY <1>0, <1>2, AccountAssumption
       DEF LockAndRecheck, Goto, Owed, LockHeld, TypeOK, NeedsRefresh
  <2> QED
    BY <1>0, <1>2, <2>1 DEF LockAndRecheck, FlightInv, provider, bounds
<1>3. ASSUME NEW r \in Refreshers, RefreshGranted(r) PROVE FlightInv'
  <2>1. lock = r /\ lock # None
    BY <1>0, <1>3, AccountAssumption DEF RefreshGranted, LockHeld
  <2>2. Owed = 1 /\ Owed' = 0
    BY <1>3, <2>1 DEF RefreshGranted, Goto, Owed, TypeOK
  <2> QED
    BY <1>0, <1>3, <1>n, <2>2 DEF RefreshGranted, FlightInv, bounds
<1>4. ASSUME NEW r \in Refreshers, RefreshRefused(r) PROVE FlightInv'
  <2>1. lock = r /\ lock # None
    BY <1>0, <1>4, AccountAssumption DEF RefreshRefused, LockHeld
  <2>2. Owed = 1 /\ Owed' \in {0, 1}
    BY <1>4, <2>1 DEF RefreshRefused, Owed
  <2>3. UNCHANGED <<refreshed, expiries, crashes>>
    BY <1>4 DEF RefreshRefused, provider, bounds
  <2>4. refreshed + 1 <= expiries + crashes
    BY <1>m, <2>2
  <2>5. CASE Owed' = 0
    BY <1>0, <1>n, <2>3, <2>4, <2>5 DEF FlightInv
  <2>6. CASE Owed' = 1
    BY <1>0, <1>n, <2>3, <2>4, <2>6 DEF FlightInv
  <2> QED
    BY <2>2, <2>5, <2>6
<1>5. ASSUME NEW r \in Refreshers, StoreTokens(r) PROVE FlightInv'
  <2>1. Owed' = 0
    BY <1>5 DEF StoreTokens, Owed, NeedsRefresh, Stored
  <2> QED
    BY <1>0, <1>5, <1>n, <2>1 DEF StoreTokens, FlightInv, provider, bounds
<1>6. ASSUME NEW r \in Refreshers, SetAccountUnhealthy(r) PROVE FlightInv'
  <2>1. Owed' = Owed
    BY <1>0, <1>6, AccountAssumption
       DEF SetAccountUnhealthy, Goto, Owed, LockHeld, TypeOK, NeedsRefresh
  <2> QED
    BY <1>0, <1>6, <2>1 DEF SetAccountUnhealthy, FlightInv, provider, bounds
<1>7. ASSUME NEW r \in Refreshers, Crash(r) PROVE FlightInv'
  <2>1. Owed' \in {0, 1}
    BY DEF Owed
  <2>2. crashes' = crashes + 1 /\ UNCHANGED <<refreshed, expiries>>
    BY <1>7 DEF Crash, provider
  <2>3. refreshed <= expiries + crashes
    BY <1>m, <1>n
  <2>4. CASE Owed' = 0
    BY <1>0, <1>n, <2>2, <2>3, <2>4 DEF FlightInv
  <2>5. CASE Owed' = 1
    BY <1>0, <1>n, <2>2, <2>3, <2>5 DEF FlightInv
  <2> QED
    BY <2>1, <2>4, <2>5
<1>8. CASE TokenNearsExpiry
  <2>1. Owed' <= Owed + 1 /\ Owed' \in {0, 1}
    BY <1>8 DEF TokenNearsExpiry, Owed
  <2> QED
    BY <1>0, <1>8, <1>n, <2>1 DEF TokenNearsExpiry, FlightInv, provider
<1>9. CASE ReadOldKey \/ WriteNewKey \/ Disconnect \/ Reconnect \/ KeyRotates
  <2>1. UNCHANGED <<lock, pc, refreshed, expiries, crashes>>
    BY <1>9 DEF ReadOldKey, WriteNewKey, Disconnect, Reconnect, KeyRotates, provider, bounds
  <2>2. NeedsRefresh' => NeedsRefresh
    <3>1. CASE WriteNewKey
      BY <3>1 DEF WriteNewKey, NeedsRefresh, TypeOK, Row
    <3>2. CASE Reconnect
      <4>1. tokens' = Stored(issued')
        BY <3>2 DEF Reconnect
      <4> QED
        BY <4>1 DEF NeedsRefresh, Stored
    <3>3. CASE ReadOldKey \/ Disconnect \/ KeyRotates
      BY <3>3 DEF ReadOldKey, Disconnect, KeyRotates, NeedsRefresh
    <3> QED
      BY <1>9, <3>1, <3>2, <3>3
  <2> QED
    BY <1>0, <2>1, <2>2, OwesNoMore
<1>10. CASE UNCHANGED vars
  BY <1>0, <1>10, OwesNoMore DEF vars, NeedsRefresh, provider, bounds
<1> QED
  BY <1>1, <1>2, <1>3, <1>4, <1>5, <1>6, <1>7, <1>8, <1>9, <1>10
     DEF Next, EnsureFreshToken

(* Single flight: however many tasks find a token stale, the provider       *)
(* grants at most one refresh per expiry, and one more per crash.           *)
THEOREM SingleFlight == Spec => []OneRefreshPerExpiry
<1>1. Init => FlightInv
  BY AccountAssumption DEF Init, FlightInv, LockHeld, Owed, NeedsRefresh
<1>2. TypeOK /\ FlightInv => OneRefreshPerExpiry
  BY DEF TypeOK, FlightInv, Owed, OneRefreshPerExpiry
<1> QED
  BY <1>1, <1>2, InitType, StepType, StepFlight, PTL DEF Spec

-----------------------------------------------------------------------------
(* What the adapters report.                                                *)

(* No name of an error holds the words that publish() of Bluesky takes for  *)
(* a post that is there already.                                            *)
NamesAreNames == "CouldNot" \notin BodyErrors

CallKinds == {"publish", "revoke", "signIn", "refresh", "metrics", "delete", "upload"}
Wires == {Quiet} \cup [at : {"sent"}, kind : CallKinds]
           \cup [at : {"back"}, kind : CallKinds, answer : Answers]

ProvidersTypeOK ==
  /\ network \in Nets
  /\ there \subseteq {"post", "blob"}
  /\ wire \in Wires

(* The report is true of what the network holds.                            *)
Truthful(kind, outcome, held) ==
  /\ kind = "publish" /\ outcome = "ok" => "post" \in held
  /\ kind = "upload" /\ outcome = "ok" => "blob" \in held
  /\ kind = "delete" /\ outcome = "ok" => "post" \notin held
  /\ kind = "publish" /\ outcome \in Terminal /\ network \notin Lookup => "post" \notin held

(* What came back will be reported as it is, and until then nothing is.     *)
ReportInv ==
  /\ wire = Quiet => ReportedTruthfully
  /\ wire.at \in {"sent", "back"} => reported = <<wire.kind, "waiting">>
  /\ wire.at = "back" => Truthful(wire.kind, Outcome(wire.kind, wire.answer), there)

LEMMA TruthfulIsReported ==
  ASSUME NEW k, NEW o
  PROVE  /\ reported = <<k, o>> /\ Truthful(k, o, there) => ReportedTruthfully
         /\ reported' = <<k, o>> /\ network' = network /\ Truthful(k, o, there') => ReportedTruthfully'
BY SMT DEF Truthful, ReportedTruthfully

LEMMA WireForms ==
  ASSUME ProvidersTypeOK
  PROVE  /\ wire.at \in {"quiet", "sent", "back"}
         /\ wire.at = "quiet" <=> wire = Quiet
         /\ wire.at \in {"sent", "back"} => wire.kind \in CallKinds
         /\ wire.at = "back" => wire.answer \in Answers
BY SMT DEF ProvidersTypeOK, Wires, Quiet

LEMMA AnswerForms ==
  ASSUME NEW a \in Answers
  PROVE  /\ a.lost \in {"no", "timeout", "dropped"}
         /\ a.status \in {200, 400, 401, 429, 500}
         /\ a.error \in Errors
BY SMT DEF Answers, Silence, Errors

(* What each call takes for a success, and for an error it never retries.   *)
LEMMA SuccessIs ==
  ASSUME NEW a \in Answers, NamesAreNames
  PROVE  /\ BlueskyPublish(a) = "ok" =>
              a.lost = "no" /\ (a.error = "RecordAlreadyExists" \/ (a.error = "none" /\ a.status = 200))
         /\ LinePublish(a) = "ok" => a.lost = "no" /\ a.error = "none" /\ a.status = 200
         /\ BlueskyUpload(a) = "ok" => a.lost = "no" /\ a.error = "none" /\ a.status = 200
         /\ BlueskyXrpc(a) = "ok" => a.lost = "no" /\ a.error = "none" /\ a.status = 200
         /\ LinePublish(a) \in Terminal =>
              /\ a.lost = "no" /\ a.status \notin {429, 500}
              /\ ~(a.error = "none" /\ a.status = 200)
<1>1. a.error # "CouldNot"
  BY AnswerForms DEF Errors, NamesAreNames
<1>2. BlueskyCode(a) # "ok" /\ LineCode(a) # "ok" /\ Lost(a) # "ok" /\ Lost(a) \notin Terminal
  BY SMT DEF BlueskyCode, LineCode, Lost, Terminal
<1>3. a.status \in {429, 500} => LineCode(a) \notin Terminal
  BY SMT DEF LineCode, Terminal
<1>4. "ok" \notin Terminal
  BY SMT DEF Terminal
<1> HIDE DEF Terminal
<1> QED
  BY <1>1, <1>2, <1>3, <1>4, SMT DEF BlueskyPublish, LinePublish, BlueskyUpload, BlueskyXrpc, Good

LEMMA OutcomeIs ==
  ASSUME NEW a
  PROVE  /\ Outcome("publish", a) = IF network = "line" THEN LinePublish(a) ELSE BlueskyPublish(a)
         /\ Outcome("upload", a) = BlueskyUpload(a)
         /\ Outcome("delete", a) = BlueskyXrpc(a)
<1>1. Outcome("publish", a) = IF network = "line" THEN LinePublish(a) ELSE BlueskyPublish(a)
  BY Zenon DEF Outcome
<1>2. Outcome("upload", a) = BlueskyUpload(a)
  BY Zenon DEF Outcome
<1>3. Outcome("delete", a) = BlueskyXrpc(a)
  BY Zenon DEF Outcome
<1> QED
  BY <1>1, <1>2, <1>3

LEMMA OutcomeStays ==
  ASSUME network' = network
  PROVE  Outcome(wire.kind, wire.answer)' = Outcome(wire'.kind, wire'.answer)
BY Zenon DEF Outcome

LEMMA EffectIs ==
  /\ Effect("publish") = there \cup {"post"}
  /\ Effect("upload") = there \cup {"blob"}
  /\ Effect("delete") = there \ {"post"}
  /\ \A k : Effect(k) \subseteq there \cup {"post", "blob"}
<1>1. Effect("publish") = there \cup {"post"}
  BY Zenon DEF Effect
<1>2. Effect("upload") = there \cup {"blob"}
  BY Zenon DEF Effect
<1>3. Effect("delete") = there \ {"post"}
  BY Zenon DEF Effect
<1>4. ASSUME NEW k, k \notin {"publish", "upload", "delete"} PROVE Effect(k) = there
  BY <1>4, Zenon DEF Effect
<1>5. ASSUME NEW k PROVE Effect(k) \subseteq there \cup {"post", "blob"}
  BY <1>1, <1>2, <1>3, <1>4
<1> QED
  BY <1>1, <1>2, <1>3, <1>5

LEMMA InitReport == ProvidersInit => ProvidersTypeOK /\ ReportInv
BY SMT DEF ProvidersInit, ProvidersTypeOK, Wires, Quiet, ReportInv, ReportedTruthfully, Terminal

LEMMA CallReport ==
  ASSUME ProvidersTypeOK, ReportInv, NEW kind \in CallKinds, Call(kind)
  PROVE  (ProvidersTypeOK /\ ReportInv)'
<1>1. /\ wire' = [at |-> "sent", kind |-> kind] /\ reported' = <<kind, "waiting">>
      /\ UNCHANGED <<network, there>>
  BY DEF Call
<1>2. wire' \in Wires /\ wire'.at = "sent" /\ wire'.kind = kind /\ wire' # Quiet
  BY <1>1, SMT DEF Wires, Quiet
<1> QED
  BY <1>1, <1>2 DEF ProvidersTypeOK, ReportInv

(* Whatever the network did and answered, the adapter will say what it did. *)
LEMMA AnswersReport ==
  ASSUME ProvidersTypeOK, ReportInv, NamesAreNames, NEW a \in Answers, NetworkAnswers(a)
  PROVE  (ProvidersTypeOK /\ ReportInv)'
<1> DEFINE k == wire.kind
<1>1. /\ wire.at = "sent" /\ k \in CallKinds /\ network \in {"bluesky", "line"}
      /\ wire' = [at |-> "back", kind |-> k, answer |-> a]
      /\ UNCHANGED <<network, reported>> /\ there \subseteq {"post", "blob"}
  BY WireForms, ProvidersAssumption DEF NetworkAnswers, ProvidersTypeOK
<1> HIDE DEF k
<1>2. /\ wire' \in Wires /\ wire'.at = "back" /\ wire'.kind = k /\ wire'.answer = a /\ wire' # Quiet
  BY <1>1, SMT DEF Wires, Quiet
<1>3. there' \subseteq {"post", "blob"}
  BY <1>1, EffectIs DEF NetworkAnswers
<1>4. network \in Lookup <=> network = "bluesky"
  BY <1>1, SMT DEF Lookup
<1>6. ASSUME Truthful(k, Outcome(k, a), there')
      PROVE  (ProvidersTypeOK /\ ReportInv)'
  <2>1. reported' = <<wire'.kind, "waiting">>
    BY <1>1, <1>2 DEF ReportInv, k
  <2>2. Truthful(wire.kind, Outcome(wire.kind, wire.answer), there)'
    BY <1>1, <1>2, <1>6, OutcomeStays DEF Truthful
  <2> QED
    BY <1>1, <1>2, <1>3, <2>1, <2>2 DEF ProvidersTypeOK, ReportInv
<1>5. CASE k = "publish"
  <2> DEFINE o == IF network = "line" THEN LinePublish(a) ELSE BlueskyPublish(a)
  <2>1. \/ "post" \in there' /\ Again(a)
        \/ "post" \in there' /\ Done(a)
        \/ "post" \notin there' /\ NotDone(a)
    BY <1>5, EffectIs DEF NetworkAnswers, k
  <2>2. o = "ok" => "post" \in there'
    <3> SUFFICES ASSUME o = "ok", NotDone(a) PROVE FALSE
      BY <2>1
    <3> QED
      BY <1>1, SuccessIs DEF NotDone
  <2>3. network = "line" /\ o \in Terminal => "post" \notin there'
    <3> SUFFICES ASSUME network = "line", LinePublish(a) \in Terminal, Again(a) \/ Done(a) PROVE FALSE
      BY <2>1
    <3>1. /\ a.lost = "no" /\ a.status \notin {429, 500}
          /\ ~(a.error = "none" /\ a.status = 200)
      BY SuccessIs
    <3>2. "line" \notin Lookup /\ "line" # "bluesky"
      BY SMT DEF Lookup
    <3> QED
      BY <3>1, <3>2 DEF Again, Done
  <2>4. Truthful(k, o, there')
    BY <1>1, <1>4, <1>5, <2>2, <2>3, Zenon DEF Truthful
  <2>5. Outcome(k, a) = o
    BY <1>5, OutcomeIs, Zenon
  <2>6. Truthful(k, Outcome(k, a), there')
    BY <2>4, <2>5
  <2> QED
    BY <1>6, <2>6
<1>7. CASE k \in {"upload", "delete"}
  <2> DEFINE o == IF k = "upload" THEN BlueskyUpload(a) ELSE BlueskyXrpc(a)
  <2>1. o = "ok" => ~NotDone(a)
    BY SuccessIs DEF NotDone
  <2>2. o = "ok" => there' = Effect(k)
    BY <1>1, <1>7, <2>1 DEF NetworkAnswers, k
  <2>3. Truthful(k, o, there')
    BY <1>7, <2>2, EffectIs DEF Truthful
  <2>4. Outcome(k, a) = o
    BY <1>7, OutcomeIs, Zenon
  <2>5. Truthful(k, Outcome(k, a), there')
    BY <2>3, <2>4
  <2> QED
    BY <1>6, <2>5
<1>8. CASE k \notin {"publish", "upload", "delete"}
  BY <1>6, <1>8, Zenon DEF Truthful
<1> QED
  BY <1>5, <1>7, <1>8

LEMMA ReportsReport ==
  ASSUME ProvidersTypeOK, ReportInv, AdapterReports
  PROVE  (ProvidersTypeOK /\ ReportInv)'
<1>1. /\ wire.at = "back" /\ wire' = Quiet /\ UNCHANGED <<network, there>>
      /\ reported' = <<wire.kind, Outcome(wire.kind, wire.answer)>>
      /\ Truthful(wire.kind, Outcome(wire.kind, wire.answer), there)
  BY DEF AdapterReports, ReportInv
<1>2. ReportedTruthfully'
  BY <1>1, TruthfulIsReported
<1>3. wire'.at = "quiet" /\ wire' \in Wires
  BY <1>1, SMT DEF Quiet, Wires
<1> QED
  BY <1>1, <1>2, <1>3 DEF ProvidersTypeOK, ReportInv

LEMMA FakeReport ==
  ASSUME ProvidersTypeOK, ReportInv, NEW mode \in FakeModes, FakeAnswers(mode)
  PROVE  (ProvidersTypeOK /\ ReportInv)'
<1> DEFINE k == wire.kind
<1>1. /\ wire.at = "sent" /\ wire' = Quiet /\ network' = network /\ k \in CallKinds
      /\ network \in Lookup /\ there \subseteq {"post", "blob"}
  BY WireForms, SMT DEF FakeAnswers, Lookup, ProvidersTypeOK
<1>2. wire'.at = "quiet" /\ wire' \in Wires
  BY <1>1, SMT DEF Quiet, Wires
<1> HIDE DEF k
<1>3. CASE k = "publish"
  <2>1. FakePublish(mode)
    BY <1>3 DEF FakeAnswers, k
  <2>2. there' = there \/ there' = there \cup {"post"}
    BY <2>1, EffectIs DEF FakePublish
  <2> DEFINE S == CASE mode = "ok" -> {"ok"}
                    [] mode \in {"accept_then_timeout", "timeout_no_record"} -> {"ambiguous"}
                    [] OTHER -> {"content_rejected", "rate_limited", "permanent_failure"}
  <2>3. mode # "ok" => "ok" \notin S
    BY Zenon
  <2>4. reported' \in {"publish"} \X S
    BY <2>1 DEF FakePublish
  <2> HIDE DEF S
  <2>5. PICK o \in S : reported' = <<"publish", o>>
    BY <2>4
  <2>6. o = "ok" => "post" \in there'
    <3>1. mode = "ok" => there' = there \cup {"post"}
      BY <2>1, EffectIs DEF FakePublish
    <3> QED
      BY <2>3, <2>5, <3>1
  <2>7. Truthful("publish", o, there')
    BY <1>1, <2>6, Zenon DEF Truthful
  <2>8. ReportedTruthfully'
    BY <1>1, <2>5, <2>7, TruthfulIsReported
  <2> QED
    BY <1>1, <1>2, <2>2, <2>8 DEF ProvidersTypeOK, ReportInv
<1>4. CASE k # "publish"
  <2>1. /\ there' = Effect(k)
        /\ \E o : reported' = <<k, o>>
    BY <1>4 DEF FakeAnswers, k
  <2>2. PICK o : reported' = <<k, o>>
    BY <2>1
  <2>3. Truthful(k, o, there')
    BY <1>4, <2>1, EffectIs DEF Truthful
  <2>4. ReportedTruthfully'
    BY <1>1, <2>2, <2>3, TruthfulIsReported
  <2>5. there' \subseteq {"post", "blob"}
    BY <1>1, <2>1, EffectIs
  <2> QED
    BY <1>1, <1>2, <2>4, <2>5 DEF ProvidersTypeOK, ReportInv
<1> QED
  BY <1>3, <1>4

LEMMA NextReport ==
  ASSUME NamesAreNames, ProvidersTypeOK, ReportInv, [ProvidersNext]_providersVars
  PROVE  (ProvidersTypeOK /\ ReportInv)'
<1>1. CASE UNCHANGED providersVars
  <2>1. UNCHANGED <<network, there, wire, reported>>
    BY <1>1 DEF providersVars
  <2>2. ReportedTruthfully' = ReportedTruthfully
    BY <2>1 DEF ReportedTruthfully
  <2>3. Truthful(wire.kind, Outcome(wire.kind, wire.answer), there)'
          = Truthful(wire.kind, Outcome(wire.kind, wire.answer), there)
    BY <2>1, OutcomeStays, Zenon DEF Truthful
  <2> QED
    BY <2>1, <2>2, <2>3 DEF ProvidersTypeOK, ReportInv
<1>2. CASE ProvidersNext
  BY <1>2, CallReport, AnswersReport, ReportsReport, FakeReport, Zenon DEF ProvidersNext, CallKinds
<1> QED
  BY <1>1, <1>2

(* What an adapter reports is what happened, for any calls in any order,    *)
(* any names of errors and any answers, as long as no name of an error      *)
(* holds the words "could not".                                             *)
THEOREM AdaptersReportTruthfully ==
  ASSUME NamesAreNames
  PROVE  ProvidersSpec => []ReportedTruthfully
<1>1. ReportInv /\ ProvidersTypeOK => ReportedTruthfully
  <2> SUFFICES ASSUME ReportInv, ProvidersTypeOK, wire # Quiet PROVE ReportedTruthfully
    BY DEF ReportInv
  <2>1. reported = <<wire.kind, "waiting">>
    BY WireForms DEF ReportInv
  <2>2. Truthful(wire.kind, "waiting", there)
    BY SMT DEF Truthful, Terminal
  <2> QED
    BY <2>1, <2>2, TruthfulIsReported
<1>2. ProvidersTypeOK /\ ReportInv /\ [ProvidersNext]_providersVars => (ProvidersTypeOK /\ ReportInv)'
  BY NextReport
<1> QED
  BY <1>1, <1>2, InitReport, PTL DEF ProvidersSpec

-----------------------------------------------------------------------------
(* The content of a draft.                                                  *)

(* Every nonempty set of numbers has a least one.                           *)
Below == {s \in Nat \X Nat : s[1] < s[2]}

LEMMA BelowIsWellFounded == IsWellFoundedOn(Below, Nat)
BY NatLessThanWellFounded DEF OpToRel, Below

LEMMA LeastIn ==
  ASSUME NEW S \in SUBSET Nat, S # {} PROVE \E x \in S : \A y \in S : x <= y
<1>1. PICK x \in S : \A y \in S : ~(<<y, x>> \in Below)
  BY BelowIsWellFounded, WFMin
<1>2. ASSUME NEW y \in S PROVE x <= y
  <2>1. y < x => <<y, x>> \in Below
    BY DEF Below
  <2> QED
    BY <1>1, <2>1
<1> QED
  BY <1>2

(* A set that holds 0 and every next number up to n holds all up to n.      *)
LEMMA UpTo ==
  ASSUME NEW n \in Nat, NEW S, 0 \in S, \A i \in 1 .. n : i - 1 \in S => i \in S
  PROVE  0 .. n \subseteq S
<1> DEFINE Gone == (0 .. n) \ S
<1>1. ASSUME NEW x \in Gone, \A y \in Gone : x <= y PROVE FALSE
  <2>1. x \in 1 .. n /\ x - 1 \in 0 .. n /\ ~(x <= x - 1)
    BY SMT
  <2>2. x - 1 \notin Gone
    BY <1>1, <2>1
  <2> QED
    BY <2>1, <2>2
<1>2. Gone \subseteq Nat
  OBVIOUS
<1> HIDE DEF Gone
<1>3. Gone = {}
  BY <1>1, <1>2, LeastIn
<1> QED
  BY <1>3 DEF Gone

(* A recursion over the numbers up to n has a solution.                     *)
Recursion(n, base, step, g) ==
  [i \in 0 .. n |-> IF i = 0 THEN base ELSE step[<<g[i - 1], i>>]]

Solvable(A, n, base, step) == \E f \in [0 .. n -> A] : f = Recursion(n, base, step, f)

LEMMA RecursionExists ==
  ASSUME NEW A, NEW n \in Nat, NEW base \in A, NEW step \in [A \X (1 .. n) -> A]
  PROVE  Solvable(A, n, base, step)
<1> DEFINE Folded(m, f) == f[0] = base /\ \A i \in 1 .. m : f[i] = step[<<f[i - 1], i>>]
           S == {m \in 0 .. n : \E f \in [0 .. m -> A] : Folded(m, f)}
<1>1. 0 \in S
  <2> DEFINE f == [i \in 0 .. 0 |-> base]
  <2>1. f \in [0 .. 0 -> A] /\ f[0] = base /\ 1 .. 0 = {}
    OBVIOUS
  <2> HIDE DEF f
  <2> QED
    BY <2>1
<1>2. ASSUME NEW i \in 1 .. n, i - 1 \in S PROVE i \in S
  <2>1. PICK f \in [0 .. i - 1 -> A] : Folded(i - 1, f)
    BY <1>2
  <2>2. i - 1 \in 0 .. i - 1 /\ f[i - 1] \in A
    BY SMT
  <2>3. step[<<f[i - 1], i>>] \in A
    BY <2>2
  <2> DEFINE e == step[<<f[i - 1], i>>]
             g == [j \in 0 .. i |-> IF j = i THEN e ELSE f[j]]
  <2>4. g \in [0 .. i -> A]
    <3>1. \A j \in 0 .. i : j # i => j \in 0 .. i - 1
      BY SMT
    <3> QED
      BY <2>3, <3>1
  <2>5. g[0] = base
    <3>1. 0 \in 0 .. i /\ 0 # i
      BY SMT
    <3>2. f[0] = base
      BY <2>1
    <3> HIDE DEF e
    <3> QED
      BY <3>1, <3>2
  <2>6. ASSUME NEW j \in 1 .. i PROVE g[j] = step[<<g[j - 1], j>>]
    <3>1. j - 1 \in 0 .. i /\ j - 1 # i /\ j \in 0 .. i
      BY SMT
    <3>2. g[j - 1] = f[j - 1]
      BY <3>1
    <3>3. CASE j = i
      BY <3>1, <3>2, <3>3
    <3>4. CASE j # i
      <4>1. j \in 1 .. i - 1
        BY <3>4, SMT
      <4>2. f[j] = step[<<f[j - 1], j>>]
        BY <2>1, <4>1
      <4> QED
        BY <3>1, <3>2, <3>4, <4>2
    <3> QED
      BY <3>3, <3>4
  <2> HIDE DEF g
  <2>7. i \in 0 .. n
    BY SMT
  <2> QED
    BY <2>4, <2>5, <2>6, <2>7
<1>3. n \in S
  <2> HIDE DEF S
  <2>1. 0 .. n \subseteq S
    BY <1>1, <1>2, UpTo
  <2> QED
    BY <2>1
<1>4. PICK f \in [0 .. n -> A] : f[0] = base /\ \A i \in 1 .. n : f[i] = step[<<f[i - 1], i>>]
  BY <1>3
<1>5. f = Recursion(n, base, step, f)
  <2>1. ASSUME NEW i \in 0 .. n PROVE f[i] = IF i = 0 THEN base ELSE step[<<f[i - 1], i>>]
    <3>1. i = 0 \/ i \in 1 .. n
      BY SMT
    <3> QED
      BY <1>4, <3>1
  <2> QED
    BY <2>1 DEF Recursion
<1> QED
  BY <1>5 DEF Solvable

(* Two functions that agree at 0, and then from each number to the next.    *)
Same(n, f, g) == \A i \in 0 .. n : f[i] = g[i]

LEMMA Agree ==
  ASSUME NEW n \in Nat, NEW f, NEW g, f[0] = g[0],
         \A i \in 1 .. n : f[i - 1] = g[i - 1] => f[i] = g[i]
  PROVE  Same(n, f, g)
<1> DEFINE S == {i \in 0 .. n : f[i] = g[i]}
<1>1. 0 \in S
  OBVIOUS
<1>2. ASSUME NEW i \in 1 .. n, i - 1 \in S PROVE i \in S
  <2>1. i \in 0 .. n /\ f[i] = g[i]
    BY <1>2
  <2> QED
    BY <2>1
<1>3. 0 .. n \subseteq S
  <2> HIDE DEF S
  <2> QED
    BY <1>1, <1>2, UpTo
<1> QED
  BY <1>3 DEF Same

(* The length of a text is a number.                                        *)
LEMMA LengthTyped ==
  ASSUME NEW words \in Seq(Nat) PROVE LengthOf(words) \in Nat
<1> DEFINE n == Len(words)
           body(g) == [i \in 0 .. n |-> IF i = 0 THEN 0 ELSE g[i - 1] + words[i]]
           step == [x \in Nat \X (1 .. n) |-> x[1] + words[x[2]]]
<1>1. LengthOf(words) = (CHOOSE g : g = body(g))[n]
  BY DEF LengthOf
<1>2. n \in Nat /\ step \in [Nat \X (1 .. n) -> Nat] /\ 0 \in Nat
  <2>1. n \in Nat /\ \A i \in 1 .. n : words[i] \in Nat
    OBVIOUS
  <2>2. \A x \in Nat \X (1 .. n) : x[1] \in Nat /\ words[x[2]] \in Nat
    BY <2>1
  <2>3. \A x \in Nat \X (1 .. n) : x[1] + words[x[2]] \in Nat
    BY <2>2
  <2> QED
    BY <2>1, <2>3
<1>s. Solvable(Nat, n, 0, step)
  <2> HIDE DEF n, step
  <2> QED
    BY <1>2, RecursionExists
<1>3. PICK f \in [0 .. n -> Nat] : f = Recursion(n, 0, step, f)
  BY <1>s DEF Solvable
<1>4. f = body(f)
  <2>1. ASSUME NEW i \in 1 .. n PROVE i - 1 \in 0 .. n /\ step[<<f[i - 1], i>>] = f[i - 1] + words[i]
    <3>1. i - 1 \in 0 .. n
      BY <1>2, SMT
    <3>2. f[i - 1] \in Nat
      BY <3>1
    <3> QED
      BY <3>1, <3>2
  <2>2. \A i \in 0 .. n : i = 0 \/ i \in 1 .. n
    BY <1>2, SMT
  <2>3. \A i \in 0 .. n : (IF i = 0 THEN 0 ELSE step[<<f[i - 1], i>>]) = IF i = 0 THEN 0 ELSE f[i - 1] + words[i]
    BY <2>1, <2>2
  <2> HIDE DEF n, step
  <2> QED
    BY <1>3, <2>3 DEF Recursion
<1> DEFINE g == CHOOSE h : h = body(h)
<1>5. g = body(g)
  <2> HIDE DEF body
  <2> QED
    BY <1>4
<1>6. Same(n, f, g)
  <2> HIDE DEF g
  <2>1. f[0] = g[0]
    BY <1>2, <1>4, <1>5
  <2>2. ASSUME NEW i \in 1 .. n, f[i - 1] = g[i - 1] PROVE f[i] = g[i]
    <3>1. i \in 0 .. n /\ i # 0
      BY <1>2, SMT
    <3>2. f[i] = f[i - 1] + words[i] /\ g[i] = g[i - 1] + words[i]
      BY <1>4, <1>5, <3>1
    <3> QED
      BY <2>2, <3>2
  <2> HIDE DEF n
  <2> QED
    BY <1>2, <2>1, <2>2, Agree
<1> HIDE DEF g
<1>7. n \in 0 .. n
  BY <1>2, SMT
<1> QED
  BY <1>1, <1>6, <1>7 DEF g, Same

LEMMA WidthTyped ==
  ASSUME NEW words \in Seq(Nat) PROVE Width(words) \in Nat
<1>1. words # <<>> => Len(words) >= 1 /\ Len(words) \in Nat
  OBVIOUS
<1>2. LengthOf(words) \in Nat
  BY LengthTyped
<1> QED
  BY <1>1, <1>2 DEF Width

-----------------------------------------------------------------------------
(* Sequences of words, one after the other.                                 *)
LEMMA EmptyConcat ==
  ASSUME NEW s \in Seq(Nat) PROVE <<>> \o s = s /\ s \o <<>> = s
BY ConcatEmptySeq

LEMMA Grouping ==
  ASSUME NEW a \in Seq(Nat), NEW b \in Seq(Nat), NEW c \in Seq(Nat)
  PROVE  (a \o b) \o c = a \o (b \o c) /\ a \o b \in Seq(Nat)
<1>1. a \o b \in Seq(Nat)
  BY ConcatProperties
<1>2. (a \o b) \o c = a \o (b \o c)
  BY ConcatAssociative, SMTT(20)
<1> QED
  BY <1>1, <1>2

LEMMA FlattenFolds ==
  ASSUME NEW s \in Seq(Seq(Nat))
  PROVE  \E f \in [0 .. Len(s) -> Seq(Nat)] :
           /\ f[0] = <<>> /\ FlattenSeq(s) = f[Len(s)]
           /\ \A i \in 1 .. Len(s) : f[i] = f[i - 1] \o s[i]
<1> DEFINE A == Seq(Nat)
           n == Len(s)
           step == [x \in A \X (1 .. n) |-> x[1] \o s[x[2]]]
           body(g) == [i \in 1 .. n |-> IF i = 1 THEN s[i] ELSE g[i - 1] \o s[i]]
<1>1. n \in Nat /\ step \in [A \X (1 .. n) -> A] /\ <<>> \in A
  <2>1. n \in Nat /\ \A i \in 1 .. n : s[i] \in A
    OBVIOUS
  <2>2. \A x \in A \X (1 .. n) : x[1] \in A /\ s[x[2]] \in A
    BY <2>1
  <2>3. \A x \in A \X (1 .. n) : x[1] \o s[x[2]] \in A
    BY <2>2
  <2> QED
    BY <2>1, <2>3
<1>2. Solvable(A, n, <<>>, step)
  <2> HIDE DEF n, step, A
  <2> QED
    BY <1>1, RecursionExists
<1>3. PICK f \in [0 .. n -> A] : f = Recursion(n, <<>>, step, f)
  BY <1>2 DEF Solvable
<1>4. f[0] = <<>> /\ \A i \in 1 .. n : f[i] = f[i - 1] \o s[i]
  <2>1. \A i \in 1 .. n : i - 1 \in 0 .. n /\ i \in 0 .. n /\ i # 0
    BY <1>1, SMT
  <2>2. \A i \in 1 .. n : f[i - 1] \in A /\ step[<<f[i - 1], i>>] = f[i - 1] \o s[i]
    BY <2>1
  <2>3. 0 \in 0 .. n
    BY <1>1, SMT
  <2> HIDE DEF n, step
  <2>4. \A i \in 0 .. n : f[i] = IF i = 0 THEN <<>> ELSE step[<<f[i - 1], i>>]
    BY <1>3 DEF Recursion
  <2> QED
    BY <2>1, <2>2, <2>3, <2>4
<1>5. CASE n = 0
  BY <1>4, <1>5 DEF FlattenSeq
<1>6. CASE n # 0
  <2>1. FlattenSeq(s) = (CHOOSE g : g = body(g))[n]
    BY <1>6 DEF FlattenSeq
  <2>0. f[1] = s[1] /\ 1 \in 1 .. n
    <3>1. 1 \in 1 .. n /\ 1 - 1 = 0
      BY <1>1, <1>6, SMT
    <3>2. s[1] \in Seq(Nat)
      BY <3>1
    <3> HIDE DEF step, n
    <3>3. f[1] = f[1 - 1] \o s[1]
      BY <1>4, <3>1
    <3>4. f[1] = <<>> \o s[1]
      BY <1>4, <3>1, <3>3
    <3> QED
      BY <3>1, <3>2, <3>4, EmptyConcat
  <2> DEFINE h == [i \in 1 .. n |-> f[i]]
             g == CHOOSE k : k = body(k)
  <2>2. h = body(h)
    <3>1. ASSUME NEW i \in 1 .. n PROVE h[i] = IF i = 1 THEN s[i] ELSE h[i - 1] \o s[i]
      <4>1. CASE i = 1
        BY <2>0, <4>1
      <4>2. CASE i # 1
        <5>1. i - 1 \in 1 .. n
          BY <1>1, <4>2, SMT
        <5> QED
          BY <1>4, <4>2, <5>1
      <4> QED
        BY <4>1, <4>2
    <3> HIDE DEF n
    <3> QED
      BY <3>1
  <2>3. g = body(g)
    <3> HIDE DEF body
    <3> QED
      BY <2>2
  <2> HIDE DEF g
  <2>4. ASSUME NEW i \in 1 .. n PROVE g[i] = IF i = 1 THEN s[i] ELSE g[i - 1] \o s[i]
    BY <2>3
  <2> DEFINE k == [i \in 0 .. n |-> IF i = 0 THEN <<>> ELSE g[i]]
  <2>5. Same(n, f, k)
    <3>1. f[0] = k[0]
      BY <1>1, <1>4
    <3>2. ASSUME NEW i \in 1 .. n, f[i - 1] = k[i - 1] PROVE f[i] = k[i]
      <4>0. i \in 0 .. n /\ i - 1 \in 0 .. n /\ i # 0
        BY <1>1, SMT
      <4>1. f[i] = f[i - 1] \o s[i] /\ k[i] = g[i]
        BY <1>4, <4>0
      <4>2. CASE i = 1
        BY <2>0, <2>4, <4>1, <4>2
      <4>3. CASE i # 1
        <5>1. i - 1 # 0
          BY <4>0, <4>3, SMT
        <5>2. k[i - 1] = g[i - 1]
          BY <4>0, <5>1
        <5> QED
          BY <2>4, <3>2, <4>1, <4>3, <5>2
      <4> QED
        BY <4>2, <4>3
    <3> HIDE DEF n, k
    <3> QED
      BY <1>1, <3>1, <3>2, Agree
  <2>6. n \in 0 .. n /\ n # 0
    BY <1>1, <1>6, SMT
  <2>7. f[n] = g[n]
    BY <2>5, <2>6 DEF Same
  <2> QED
    BY <1>4, <2>1, <2>7 DEF g
<1> QED
  BY <1>5, <1>6

(* What a sequence of parts says, said after it by one part more.           *)
LEMMA FlattenTyped ==
  ASSUME NEW s \in Seq(Seq(Nat)) PROVE FlattenSeq(s) \in Seq(Nat)
<1>1. PICK f \in [0 .. Len(s) -> Seq(Nat)] : FlattenSeq(s) = f[Len(s)]
  BY FlattenFolds
<1>2. Len(s) \in 0 .. Len(s)
  OBVIOUS
<1> QED
  BY <1>1, <1>2

LEMMA FlattenAppend ==
  ASSUME NEW s \in Seq(Seq(Nat)), NEW p \in Seq(Nat)
  PROVE  FlattenSeq(Append(s, p)) = FlattenSeq(s) \o p
<1> DEFINE n == Len(s)
           t == Append(s, p)
<1>1. PICK f \in [0 .. n -> Seq(Nat)] :
        /\ f[0] = <<>> /\ FlattenSeq(s) = f[n]
        /\ \A i \in 1 .. n : f[i] = f[i - 1] \o s[i]
  BY FlattenFolds
<1>2. /\ t \in Seq(Seq(Nat)) /\ Len(t) = n + 1 /\ n \in Nat /\ t[n + 1] = p
      /\ \A i \in 1 .. n : t[i] = s[i]
  OBVIOUS
<1>3. PICK g \in [0 .. Len(t) -> Seq(Nat)] :
        /\ g[0] = <<>> /\ FlattenSeq(t) = g[Len(t)]
        /\ \A i \in 1 .. Len(t) : g[i] = g[i - 1] \o t[i]
  BY <1>2, FlattenFolds
<1> HIDE DEF t, n
<1>4. Same(n, f, g)
  <2>1. ASSUME NEW i \in 1 .. n, f[i - 1] = g[i - 1] PROVE f[i] = g[i]
    <3>1. i \in 1 .. Len(t)
      BY <1>2, SMT
    <3> QED
      BY <1>1, <1>2, <1>3, <2>1, <3>1
  <2> QED
    BY <1>1, <1>2, <1>3, <2>1, Agree
<1>5. n \in 0 .. n /\ n + 1 \in 1 .. Len(t) /\ (n + 1) - 1 = n
  BY <1>2, SMT
<1>6. FlattenSeq(t) = g[n] \o p
  BY <1>2, <1>3, <1>5
<1>7. f[n] = g[n]
  BY <1>4, <1>5 DEF Same
<1> QED
  BY <1>1, <1>6, <1>7 DEF t

LEMMA InAppend ==
  ASSUME NEW s \in Seq(Seq(Nat)), NEW p \in Seq(Nat), NEW i \in DOMAIN Append(s, p)
  PROVE  Append(s, p)[i] = p \/ (i \in DOMAIN s /\ Append(s, p)[i] = s[i])
OBVIOUS

LEMMA FlattenEmpty == FlattenSeq(<<>>) = <<>>
BY DEF FlattenSeq

-----------------------------------------------------------------------------
(* The thread.                                                              *)
Packed == [parts : Seq(Seq(Nat)), cur : Seq(Nat)]
NoParts == [parts |-> <<>>, cur |-> <<>>]

LEMMA FlushedTyped ==
  ASSUME NEW acc \in Packed PROVE Flushed(acc) \in Seq(Seq(Nat))
BY DEF Flushed, Packed

LEMMA PackWordTyped ==
  ASSUME NEW limit, NEW acc \in Packed, NEW w \in Nat PROVE PackWord(limit, acc, w) \in Packed
<1>1. Flushed(acc) \in Seq(Seq(Nat)) /\ <<w>> \in Seq(Nat) /\ Append(acc.cur, w) \in Seq(Nat)
  BY FlushedTyped DEF Packed
<1>2. [parts |-> Flushed(acc), cur |-> <<w>>] \in Packed
  BY <1>1 DEF Packed
<1>3. [acc EXCEPT !.cur = Append(@, w)] \in Packed
  BY <1>1 DEF Packed
<1> QED
  BY <1>2, <1>3 DEF PackWord

(* The words of a sentence, one by one.                                     *)
WordByWord(f, limit, acc, s) ==
  /\ f \in [0 .. Len(s) -> Packed]
  /\ f[0] = [parts |-> Flushed(acc), cur |-> <<>>] /\ PackWords(limit, acc, s) = f[Len(s)]
  /\ \A i \in 1 .. Len(s) : f[i] = PackWord(limit, f[i - 1], s[i])

LEMMA PackWordsFolds ==
  ASSUME NEW limit, NEW acc \in Packed, NEW s \in Seq(Nat)
  PROVE  \E f : WordByWord(f, limit, acc, s)
<1> DEFINE n == Len(s)
           base == [parts |-> Flushed(acc), cur |-> <<>>]
           step == [x \in Packed \X (1 .. n) |-> PackWord(limit, x[1], s[x[2]])]
           body(g) == [i \in 0 .. n |-> IF i = 0 THEN base ELSE PackWord(limit, g[i - 1], s[i])]
<1>0. PackWords(limit, acc, s) = (CHOOSE g : g = body(g))[n]
  BY DEF PackWords
<1>1. n \in Nat /\ base \in Packed /\ step \in [Packed \X (1 .. n) -> Packed]
  <2>1. n \in Nat /\ base \in Packed /\ \A i \in 1 .. n : s[i] \in Nat
    BY FlushedTyped DEF Packed
  <2>2. \A x \in Packed \X (1 .. n) : PackWord(limit, x[1], s[x[2]]) \in Packed
    <3> HIDE DEF n
    <3> QED
      BY <2>1, PackWordTyped
  <2> QED
    BY <2>1, <2>2
<1>2. Solvable(Packed, n, base, step)
  <2> HIDE DEF n, step, base
  <2> QED
    BY <1>1, RecursionExists
<1>3. PICK f \in [0 .. n -> Packed] : f = Recursion(n, base, step, f)
  BY <1>2 DEF Solvable
<1>4. f[0] = base /\ \A i \in 1 .. n : f[i] = PackWord(limit, f[i - 1], s[i])
  <2>1. 0 \in 0 .. n /\ \A i \in 1 .. n : i - 1 \in 0 .. n /\ i \in 0 .. n /\ i # 0
    BY <1>1, SMT
  <2>2. \A i \in 1 .. n : step[<<f[i - 1], i>>] = PackWord(limit, f[i - 1], s[i])
    <3>1. \A i \in 1 .. n : f[i - 1] \in Packed
      BY <2>1
    <3> QED
      BY <3>1
  <2> HIDE DEF n, step, base
  <2>3. \A i \in 0 .. n : f[i] = IF i = 0 THEN base ELSE step[<<f[i - 1], i>>]
    BY <1>3 DEF Recursion
  <2> QED
    BY <2>1, <2>2, <2>3
<1>5. f = body(f)
  <2>1. \A i \in 0 .. n : f[i] = IF i = 0 THEN base ELSE PackWord(limit, f[i - 1], s[i])
    <3>1. \A i \in 0 .. n : i = 0 \/ i \in 1 .. n
      BY <1>1, SMT
    <3> HIDE DEF n, base
    <3> QED
      BY <1>4, <3>1
  <2> HIDE DEF n, base
  <2> QED
    BY <2>1
<1> DEFINE g == CHOOSE h : h = body(h)
<1>6. g = body(g)
  <2> HIDE DEF body
  <2> QED
    BY <1>5
<1> HIDE DEF g
<1>7. f[n] = g[n]
  <2>1. n \in 0 .. n /\ 0 \in 0 .. n /\ \A i \in 1 .. n : i \in 0 .. n /\ i # 0
    BY <1>1, SMT
  <2> HIDE DEF n, base
  <2>2. f[0] = g[0]
    BY <1>4, <1>6, <2>1
  <2>3. ASSUME NEW i \in 1 .. n, f[i - 1] = g[i - 1] PROVE f[i] = g[i]
    <3>1. g[i] = PackWord(limit, g[i - 1], s[i])
      BY <1>6, <2>1
    <3> QED
      BY <1>4, <2>3, <3>1
  <2>4. Same(n, f, g)
    BY <1>1, <2>2, <2>3, Agree
  <2> QED
    BY <2>1, <2>4 DEF Same
<1> QED
  BY <1>0, <1>4, <1>7 DEF g, WordByWord

LEMMA PackSentenceTyped ==
  ASSUME NEW limit, NEW acc \in Packed, NEW s \in Seq(Nat) PROVE PackSentence(limit, acc, s) \in Packed
<1>1. PackWords(limit, acc, s) \in Packed
  <2>1. PICK f \in [0 .. Len(s) -> Packed] : PackWords(limit, acc, s) = f[Len(s)]
    BY PackWordsFolds DEF WordByWord
  <2>2. Len(s) \in 0 .. Len(s)
    OBVIOUS
  <2> QED
    BY <2>1, <2>2
<1>2. Flushed(acc) \in Seq(Seq(Nat)) /\ acc.cur \o s \in Seq(Nat)
  BY FlushedTyped DEF Packed
<1>3. [parts |-> Flushed(acc), cur |-> s] \in Packed /\ [acc EXCEPT !.cur = @ \o s] \in Packed
  BY <1>2 DEF Packed
<1> QED
  BY <1>1, <1>3 DEF PackSentence

(* The sentences of a text, one by one.                                     *)
PackSentences(limit, body) ==
  (CHOOSE g : g = [i \in 0 .. Len(body) |->
                     IF i = 0 THEN NoParts ELSE PackSentence(limit, g[i - 1], body[i])])[Len(body)]

LEMMA PackSentencesFolds ==
  ASSUME NEW limit, NEW s \in Seq(Seq(Nat))
  PROVE  \E f \in [0 .. Len(s) -> Packed] :
           /\ f[0] = NoParts /\ PackSentences(limit, s) = f[Len(s)]
           /\ \A i \in 1 .. Len(s) : f[i] = PackSentence(limit, f[i - 1], s[i])
<1> DEFINE n == Len(s)
           base == NoParts
           step == [x \in Packed \X (1 .. n) |-> PackSentence(limit, x[1], s[x[2]])]
           body(g) == [i \in 0 .. n |-> IF i = 0 THEN base ELSE PackSentence(limit, g[i - 1], s[i])]
<1>0. PackSentences(limit, s) = (CHOOSE g : g = body(g))[n]
  BY DEF PackSentences
<1>1. n \in Nat /\ base \in Packed /\ step \in [Packed \X (1 .. n) -> Packed]
  <2>1. n \in Nat /\ base \in Packed /\ \A i \in 1 .. n : s[i] \in Seq(Nat)
    BY DEF Packed, NoParts
  <2>2. \A x \in Packed \X (1 .. n) : PackSentence(limit, x[1], s[x[2]]) \in Packed
    <3> HIDE DEF n
    <3> QED
      BY <2>1, PackSentenceTyped
  <2> QED
    BY <2>1, <2>2
<1>2. Solvable(Packed, n, base, step)
  <2> HIDE DEF n, step, base
  <2> QED
    BY <1>1, RecursionExists
<1>3. PICK f \in [0 .. n -> Packed] : f = Recursion(n, base, step, f)
  BY <1>2 DEF Solvable
<1>4. f[0] = base /\ \A i \in 1 .. n : f[i] = PackSentence(limit, f[i - 1], s[i])
  <2>1. 0 \in 0 .. n /\ \A i \in 1 .. n : i - 1 \in 0 .. n /\ i \in 0 .. n /\ i # 0
    BY <1>1, SMT
  <2>2. \A i \in 1 .. n : step[<<f[i - 1], i>>] = PackSentence(limit, f[i - 1], s[i])
    <3>1. \A i \in 1 .. n : f[i - 1] \in Packed
      BY <2>1
    <3> QED
      BY <3>1
  <2> HIDE DEF n, step, base
  <2>3. \A i \in 0 .. n : f[i] = IF i = 0 THEN base ELSE step[<<f[i - 1], i>>]
    BY <1>3 DEF Recursion
  <2> QED
    BY <2>1, <2>2, <2>3
<1>5. f = body(f)
  <2>1. \A i \in 0 .. n : f[i] = IF i = 0 THEN base ELSE PackSentence(limit, f[i - 1], s[i])
    <3>1. \A i \in 0 .. n : i = 0 \/ i \in 1 .. n
      BY <1>1, SMT
    <3> HIDE DEF n, base
    <3> QED
      BY <1>4, <3>1
  <2> HIDE DEF n, base
  <2> QED
    BY <2>1
<1> DEFINE g == CHOOSE h : h = body(h)
<1>6. g = body(g)
  <2> HIDE DEF body
  <2> QED
    BY <1>5
<1> HIDE DEF g
<1>7. f[n] = g[n]
  <2>1. n \in 0 .. n /\ 0 \in 0 .. n /\ \A i \in 1 .. n : i \in 0 .. n /\ i # 0
    BY <1>1, SMT
  <2> HIDE DEF n, base
  <2>2. f[0] = g[0]
    BY <1>4, <1>6, <2>1
  <2>3. ASSUME NEW i \in 1 .. n, f[i - 1] = g[i - 1] PROVE f[i] = g[i]
    <3>1. g[i] = PackSentence(limit, g[i - 1], s[i])
      BY <1>6, <2>1
    <3> QED
      BY <1>4, <2>3, <3>1
  <2>4. Same(n, f, g)
    BY <1>1, <2>2, <2>3, Agree
  <2> QED
    BY <2>1, <2>4 DEF Same
<1> QED
  BY <1>0, <1>4, <1>7 DEF g

(* What has been packed is what was said so far, in parts that fit.         *)
Fits(limit, part) == Width(part) > limit => Len(part) = 1
Held(limit, acc, said) ==
  /\ acc \in Packed
  /\ FlattenSeq(acc.parts) \o acc.cur = said
  /\ Fits(limit, acc.cur)
  /\ \A i \in DOMAIN acc.parts : Fits(limit, acc.parts[i])

LEMMA FlushedHeld ==
  ASSUME NEW limit \in Nat, NEW acc, NEW said \in Seq(Nat), Held(limit, acc, said)
  PROVE  /\ Flushed(acc) \in Seq(Seq(Nat)) /\ FlattenSeq(Flushed(acc)) = said
         /\ \A i \in DOMAIN Flushed(acc) : Fits(limit, Flushed(acc)[i])
<1>1. acc.parts \in Seq(Seq(Nat)) /\ acc.cur \in Seq(Nat) /\ acc \in Packed
  BY DEF Held, Packed
<1>2. FlattenSeq(acc.parts) \in Seq(Nat)
  BY <1>1, FlattenTyped
<1>3. CASE acc.cur = <<>>
  <2>1. FlattenSeq(acc.parts) \o acc.cur = FlattenSeq(acc.parts)
    BY <1>2, <1>3, EmptyConcat
  <2> QED
    BY <1>1, <1>3, <2>1 DEF Held, Flushed
<1>4. CASE acc.cur # <<>>
  <2>1. Flushed(acc) = Append(acc.parts, acc.cur)
    BY <1>4 DEF Flushed
  <2>2. FlattenSeq(Flushed(acc)) = said
    BY <1>1, <2>1, FlattenAppend DEF Held
  <2>3. ASSUME NEW i \in DOMAIN Append(acc.parts, acc.cur)
        PROVE Append(acc.parts, acc.cur)[i] = acc.cur
                \/ (i \in DOMAIN acc.parts /\ Append(acc.parts, acc.cur)[i] = acc.parts[i])
    BY <1>1, <2>3, InAppend
  <2> QED
    BY <1>1, <2>1, <2>2, <2>3, FlushedTyped DEF Held
<1> QED
  BY <1>3, <1>4

LEMMA StartHeld ==
  ASSUME NEW limit \in Nat, NEW acc, NEW said \in Seq(Nat), Held(limit, acc, said)
  PROVE  Held(limit, [parts |-> Flushed(acc), cur |-> <<>>], said)
<1>1. /\ Flushed(acc) \in Seq(Seq(Nat)) /\ FlattenSeq(Flushed(acc)) = said
      /\ \A i \in DOMAIN Flushed(acc) : Fits(limit, Flushed(acc)[i])
  BY FlushedHeld
<1>2. said \o <<>> = said /\ Fits(limit, <<>>)
  BY EmptyConcat DEF Fits, Width
<1> QED
  BY <1>1, <1>2 DEF Held, Packed

LEMMA OneMore ==
  ASSUME NEW s \in Seq(Nat), NEW w \in Nat
  PROVE  Append(s, w) = s \o <<w>> /\ Append(s, w) \in Seq(Nat) /\ <<w>> \in Seq(Nat)
<1>1. Append(s, w) = s \o <<w>>
  BY AppendIsConcat
<1>2. Append(s, w) \in Seq(Nat) /\ <<w>> \in Seq(Nat)
  OBVIOUS
<1> QED
  BY <1>1, <1>2

LEMMA PackWordHeld ==
  ASSUME NEW limit \in Nat, NEW acc, NEW said \in Seq(Nat), Held(limit, acc, said), NEW w \in Nat
  PROVE  Held(limit, PackWord(limit, acc, w), said \o <<w>>)
<1>1. /\ Flushed(acc) \in Seq(Seq(Nat)) /\ FlattenSeq(Flushed(acc)) = said
      /\ \A i \in DOMAIN Flushed(acc) : Fits(limit, Flushed(acc)[i])
  BY FlushedHeld
<1>2. acc.parts \in Seq(Seq(Nat)) /\ acc.cur \in Seq(Nat) /\ acc \in Packed
  BY DEF Held, Packed
<1>3. CASE acc.cur # <<>> /\ Width(Append(acc.cur, w)) > limit
  <2>1. PackWord(limit, acc, w) = [parts |-> Flushed(acc), cur |-> <<w>>]
    BY <1>3 DEF PackWord
  <2>2. Fits(limit, <<w>>)
    BY DEF Fits
  <2> QED
    BY <1>1, <2>1, <2>2 DEF Held, Packed
<1>4. CASE ~(acc.cur # <<>> /\ Width(Append(acc.cur, w)) > limit)
  <2>1. PackWord(limit, acc, w) = [acc EXCEPT !.cur = Append(@, w)]
    BY <1>4 DEF PackWord
  <2>2. Append(acc.cur, w) = acc.cur \o <<w>> /\ Append(acc.cur, w) \in Seq(Nat) /\ <<w>> \in Seq(Nat)
    BY <1>2, OneMore
  <2>3. Fits(limit, Append(acc.cur, w))
    <3>1. acc.cur = <<>> => Len(Append(acc.cur, w)) = 1
      OBVIOUS
    <3> QED
      BY <1>4, <3>1 DEF Fits
  <2>4. FlattenSeq(acc.parts) \o Append(acc.cur, w) = said \o <<w>>
    <3>1. FlattenSeq(acc.parts) \in Seq(Nat)
      BY <1>2, FlattenTyped
    <3>2. (FlattenSeq(acc.parts) \o acc.cur) \o <<w>> = FlattenSeq(acc.parts) \o (acc.cur \o <<w>>)
      BY <1>2, <2>2, <3>1, Grouping
    <3> QED
      BY <2>2, <3>2 DEF Held
  <2>5. /\ PackWord(limit, acc, w).parts = acc.parts
        /\ PackWord(limit, acc, w).cur = Append(acc.cur, w)
    BY <1>2, <2>1 DEF Packed
  <2> QED
    BY <1>2, <2>3, <2>4, <2>5, PackWordTyped DEF Held
<1> QED
  BY <1>3, <1>4

(* The first words of a sentence, and one word more.                        *)
LEMMA Upto ==
  ASSUME NEW s \in Seq(Nat), NEW i \in 1 .. Len(s)
  PROVE  SubSeq(s, 1, i) = SubSeq(s, 1, i - 1) \o <<s[i]>> /\ SubSeq(s, 1, i - 1) \in Seq(Nat)
BY SMTT(30)

LEMMA UptoEnds ==
  ASSUME NEW s \in Seq(Nat) PROVE SubSeq(s, 1, 0) = <<>> /\ SubSeq(s, 1, Len(s)) = s
OBVIOUS

LEMMA PackWordsHeld ==
  ASSUME NEW limit \in Nat, NEW acc, NEW said \in Seq(Nat), Held(limit, acc, said), NEW s \in Seq(Nat)
  PROVE  Held(limit, PackWords(limit, acc, s), said \o s)
<1>1. acc \in Packed
  BY DEF Held
<1>0. PICK f : WordByWord(f, limit, acc, s)
  BY <1>1, PackWordsFolds
<1>2. /\ f \in [0 .. Len(s) -> Packed]
      /\ f[0] = [parts |-> Flushed(acc), cur |-> <<>>] /\ PackWords(limit, acc, s) = f[Len(s)]
      /\ \A i \in 1 .. Len(s) : f[i] = PackWord(limit, f[i - 1], s[i])
  BY <1>0 DEF WordByWord
<1> DEFINE S == {i \in 0 .. Len(s) : Held(limit, f[i], said \o SubSeq(s, 1, i))}
<1>3. 0 \in S
  <2>1. said \o SubSeq(s, 1, 0) = said
    BY UptoEnds, EmptyConcat
  <2>2. Held(limit, f[0], said)
    BY <1>2, StartHeld
  <2>3. 0 \in 0 .. Len(s)
    OBVIOUS
  <2> QED
    BY <2>1, <2>2, <2>3
<1>4. ASSUME NEW i \in 1 .. Len(s), i - 1 \in S PROVE i \in S
  <2> DEFINE before == said \o SubSeq(s, 1, i - 1)
  <2>1. SubSeq(s, 1, i - 1) \in Seq(Nat) /\ s[i] \in Nat /\ <<s[i]>> \in Seq(Nat)
    BY Upto
  <2>2. before \in Seq(Nat) /\ before \o <<s[i]>> = said \o SubSeq(s, 1, i)
    <3>1. before \in Seq(Nat) /\ before \o <<s[i]>> = said \o (SubSeq(s, 1, i - 1) \o <<s[i]>>)
      BY <2>1, Grouping
    <3> QED
      BY <3>1, Upto
  <2>3. Held(limit, f[i - 1], before)
    BY <1>4
  <2> HIDE DEF before
  <2>4. Held(limit, PackWord(limit, f[i - 1], s[i]), before \o <<s[i]>>)
    BY <2>1, <2>2, <2>3, PackWordHeld
  <2>5. i \in 0 .. Len(s)
    BY SMT
  <2> QED
    BY <1>2, <2>2, <2>4, <2>5
<1>5. Len(s) \in Nat /\ Len(s) \in 0 .. Len(s)
  OBVIOUS
<1>6. 0 .. Len(s) \subseteq S
  <2> HIDE DEF S
  <2> QED
    BY <1>3, <1>4, <1>5, UpTo
<1>7. Held(limit, f[Len(s)], said \o SubSeq(s, 1, Len(s)))
  BY <1>5, <1>6
<1> QED
  BY <1>2, <1>7, UptoEnds

LEMMA PackSentenceHeld ==
  ASSUME NEW limit \in Nat, NEW acc, NEW said \in Seq(Nat), Held(limit, acc, said), NEW s \in Seq(Nat)
  PROVE  Held(limit, PackSentence(limit, acc, s), said \o s)
<1>1. /\ Flushed(acc) \in Seq(Seq(Nat)) /\ FlattenSeq(Flushed(acc)) = said
      /\ \A i \in DOMAIN Flushed(acc) : Fits(limit, Flushed(acc)[i])
  BY FlushedHeld
<1>2. acc.parts \in Seq(Seq(Nat)) /\ acc.cur \in Seq(Nat) /\ acc \in Packed
  BY DEF Held, Packed
<1>3. CASE Width(s) > limit
  <2>1. PackSentence(limit, acc, s) = PackWords(limit, acc, s)
    BY <1>3 DEF PackSentence
  <2>2. Held(limit, PackWords(limit, acc, s), said \o s)
    BY PackWordsHeld
  <2> QED
    BY <2>1, <2>2
<1>4. CASE ~(Width(s) > limit) /\ acc.cur # <<>> /\ Width(acc.cur \o s) > limit
  <2>1. PackSentence(limit, acc, s) = [parts |-> Flushed(acc), cur |-> s]
    BY <1>4 DEF PackSentence
  <2>2. Fits(limit, s)
    BY <1>4 DEF Fits
  <2>3. /\ PackSentence(limit, acc, s).parts = Flushed(acc)
        /\ PackSentence(limit, acc, s).cur = s
    BY <2>1
  <2> QED
    BY <1>1, <1>2, <2>2, <2>3, PackSentenceTyped DEF Held
<1>5. CASE ~(Width(s) > limit) /\ ~(acc.cur # <<>> /\ Width(acc.cur \o s) > limit)
  <2>1. PackSentence(limit, acc, s) = [acc EXCEPT !.cur = @ \o s]
    BY <1>5 DEF PackSentence
  <2>2. acc.cur \o s \in Seq(Nat)
    BY <1>2
  <2>3. Fits(limit, acc.cur \o s)
    <3>1. acc.cur = <<>> => acc.cur \o s = s
      BY EmptyConcat
    <3> QED
      BY <1>5, <3>1 DEF Fits
  <2>4. FlattenSeq(acc.parts) \o (acc.cur \o s) = said \o s
    <3>1. FlattenSeq(acc.parts) \in Seq(Nat)
      BY <1>2, FlattenTyped
    <3> QED
      BY <1>2, <3>1, Grouping DEF Held
  <2>5. /\ PackSentence(limit, acc, s).parts = acc.parts
        /\ PackSentence(limit, acc, s).cur = acc.cur \o s
    BY <1>2, <2>1 DEF Packed
  <2> QED
    BY <1>2, <2>3, <2>4, <2>5, PackSentenceTyped DEF Held
<1> QED
  BY <1>3, <1>4, <1>5

LEMMA PackSentencesHeld ==
  ASSUME NEW limit \in Nat, NEW body \in Seq(Seq(Nat))
  PROVE  Held(limit, PackSentences(limit, body), FlattenSeq(body))
<1>1. PICK f \in [0 .. Len(body) -> Packed] :
        /\ f[0] = NoParts /\ PackSentences(limit, body) = f[Len(body)]
        /\ \A i \in 1 .. Len(body) : f[i] = PackSentence(limit, f[i - 1], body[i])
  BY PackSentencesFolds, ZenonT(20)
<1>2. PICK u \in [0 .. Len(body) -> Seq(Nat)] :
        /\ u[0] = <<>> /\ FlattenSeq(body) = u[Len(body)]
        /\ \A i \in 1 .. Len(body) : u[i] = u[i - 1] \o body[i]
  BY FlattenFolds
<1> DEFINE S == {i \in 0 .. Len(body) : Held(limit, f[i], u[i])}
<1>3. 0 \in S
  <2>1. /\ NoParts \in Packed /\ NoParts.parts = <<>> /\ NoParts.cur = <<>>
    BY DEF NoParts, Packed
  <2>2. FlattenSeq(<<>>) \o <<>> = <<>>
    BY FlattenEmpty, EmptyConcat
  <2>3. Fits(limit, <<>>)
    BY DEF Fits, Width
  <2>4. 0 \in 0 .. Len(body)
    OBVIOUS
  <2>5. Held(limit, NoParts, <<>>)
    BY <2>1, <2>2, <2>3 DEF Held
  <2> QED
    BY <1>1, <1>2, <2>4, <2>5
<1>4. ASSUME NEW i \in 1 .. Len(body), i - 1 \in S PROVE i \in S
  <2>1. i \in 0 .. Len(body) /\ i - 1 \in 0 .. Len(body)
    BY SMT
  <2>2. u[i - 1] \in Seq(Nat) /\ body[i] \in Seq(Nat)
    <3>1. \A j \in 0 .. Len(body) : u[j] \in Seq(Nat)
      OBVIOUS
    <3>2. \A j \in 1 .. Len(body) : body[j] \in Seq(Nat)
      OBVIOUS
    <3> QED
      BY <2>1, <3>1, <3>2
  <2>3. Held(limit, PackSentence(limit, f[i - 1], body[i]), u[i - 1] \o body[i])
    BY <1>4, <2>2, PackSentenceHeld
  <2> QED
    BY <1>1, <1>2, <2>1, <2>3
<1>5. Len(body) \in Nat /\ Len(body) \in 0 .. Len(body)
  OBVIOUS
<1>6. 0 .. Len(body) \subseteq S
  <2> HIDE DEF S
  <2> QED
    BY <1>3, <1>4, <1>5, UpTo
<1> QED
  BY <1>1, <1>2, <1>5, <1>6

(* The parts of a text that is too long: its words, and a part that does    *)
(* not fit is one word, or the block of hashtags.                           *)
LEMMA ThreadSays ==
  ASSUME NEW t \in Text, ~t.glued, NEW limit \in Nat, Width(Words(t)) > limit
  PROVE  /\ FlattenSeq(SplitIntoThread(t, limit)) = Words(t)
         /\ \A i \in DOMAIN SplitIntoThread(t, limit) :
              \/ Fits(limit, SplitIntoThread(t, limit)[i])
              \/ SplitIntoThread(t, limit)[i] = t.tags
<1> DEFINE parts == Flushed(PackSentences(limit, t.body))
           tail == Append(parts, t.tags)
           whole == FlattenSeq(t.body)
<1>1. t.body \in Seq(Seq(Nat)) /\ t.tags \in Seq(Nat) /\ whole \in Seq(Nat)
  BY FlattenTyped DEF Text
<1>2. /\ parts \in Seq(Seq(Nat)) /\ FlattenSeq(parts) = whole
      /\ \A i \in DOMAIN parts : Fits(limit, parts[i])
  <2>1. Held(limit, PackSentences(limit, t.body), whole)
    BY <1>1, PackSentencesHeld
  <2> HIDE DEF whole
  <2> QED
    BY <1>1, <2>1, FlushedHeld
<1>3. Words(t) = whole \o t.tags
  BY DEF Words, BodyWords
<1>4. SplitIntoThread(t, limit) =
        IF t.tags = <<>> THEN parts
        ELSE IF parts # <<>> /\ Width(Last(parts) \o t.tags) <= limit
             THEN Front(parts) \o <<Last(parts) \o t.tags>>
             ELSE tail
  <2>1. Width(Words(t)) \in Nat
    BY <1>1, <1>3, Grouping, WidthTyped
  <2>2. ~(Width(Words(t)) <= limit)
    BY <2>1
  <2> QED
    BY <2>2 DEF SplitIntoThread, PackSentences, NoParts
<1> HIDE DEF parts, whole
<1>5. CASE t.tags = <<>>
  <2>1. Words(t) = whole
    BY <1>1, <1>3, <1>5, EmptyConcat
  <2> QED
    BY <1>2, <1>4, <1>5, <2>1
<1>6. CASE t.tags # <<>> /\ parts # <<>> /\ Width(Last(parts) \o t.tags) <= limit
  <2> DEFINE last == Last(parts)
             front == Front(parts)
             end == last \o t.tags
  <2>1. front \in Seq(Seq(Nat)) /\ last \in Seq(Nat) /\ parts = Append(front, last)
    BY <1>2, <1>6 DEF Front, Last
  <2>2. \A i \in DOMAIN front : i \in DOMAIN parts /\ front[i] = parts[i]
    BY <1>2, <1>6 DEF Front
  <2>3. end \in Seq(Nat) /\ Width(end) \in Nat /\ Width(end) <= limit
    BY <1>1, <1>6, <2>1, Grouping, WidthTyped
  <2> HIDE DEF last, front
  <2>4. FlattenSeq(front) \in Seq(Nat)
    BY <2>1, FlattenTyped
  <2>5. FlattenSeq(Append(front, end)) = whole \o t.tags
    <3>1. FlattenSeq(Append(front, end)) = FlattenSeq(front) \o end
      BY <2>1, <2>3, FlattenAppend
    <3>2. (FlattenSeq(front) \o last) \o t.tags = FlattenSeq(front) \o end
      BY <1>1, <2>1, <2>4, Grouping
    <3>3. FlattenSeq(parts) = FlattenSeq(front) \o last
      BY <2>1, FlattenAppend
    <3> QED
      BY <1>2, <3>1, <3>2, <3>3
  <2> HIDE DEF end
  <2>6. front \o <<end>> = Append(front, end)
    BY <2>1, <2>3, AppendIsConcat
  <2>7. SplitIntoThread(t, limit) = Append(front, end)
    BY <1>4, <1>6, <2>6 DEF front, end, last
  <2>8. Fits(limit, end)
    BY <2>3 DEF Fits
  <2>9. ASSUME NEW i \in DOMAIN Append(front, end) PROVE Fits(limit, Append(front, end)[i])
    <3>1. Append(front, end)[i] = end \/ (i \in DOMAIN front /\ Append(front, end)[i] = front[i])
      BY <2>1, <2>3, InAppend
    <3>2. CASE Append(front, end)[i] = end
      BY <2>8, <3>2
    <3>3. CASE i \in DOMAIN front /\ Append(front, end)[i] = front[i]
      BY <1>2, <2>2, <3>3
    <3> QED
      BY <3>1, <3>2, <3>3
  <2> QED
    BY <1>3, <2>5, <2>7, <2>9
<1>7. CASE t.tags # <<>> /\ ~(parts # <<>> /\ Width(Last(parts) \o t.tags) <= limit)
  <2>1. SplitIntoThread(t, limit) = tail
    BY <1>4, <1>7
  <2>2. FlattenSeq(tail) = whole \o t.tags
    BY <1>1, <1>2, FlattenAppend
  <2>3. ASSUME NEW i \in DOMAIN tail PROVE Fits(limit, tail[i]) \/ tail[i] = t.tags
    <3>1. tail[i] = t.tags \/ (i \in DOMAIN parts /\ tail[i] = parts[i])
      BY <1>1, <1>2, InAppend
    <3>2. i \in DOMAIN parts => Fits(limit, parts[i])
      BY <1>2
    <3> HIDE DEF tail
    <3> QED
      BY <3>1, <3>2
  <2> HIDE DEF tail
  <2> QED
    BY <1>3, <2>1, <2>2, <2>3
<1> QED
  BY <1>5, <1>6, <1>7

-----------------------------------------------------------------------------
(* A verdict is that of the draft asked about, and what is frozen was       *)
(* allowed by it.                                                           *)
ContentSound ==
  /\ asked \in Drafts \cup {Unset}
  /\ verdict # Unset => asked \in Drafts /\ verdict = ValidatePost(asked)
  /\ frozen # Unset /\ frozen.error = "none" =>
       verdict # Unset /\ verdict.canSchedule /\ frozen.post = BuildPayload(asked)

LEMMA InitContent == ContentInit => ContentSound
BY DEF ContentInit, ContentSound

LEMMA NextContent == ContentSound /\ [ContentNext]_contentVars => ContentSound'
<1> SUFFICES ASSUME ContentSound, [ContentNext]_contentVars PROVE ContentSound'
  OBVIOUS
<1>1. CASE Ask
  <2>1. verdict = Unset
    BY <1>1, ContentAssumption DEF Ask, ContentSound
  <2>2. verdict' = Unset /\ frozen' = frozen /\ asked' \in Drafts
    BY <1>1, <2>1 DEF Ask
  <2>3. ~(frozen # Unset /\ frozen.error = "none")
    BY <2>1 DEF ContentSound
  <2> QED
    BY <2>2, <2>3 DEF ContentSound
<1>2. CASE Validate
  <2>1. /\ asked \in Drafts /\ asked' = asked /\ frozen' = frozen
        /\ verdict = Unset /\ verdict' = ValidatePost(asked)
    BY <1>2 DEF Validate, ContentSound
  <2>2. ~(frozen # Unset /\ frozen.error = "none")
    BY <2>1 DEF ContentSound
  <2>3. ValidatePost(asked)' = ValidatePost(asked)
    BY <2>1
  <2> QED
    BY <2>1, <2>2, <2>3 DEF ContentSound
<1>3. CASE MaterializeAndSchedule
  <2>1. asked' = asked /\ verdict' = verdict /\ verdict # Unset
    BY <1>3 DEF MaterializeAndSchedule
  <2>2. ValidatePost(asked)' = ValidatePost(asked) /\ BuildPayload(asked)' = BuildPayload(asked)
    BY <2>1
  <2>3. frozen'.error = "none" => verdict.canSchedule /\ frozen'.post = BuildPayload(asked)
    <3>1. CASE ~verdict.canSchedule
      BY <1>3, <3>1 DEF MaterializeAndSchedule
    <3>2. CASE verdict.canSchedule
      BY <1>3, <3>2 DEF MaterializeAndSchedule
    <3> QED
      BY <3>1, <3>2
  <2> QED
    BY <2>1, <2>2, <2>3 DEF ContentSound
<1>4. CASE UNCHANGED contentVars
  <2>1. asked' = asked /\ verdict' = verdict /\ frozen' = frozen
    BY <1>4 DEF contentVars
  <2>2. ValidatePost(asked)' = ValidatePost(asked) /\ BuildPayload(asked)' = BuildPayload(asked)
    BY <2>1
  <2> QED
    BY <2>1, <2>2 DEF ContentSound
<1> QED
  BY <1>1, <1>2, <1>3, <1>4 DEF ContentNext

(* Merging keeps the types.                                                 *)
LEMMA MergeTyped ==
  ASSUME NEW d \in Drafts
  PROVE  MergeContent(d.parent, d.over) \in Shared
<1>1. d.parent \in Shared /\ d.over \in Overrides
  BY ContentAssumption
<1>2. DOMAIN d.parent = {"text", "link", "comment", "media"}
  BY <1>1 DEF Shared
<1> DEFINE m == MergeContent(d.parent, d.over)
<1>3. m = [f \in {"text", "link", "comment", "media"} |->
             IF d.over[f] = Unset THEN d.parent[f] ELSE d.over[f]]
  BY <1>2 DEF MergeContent
<1> HIDE DEF m
<1>4. /\ m["text"] \in Text /\ m["link"] \in Nat /\ m["comment"] \in STRING
      /\ m["media"] \in Seq(DOMAIN Library)
  BY <1>1, <1>3 DEF Shared, Overrides
<1>5. m = [text |-> m["text"], link |-> m["link"], comment |-> m["comment"], media |-> m["media"]]
  BY <1>3
<1> QED
  BY <1>4, <1>5 DEF Shared, m

(* The findings, one by one.                                                *)
LEMMA FindingsAre ==
  ASSUME NEW d \in Drafts
  PROVE  LET post  == RenderTarget(MergeContent(d.parent, d.over))
             n     == Len(post.media)
             items == {post.media[i] : i \in 1 .. n}
             long  == Width(Words(post.text)) > d.caps.limit
         IN  /\ "text_will_split" \in Findings(d) => long
             /\ long /\ ~d.caps.thread => "text_too_long" \in Findings(d)
             /\ n < d.caps.min => "too_few_media" \in Findings(d)
             /\ n > d.caps.max /\ d.caps.max # 1 => "too_many_media" \in Findings(d)
             /\ \A m \in items : ItemFindings(d.caps, m) \subseteq Findings(d)
<1> DEFINE merged == MergeContent(d.parent, d.over)
           post == RenderTarget(merged)
           n == Len(post.media)
           items == {post.media[i] : i \in 1 .. n}
           long == Width(Words(post.text)) > d.caps.limit
           named == {merged.media[i] : i \in DOMAIN merged.media}
           past == When(d.schedule = "fixed past", "schedule_in_past")
           reauth == When(d.account # "active", "account_reauth_required")
           processing == When(\E a \in named : Library[a] # Unset /\ Library[a].status # "ready", "media_processing")
           split == When(long /\ d.caps.thread, "text_will_split")
           tooLong == When(long /\ ~d.caps.thread, "text_too_long")
           few == When(n < d.caps.min, "too_few_media")
           many == When(n > d.caps.max, IF d.caps.max = 1 THEN "media_truncated" ELSE "too_many_media")
           each == UNION {ItemFindings(d.caps, m) : m \in items}
           first == When(post.comment # "" /\ ~d.caps.comment, "first_comment_unsupported")
           dropped == When(\E a \in named : ~Ready(a), "media_dropped")
           surface == When(d.caps.surface # "public_feed", "surface_not_public")
<1>1. Findings(d) = past \cup reauth \cup processing \cup split \cup tooLong \cup few \cup many
                      \cup each \cup first \cup dropped \cup surface
  BY DEF Findings
<1>2. /\ past \subseteq {"schedule_in_past"} /\ reauth \subseteq {"account_reauth_required"}
      /\ processing \subseteq {"media_processing"} /\ tooLong \subseteq {"text_too_long"}
      /\ few \subseteq {"too_few_media"} /\ many \subseteq {"media_truncated", "too_many_media"}
      /\ first \subseteq {"first_comment_unsupported"} /\ dropped \subseteq {"media_dropped"}
      /\ surface \subseteq {"surface_not_public"}
  <2> HIDE DEF post, named, long, n
  <2> QED
    BY DEF When
<1>3. split # {} => long
  BY DEF When
<1>4. each \subseteq {"media_type_unsupported", "video_too_long", "video_wrong_aspect", "aspect_ratio"}
  <2>1. ASSUME NEW m \in items PROVE ItemFindings(d.caps, m) \subseteq {"media_type_unsupported", "video_too_long", "video_wrong_aspect", "aspect_ratio"}
    <3> HIDE DEF items
    <3> QED
      BY DEF ItemFindings, When
  <2> HIDE DEF items
  <2> QED
    BY <2>1
<1>5. \A m \in items : ItemFindings(d.caps, m) \subseteq each
  <2> HIDE DEF items
  <2> QED
    BY DEF each
<1>6. /\ long /\ ~d.caps.thread => "text_too_long" \in tooLong
      /\ n < d.caps.min => "too_few_media" \in few
      /\ n > d.caps.max /\ d.caps.max # 1 => "too_many_media" \in many
  <2> HIDE DEF n, long
  <2> QED
    BY DEF When
<1> HIDE DEF past, reauth, processing, split, tooLong, few, many, each, first, dropped, surface, items, n, long
<1>7. "text_will_split" \in Findings(d) => long
  BY <1>1, <1>2, <1>3, <1>4
<1>8. /\ long /\ ~d.caps.thread => "text_too_long" \in Findings(d)
      /\ n < d.caps.min => "too_few_media" \in Findings(d)
      /\ n > d.caps.max /\ d.caps.max # 1 => "too_many_media" \in Findings(d)
  BY <1>1, <1>6
<1>9. \A m \in items : ItemFindings(d.caps, m) \subseteq Findings(d)
  BY <1>1, <1>5
<1> QED
  BY <1>7, <1>8, <1>9 DEF items, n, long, post, merged

(* No word runs into a hashtag.                                             *)
NoneGlued == \A d \in Drafts : ~MergeContent(d.parent, d.over).text.glued

(* With texts whose hashtags begin words, the thread shown holds every word *)
(* in order, and only a word or the hashtags alone exceed the limit: for    *)
(* any texts, limits and overrides (splitIntoThread, src/posts/threads.ts). *)
THEOREM ThreadsKeepTheText == NoneGlued => (ContentSpec => []ThreadKeepsText)
<1> SUFFICES ASSUME NoneGlued PROVE ContentSpec => []ThreadKeepsText
  OBVIOUS
<1>1. ContentSound => ThreadKeepsText
  <2> SUFFICES ASSUME ContentSound, verdict # Unset, "text_will_split" \in verdict.findings
               PROVE  LET t == verdict.preview.text
                          parts == verdict.thread
                      IN  /\ FlattenSeq(parts) = Words(t)
                          /\ \A i \in DOMAIN parts : Width(parts[i]) > asked.caps.limit =>
                               Len(parts[i]) = 1 \/ parts[i] = t.tags
    BY DEF ThreadKeepsText
  <2> DEFINE merged == MergeContent(asked.parent, asked.over)
             t == merged.text
             limit == asked.caps.limit
  <2>1. asked \in Drafts /\ verdict = ValidatePost(asked)
    BY DEF ContentSound
  <2>2. merged \in Shared /\ t \in Text /\ ~t.glued
    BY <2>1, MergeTyped DEF NoneGlued, Shared
  <2>3. limit \in Nat
    BY <2>1, ContentAssumption DEF Capabilities
  <2>4. RenderTarget(merged).text = t
    BY <2>2 DEF RenderTarget, Shared
  <2>5. /\ "text_will_split" \in Findings(asked) /\ verdict.preview = RenderTarget(merged)
        /\ verdict.thread = SplitIntoThread(RenderTarget(merged).text, limit)
    BY <2>1 DEF ValidatePost
  <2> HIDE DEF merged
  <2>6. Width(Words(t)) > limit
    BY <2>1, <2>4, <2>5, FindingsAre DEF merged
  <2> HIDE DEF limit
  <2>7. /\ FlattenSeq(SplitIntoThread(t, limit)) = Words(t)
        /\ \A i \in DOMAIN SplitIntoThread(t, limit) :
             \/ Fits(limit, SplitIntoThread(t, limit)[i])
             \/ SplitIntoThread(t, limit)[i] = t.tags
    BY <2>2, <2>3, <2>6, ThreadSays
  <2> QED
    BY <2>4, <2>5, <2>7 DEF Fits, limit
<1> QED
  BY <1>1, InitContent, NextContent, PTL DEF ContentSpec

-----------------------------------------------------------------------------
(* The media.                                                               *)
Kept == {a \in DOMAIN Library : Ready(a)}

(* What is kept is in the library and ready.                                 *)
LEMMA ReadyTyped ==
  ASSUME NEW media \in Seq(DOMAIN Library)
  PROVE  ReadyOf(media) \in Seq(Kept)
<1> DEFINE n == Len(media)
           base == <<>>
           step == [x \in Seq(Kept) \X (1 .. n) |-> IF Ready(media[x[2]]) THEN Append(x[1], media[x[2]]) ELSE x[1]]
           body(g) == [i \in 0 .. n |-> IF i = 0 THEN base ELSE IF Ready(media[i]) THEN Append(g[i - 1], media[i]) ELSE g[i - 1]]
<1>0. ReadyOf(media) = (CHOOSE g : g = body(g))[n]
  BY DEF ReadyOf
<1>1. n \in Nat /\ base \in Seq(Kept) /\ step \in [Seq(Kept) \X (1 .. n) -> Seq(Kept)]
  <2>1. n \in Nat /\ base \in Seq(Kept) /\ \A i \in 1 .. n : media[i] \in DOMAIN Library
    OBVIOUS
  <2>2. ASSUME NEW s \in Seq(Kept), NEW a \in DOMAIN Library
        PROVE  (IF Ready(a) THEN Append(s, a) ELSE s) \in Seq(Kept)
    BY DEF Kept
  <2>3. \A x \in Seq(Kept) \X (1 .. n) :
          (IF Ready(media[x[2]]) THEN Append(x[1], media[x[2]]) ELSE x[1]) \in Seq(Kept)
    <3> HIDE DEF n
    <3> QED
      BY <2>1, <2>2
  <2> QED
    BY <2>1, <2>3
<1>2. Solvable(Seq(Kept), n, base, step)
  <2> HIDE DEF n, step, base
  <2> QED
    BY <1>1, RecursionExists
<1>3. PICK f \in [0 .. n -> Seq(Kept)] : f = Recursion(n, base, step, f)
  BY <1>2 DEF Solvable
<1>4. f[0] = base /\ \A i \in 1 .. n : f[i] = IF Ready(media[i]) THEN Append(f[i - 1], media[i]) ELSE f[i - 1]
  <2>1. 0 \in 0 .. n /\ \A i \in 1 .. n : i - 1 \in 0 .. n /\ i \in 0 .. n /\ i # 0
    BY <1>1, SMT
  <2>2. \A i \in 1 .. n : step[<<f[i - 1], i>>] = IF Ready(media[i]) THEN Append(f[i - 1], media[i]) ELSE f[i - 1]
    <3>1. \A i \in 1 .. n : f[i - 1] \in Seq(Kept)
      BY <2>1
    <3> QED
      BY <3>1
  <2> HIDE DEF n, step, base
  <2>3. \A i \in 0 .. n : f[i] = IF i = 0 THEN base ELSE step[<<f[i - 1], i>>]
    BY <1>3 DEF Recursion
  <2> QED
    BY <2>1, <2>2, <2>3
<1>5. f = body(f)
  <2>1. \A i \in 0 .. n : f[i] = IF i = 0 THEN base ELSE IF Ready(media[i]) THEN Append(f[i - 1], media[i]) ELSE f[i - 1]
    <3>1. \A i \in 0 .. n : i = 0 \/ i \in 1 .. n
      BY <1>1, SMT
    <3> HIDE DEF n, base
    <3> QED
      BY <1>4, <3>1
  <2> HIDE DEF n, base
  <2> QED
    BY <2>1
<1> DEFINE g == CHOOSE h : h = body(h)
<1>6. g = body(g)
  <2> HIDE DEF body
  <2> QED
    BY <1>5
<1> HIDE DEF g
<1>7. f[n] = g[n]
  <2>1. n \in 0 .. n /\ 0 \in 0 .. n /\ \A i \in 1 .. n : i \in 0 .. n /\ i # 0
    BY <1>1, SMT
  <2> HIDE DEF n, base
  <2>2. f[0] = g[0]
    BY <1>4, <1>6, <2>1
  <2>3. ASSUME NEW i \in 1 .. n, f[i - 1] = g[i - 1] PROVE f[i] = g[i]
    <3>1. g[i] = IF Ready(media[i]) THEN Append(g[i - 1], media[i]) ELSE g[i - 1]
      BY <1>6, <2>1
    <3> QED
      BY <1>4, <2>3, <3>1
  <2>4. Same(n, f, g)
    BY <1>1, <2>2, <2>3, Agree
  <2> QED
    BY <2>1, <2>4 DEF Same
<1>8. n \in 0 .. n
  BY <1>1, SMT
<1>9. f[n] \in Seq(Kept)
  BY <1>8
<1> QED
  BY <1>0, <1>7, <1>9 DEF g

Positive == Nat \ {0}

LEMMA KeptTyped ==
  ASSUME NEW a \in Kept
  PROVE  /\ Library[a] \in Asset /\ Library[a].status = "ready"
         /\ Library[a].width \in Nat /\ Library[a].height \in Nat
<1>1. Library[a] \in Asset /\ Library[a].status = "ready"
  BY ContentAssumption DEF Kept, Ready
<1> QED
  BY <1>1 DEF Asset

(* Fractions are ordered.                                                   *)
LEMMA TimesLess ==
  ASSUME NEW x \in Int, NEW y \in Int, NEW k \in Positive, x < y PROVE x * k < y * k
BY SMT DEF Positive

LEMMA LessOfTimes ==
  ASSUME NEW x \in Int, NEW y \in Int, NEW k \in Positive, x * k < y * k PROVE x < y
BY SMT DEF Positive

LEMMA FractionsOrdered ==
  ASSUME NEW a \in Nat, NEW b \in Positive, NEW c \in Nat, NEW d \in Positive,
         NEW e \in Nat, NEW f \in Positive, a * d < c * b, c * f < e * d
  PROVE  a * f < e * b
<1>1. a * d \in Int /\ c * b \in Int /\ c * f \in Int /\ e * d \in Int /\ a * f \in Int /\ e * b \in Int
  BY SMT DEF Positive
<1>2. (a * d) * f < (c * b) * f /\ (c * f) * b < (e * d) * b
  BY <1>1, TimesLess
<1>3. (a * d) * f = (a * f) * d /\ (c * b) * f = (c * f) * b /\ (e * d) * b = (e * b) * d
  BY SMT DEF Positive
<1>4. (a * f) * d \in Int /\ (c * f) * b \in Int /\ (e * b) * d \in Int
  BY <1>1, SMT DEF Positive
<1>5. (a * f) * d < (e * b) * d
  BY <1>2, <1>3, <1>4
<1> QED
  BY <1>1, <1>5, LessOfTimes

LEMMA GapTyped ==
  ASSUME NEW w \in Nat, NEW h \in Nat, NEW r \in Positive \X Positive
  PROVE  Gap(w, h, r) \in Nat
<1>1. w * r[2] - r[1] * h \in Int
  BY SMT DEF Positive
<1> QED
  BY <1>1, SMT DEF Gap

(* One of finitely many shapes is the closest.                              *)
LEMMA ClosestIn ==
  ASSUME NEW shapes \in SUBSET (Positive \X Positive), IsFiniteSet(shapes), shapes # {},
         NEW w \in Positive, NEW h \in Positive
  PROVE  Closest(shapes, w, h) \in shapes
<1> DEFINE Nearer(q, r) == Gap(w, h, q) * r[2] < Gap(w, h, r) * q[2]
           Before(r) == {q \in shapes : Nearer(q, r)}
           rank(r) == Cardinality(Before(r))
<1>1. \A r \in shapes : Gap(w, h, r) \in Nat /\ r[2] \in Positive
  BY GapTyped DEF Positive
<1>2. ASSUME NEW p \in shapes, NEW q \in shapes, NEW r \in shapes, Nearer(p, q), Nearer(q, r)
      PROVE  Nearer(p, r)
  <2> DEFINE a == Gap(w, h, p)
             b == p[2]
             c == Gap(w, h, q)
             d == q[2]
             e == Gap(w, h, r)
             f == r[2]
  <2>1. a \in Nat /\ b \in Positive /\ c \in Nat /\ d \in Positive /\ e \in Nat /\ f \in Positive
    BY <1>1
  <2>2. a * d < c * b /\ c * f < e * d
    BY <1>2
  <2> HIDE DEF a, b, c, d, e, f
  <2>3. a * f < e * b
    BY <2>1, <2>2, FractionsOrdered
  <2> QED
    BY <2>3 DEF a, b, e, f
<1>3. \A r \in shapes : ~Nearer(r, r)
  <2>1. \A r \in shapes : Gap(w, h, r) * r[2] \in Int
    BY <1>1, SMT DEF Positive
  <2> QED
    BY <2>1
<1>4. \A r \in shapes : IsFiniteSet(Before(r)) /\ rank(r) \in Nat
  <2>1. \A r \in shapes : Before(r) \in SUBSET shapes
    OBVIOUS
  <2> HIDE DEF Before
  <2> QED
    BY <2>1, FS_Subset, FS_CardinalityType
<1> DEFINE ranks == {rank(r) : r \in shapes}
<1>5. ranks \in SUBSET Nat /\ ranks # {}
  <2> HIDE DEF rank
  <2> QED
    BY <1>4
<1>6. PICK least \in ranks : \A y \in ranks : least <= y
  <2> HIDE DEF ranks
  <2> QED
    BY <1>5, LeastIn
<1>7. PICK r \in shapes : least = rank(r)
  <2> HIDE DEF rank
  <2> QED
    OBVIOUS
<1>8. ASSUME NEW q \in shapes, Nearer(q, r) PROVE FALSE
  <2>1. Before(q) \in SUBSET Before(r) /\ q \in Before(r) /\ q \notin Before(q)
    <3>1. \A p \in shapes : Nearer(p, q) => Nearer(p, r)
      BY <1>2, <1>8
    <3> HIDE DEF Nearer
    <3> QED
      BY <1>3, <1>8, <3>1
  <2>2. rank(q) \in Nat /\ rank(r) \in Nat /\ rank(r) <= rank(q)
    <3> HIDE DEF rank
    <3> QED
      BY <1>4, <1>6, <1>7
  <2> HIDE DEF Before
  <2>3. rank(q) <= rank(r) /\ (rank(r) = rank(q) => Before(r) = Before(q))
    BY <1>4, <2>1, FS_Subset
  <2> QED
    BY <2>1, <2>2, <2>3
<1>9. ASSUME NEW q \in shapes PROVE Gap(w, h, r) * q[2] <= Gap(w, h, q) * r[2]
  <2>1. ~(Gap(w, h, q) * r[2] < Gap(w, h, r) * q[2])
    BY <1>8
  <2>2. Gap(w, h, q) * r[2] \in Int /\ Gap(w, h, r) * q[2] \in Int
    BY <1>1, SMT DEF Positive
  <2> QED
    BY <2>1, <2>2
<1> QED
  BY <1>9 DEF Closest

(* A rounded quotient is off by half at most.                               *)
LEMMA RoundedNear ==
  ASSUME NEW a \in Nat, NEW b \in Positive
  PROVE  /\ Rounded(a, b) \in Nat
         /\ 2 * (Rounded(a, b) * b) <= 2 * a + b /\ 2 * a <= 2 * (Rounded(a, b) * b) + b
<1> DEFINE k == 2 * b
           x == 2 * a + b
           q == x \div k
<1>1. k \in Nat /\ k > 0 /\ x \in Nat
  BY DEF Positive
<1>2. q \in Nat /\ q * k <= x /\ x < q * k + k
  <2> HIDE DEF k, x
  <2> QED
    BY <1>1, SMT
<1>3. q = Rounded(a, b)
  BY DEF Rounded
<1>4. q * k = 2 * (q * b) /\ q * b \in Int
  <2> HIDE DEF q
  <2> QED
    BY <1>2, SMT DEF Positive
<1> HIDE DEF q
<1> QED
  BY <1>2, <1>3, <1>4, SMT DEF Positive

(* The sides of a crop: no longer than they were, and in the shape but for  *)
(* half a pixel.                                                            *)
LEMMA CutWidth ==
  ASSUME NEW w \in Positive, NEW h \in Positive, NEW r \in Positive \X Positive, NEW tol \in Nat,
         w * r[2] > r[1] * h, 50 <= tol * h
  PROVE  /\ Rounded(h * r[1], r[2]) \in Nat /\ Rounded(h * r[1], r[2]) <= w
         /\ 100 * Gap(Rounded(h * r[1], r[2]), h, r) <= tol * h * r[2]
<1> DEFINE x == h * r[1]
           b == r[2]
           q == Rounded(x, b)
           g == Gap(q, h, r)
           th == tol * h
<1>1. x \in Nat /\ b \in Positive /\ th \in Nat /\ x = r[1] * h
  BY SMT DEF Positive
<1>2. /\ q \in Nat /\ 2 * (q * b) <= 2 * x + b /\ 2 * x <= 2 * (q * b) + b
  <2> HIDE DEF x, b
  <2> QED
    BY <1>1, RoundedNear
<1>3. g = IF q * b - x < 0 THEN -(q * b - x) ELSE q * b - x
  BY <1>1 DEF Gap
<1>4. x < w * b
  BY <1>1
<1>5. q * b \in Nat /\ b \in Nat /\ b > 0 /\ w * b \in Nat
  <2> HIDE DEF q, b
  <2> QED
    BY <1>1, <1>2, SMT DEF Positive
<1> HIDE DEF q, g, x
<1>6. q <= w
  <2>1. q * b < (w + 1) * b
    <3>1. (w + 1) * b = w * b + b
      <4> HIDE DEF b
      <4> QED
        BY <1>5, SMT DEF Positive
    <3> HIDE DEF b
    <3> QED
      BY <1>1, <1>2, <1>4, <1>5, <3>1
  <2>2. q < w + 1
    <3> HIDE DEF b
    <3> QED
      BY <1>1, <1>2, <2>1, LessOfTimes DEF Positive
  <2> QED
    BY <1>2, <2>2 DEF Positive
<1>7. 2 * g <= b
  <2> HIDE DEF b
  <2> QED
    BY <1>1, <1>2, <1>3, <1>5, SMT
<1>8. 50 * b <= th * b
  <2> HIDE DEF th, b
  <2>1. 50 <= th
    BY DEF th
  <2> QED
    BY <1>1, <1>5, <2>1, SMT
<1>9. g \in Int
  <2> HIDE DEF b
  <2> QED
    BY <1>1, <1>3, <1>5
<1>10. 100 * g <= th * b
  <2>1. th * b \in Int
    <3> HIDE DEF th, b
    <3> QED
      BY <1>1, <1>5, SMT
  <2> HIDE DEF th, b
  <2> QED
    BY <1>5, <1>7, <1>8, <1>9, <2>1, SMT
<1> QED
  BY <1>2, <1>6, <1>10 DEF q, g, x

LEMMA CutHeight ==
  ASSUME NEW w \in Positive, NEW h \in Positive, NEW r \in Positive \X Positive, NEW tol \in Nat,
         ~(w * r[2] > r[1] * h), 50 * r[1] <= tol * Rounded(w * r[2], r[1]) * r[2]
  PROVE  /\ Rounded(w * r[2], r[1]) \in Nat /\ Rounded(w * r[2], r[1]) <= h
         /\ 100 * Gap(w, Rounded(w * r[2], r[1]), r) <= tol * Rounded(w * r[2], r[1]) * r[2]
<1> DEFINE x == w * r[2]
           b == r[1]
           q == Rounded(x, b)
           g == Gap(w, q, r)
           t == tol * q * r[2]
<1>1. x \in Nat /\ b \in Positive
  BY SMT DEF Positive
<1>2. /\ q \in Nat /\ 2 * (q * b) <= 2 * x + b /\ 2 * x <= 2 * (q * b) + b
  <2> HIDE DEF x, b
  <2> QED
    BY <1>1, RoundedNear
<1>3. g = IF x - b * q < 0 THEN -(x - b * q) ELSE x - b * q
  BY DEF Gap
<1>4. x <= b * h /\ b * h = h * b /\ b * q = q * b
  <2>1. b * h \in Int
    BY <1>1, SMT DEF Positive
  <2>2. b * h = h * b /\ b * q = q * b
    <3> HIDE DEF b, q
    <3> QED
      BY <1>1, <1>2, SMT DEF Positive
  <2> QED
    BY <1>1, <2>1, <2>2
<1>5. q * b \in Nat /\ b \in Nat /\ b > 0 /\ h * b \in Nat
  <2> HIDE DEF q, b
  <2> QED
    BY <1>1, <1>2, SMT DEF Positive
<1>6. 50 * b <= t /\ t \in Int
  <2>1. t \in Int
    <3> HIDE DEF q
    <3> QED
      BY <1>2, SMT DEF Positive
  <2> QED
    BY <2>1
<1> HIDE DEF q, g, x, t
<1>7. q <= h
  <2>1. q * b < (h + 1) * b
    <3>1. (h + 1) * b = h * b + b
      <4> HIDE DEF b
      <4> QED
        BY <1>5, SMT DEF Positive
    <3> HIDE DEF b
    <3> QED
      BY <1>1, <1>2, <1>4, <1>5, <3>1
  <2>2. q < h + 1
    <3> HIDE DEF b
    <3> QED
      BY <1>1, <1>2, <2>1, LessOfTimes DEF Positive
  <2> QED
    BY <1>2, <2>2 DEF Positive
<1>8. 2 * g <= b /\ g \in Int
  <2> HIDE DEF b
  <2> QED
    BY <1>1, <1>2, <1>3, <1>4, <1>5, SMT
<1>9. 100 * g <= t
  <2> HIDE DEF b
  <2> QED
    BY <1>5, <1>6, <1>8, SMT
<1> QED
  BY <1>2, <1>7, <1>9 DEF q, g, x, t

(* What is cropped is not so small that half a pixel is out of the          *)
(* tolerance.                                                               *)
PixelsAreFine ==
  \A d \in Drafts, a \in DOMAIN Library :
    Library[a] # Unset /\ ~AspectMatches(d.caps, Library[a].width, Library[a].height) =>
      \A r \in d.caps.shapes :
        /\ 50 <= d.caps.tolerance * Library[a].height
        /\ 50 * r[1] <= d.caps.tolerance * Rounded(Library[a].width * r[2], r[1]) * r[2]

LEMMA VariantFits ==
  ASSUME PixelsAreFine, NEW d \in Drafts, NEW a \in Kept,
         Library[a].kind = "video" => AspectMatches(d.caps, Library[a].width, Library[a].height)
  PROVE  LET x == Library[a]
             m == ComputeVariantSpec(d.caps, x)
         IN  /\ m.status = "ready" /\ AspectMatches(d.caps, m.width, m.height)
             /\ m.width <= x.width /\ m.height <= x.height
             /\ m.kind = x.kind /\ m.seconds = x.seconds /\ m.bytes = x.bytes
<1> DEFINE x == Library[a]
           caps == d.caps
           shapes == caps.shapes
           r == Closest(shapes, x.width, x.height)
           m == ComputeVariantSpec(caps, x)
<1>1. x \in Asset /\ x.status = "ready" /\ x.width \in Nat /\ x.height \in Nat
  BY KeptTyped
<1>2. caps \in Capabilities /\ IsFiniteSet(shapes)
  BY ContentAssumption
<1>3. shapes \in SUBSET (Positive \X Positive) /\ caps.tolerance \in Nat
  BY <1>2 DEF Capabilities, Positive
<1>4. x.width <= x.width /\ x.height <= x.height
  BY <1>1
<1>5. CASE AspectMatches(caps, x.width, x.height)
  <2>1. m = x
    BY <1>5 DEF ComputeVariantSpec
  <2> QED
    BY <1>1, <1>4, <1>5, <2>1
<1>6. CASE ~AspectMatches(caps, x.width, x.height)
  <2>1. shapes # {} /\ x.kind # "video" /\ x.width \in Positive /\ x.height \in Positive
    BY <1>1, <1>6 DEF AspectMatches, Positive
  <2>2. r \in shapes
    BY <1>1, <1>2, <1>3, <2>1, ClosestIn
  <2>3. r \in Positive \X Positive
    BY <1>3, <2>2
  <2>4. x # Unset
    BY DEF Kept, Ready
  <2>5. a \in DOMAIN Library
    BY DEF Kept
  <2>6. /\ 50 <= caps.tolerance * x.height
        /\ 50 * r[1] <= caps.tolerance * Rounded(x.width * r[2], r[1]) * r[2]
    <3> HIDE DEF r
    <3> QED
      BY <1>6, <2>2, <2>4, <2>5 DEF PixelsAreFine
  <2> DEFINE u == Rounded(x.height * r[1], r[2])
             v == Rounded(x.width * r[2], r[1])
  <2>7. m = IF x.width * r[2] > r[1] * x.height THEN [x EXCEPT !.width = u] ELSE [x EXCEPT !.height = v]
    BY <1>6, <2>1 DEF ComputeVariantSpec
  <2> HIDE DEF r, m
  <2>8. CASE x.width * r[2] > r[1] * x.height
    <3>1. u <= x.width /\ 100 * Gap(u, x.height, r) <= caps.tolerance * x.height * r[2]
      <4> HIDE DEF x, caps
      <4> QED
        BY <1>3, <2>1, <2>3, <2>6, <2>8, CutWidth
    <3>2. m = [x EXCEPT !.width = u]
      BY <2>7, <2>8
    <3> HIDE DEF u
    <3>3. /\ m.width = u /\ m.height = x.height /\ m.status = x.status /\ m.kind = x.kind
          /\ m.seconds = x.seconds /\ m.bytes = x.bytes
      <4> HIDE DEF x
      <4> QED
        BY <1>1, <3>2 DEF Asset
    <3>4. AspectMatches(caps, u, x.height)
      BY <2>2, <3>1 DEF AspectMatches, Within
    <3> QED
      BY <1>1, <1>4, <3>1, <3>3, <3>4 DEF m
  <2>9. CASE ~(x.width * r[2] > r[1] * x.height)
    <3>1. v <= x.height /\ 100 * Gap(x.width, v, r) <= caps.tolerance * v * r[2]
      <4> HIDE DEF x, caps
      <4> QED
        BY <1>3, <2>1, <2>3, <2>6, <2>9, CutHeight
    <3>2. m = [x EXCEPT !.height = v]
      BY <2>7, <2>9
    <3> HIDE DEF v
    <3>3. /\ m.height = v /\ m.width = x.width /\ m.status = x.status /\ m.kind = x.kind
          /\ m.seconds = x.seconds /\ m.bytes = x.bytes
      <4> HIDE DEF x
      <4> QED
        BY <1>1, <3>2 DEF Asset
    <3>4. AspectMatches(caps, x.width, v)
      BY <2>2, <3>1 DEF AspectMatches, Within
    <3> QED
      BY <1>1, <1>4, <3>1, <3>3, <3>4 DEF m
  <2> QED
    BY <2>8, <2>9
<1> QED
  BY <1>5, <1>6

LEMMA WordsTyped ==
  ASSUME NEW t \in Text PROVE Words(t) \in Seq(Nat)
<1> DEFINE b == BodyWords(t)
<1>1. b \in Seq(Nat) /\ t.tags \in Seq(Nat)
  BY FlattenTyped DEF Text, BodyWords
<1> HIDE DEF b
<1>2. b \o t.tags \in Seq(Nat)
  BY <1>1
<1>3. CASE t.glued /\ b # <<>> /\ t.tags # <<>>
  <2>1. Front(b) \in Seq(Nat) /\ Last(b) \in Nat /\ Head(t.tags) \in Nat /\ Tail(t.tags) \in Seq(Nat)
    BY <1>1, <1>3 DEF Front, Last
  <2>2. <<Last(b) + Head(t.tags)>> \in Seq(Nat)
    BY <2>1
  <2> QED
    BY <1>3, <2>1, <2>2 DEF Words, b
<1> QED
  BY <1>2, <1>3 DEF Words, b

(* What a draft that nothing blocks is frozen to.                           *)
LEMMA FrozenFits ==
  ASSUME PixelsAreFine, NEW d \in Drafts, Findings(d) \cap Blockers = {}
  PROVE  LET post == BuildPayload(d)
             preview == RenderTarget(MergeContent(d.parent, d.over))
         IN  /\ \A f \in {"text", "link", "comment"} :
                  /\ post[f] = preview[f]
                  /\ d.over[f] # Unset => post[f] = d.over[f]
             /\ Len(post.media) = Len(preview.media)
             /\ \A i \in DOMAIN post.media :
                  LET m == post.media[i] IN
                  /\ m.status = "ready" /\ AspectMatches(d.caps, m.width, m.height)
                  /\ m.width <= preview.media[i].width
                  /\ m.height <= preview.media[i].height
             /\ AdapterErrors(d.caps, post) \subseteq
                  {"image_too_large", "video_too_large"} \cup
                  When(d.caps.thread \/ post.link > 0, "text_too_long") \cup
                  When(d.caps.max = 1, "too_many_media")
<1> DEFINE merged == MergeContent(d.parent, d.over)
           ready == ReadyOf(merged.media)
           n == Len(ready)
           caps == d.caps
           post == BuildPayload(d)
           preview == RenderTarget(merged)
           cut(i) == ComputeVariantSpec(caps, Library[ready[i]])
<1>1. /\ merged \in Shared /\ caps \in Capabilities /\ d.over \in Overrides /\ d.parent \in Shared
  BY MergeTyped, ContentAssumption
<1>2. ready \in Seq(Kept) /\ n \in Nat /\ DOMAIN ready = 1 .. n /\ \A i \in 1 .. n : ready[i] \in Kept
  <2>1. ready \in Seq(Kept)
    BY <1>1, ReadyTyped DEF Shared
  <2> HIDE DEF ready
  <2> QED
    BY <2>1
<1>3. /\ post.text = merged.text /\ post.link = merged.link /\ post.comment = merged.comment
      /\ post.media = [i \in DOMAIN ready |-> cut(i)]
  BY DEF BuildPayload
<1>4. /\ preview.text = merged.text /\ preview.link = merged.link /\ preview.comment = merged.comment
      /\ preview.media = [i \in DOMAIN ready |-> Library[ready[i]]]
  <2> DEFINE shown == [i \in DOMAIN ready |-> Library[ready[i]]]
  <2>1. preview = [merged EXCEPT !.media = shown]
    BY DEF RenderTarget
  <2> HIDE DEF shown, merged, preview
  <2>2. /\ preview.text = merged.text /\ preview.link = merged.link
        /\ preview.comment = merged.comment /\ preview.media = shown
    BY <1>1, <2>1 DEF Shared
  <2> QED
    BY <2>2 DEF shown
<1>5. \A f \in {"text", "link", "comment"} : d.over[f] # Unset => merged[f] = d.over[f]
  <2>1. DOMAIN d.parent = {"text", "link", "comment", "media"}
    BY <1>1 DEF Shared
  <2> QED
    BY <2>1 DEF MergeContent
<1> HIDE DEF merged, post, preview
<1>6. Len(post.media) = n /\ Len(preview.media) = n /\ DOMAIN post.media = 1 .. n
  <2> HIDE DEF ready, n, cut
  <2> QED
    BY <1>2, <1>3, <1>4
<1>7. \A i \in 1 .. n : post.media[i] = cut(i) /\ preview.media[i] = Library[ready[i]]
  <2> HIDE DEF ready, n, cut
  <2> QED
    BY <1>2, <1>3, <1>4
<1> DEFINE long == Width(Words(post.text)) > caps.limit
<1>8. /\ long => caps.thread /\ ~(n < caps.min) /\ (n > caps.max => caps.max = 1)
      /\ ~(n < caps.min) /\ (n > caps.max => caps.max = 1)
      /\ \A i \in 1 .. n : ItemFindings(caps, preview.media[i]) \cap Blockers = {}
  <2>1. /\ Width(Words(preview.text)) > caps.limit /\ ~caps.thread => "text_too_long" \in Findings(d)
        /\ Len(preview.media) < caps.min => "too_few_media" \in Findings(d)
        /\ Len(preview.media) > caps.max /\ caps.max # 1 => "too_many_media" \in Findings(d)
        /\ \A m \in {preview.media[i] : i \in 1 .. Len(preview.media)} :
             ItemFindings(caps, m) \subseteq Findings(d)
    BY FindingsAre DEF preview, merged
  <2>2. {"text_too_long", "too_few_media", "too_many_media"} \subseteq Blockers
    BY DEF Blockers
  <2>3. \A i \in 1 .. n : ItemFindings(caps, preview.media[i]) \subseteq Findings(d)
    <3> HIDE DEF n
    <3> QED
      BY <1>6, <2>1
  <2>4. post.text = preview.text
    BY <1>3, <1>4
  <2> HIDE DEF n, caps
  <2>5. long => caps.thread
    BY <2>1, <2>2, <2>4
  <2>6. ~(n < caps.min) /\ (n > caps.max => caps.max = 1)
    BY <1>6, <2>1, <2>2
  <2> QED
    BY <2>3, <2>5, <2>6
<1>9. ASSUME NEW i \in 1 .. n
      PROVE  LET x == preview.media[i]
                 m == post.media[i]
             IN  /\ m.status = "ready" /\ AspectMatches(caps, m.width, m.height)
                 /\ m.width <= x.width /\ m.height <= x.height
                 /\ ItemErrors(caps, m) \subseteq {"image_too_large", "video_too_large"}
  <2> DEFINE x == preview.media[i]
             m == post.media[i]
  <2>1. ready[i] \in Kept /\ x = Library[ready[i]] /\ m = cut(i)
    BY <1>2, <1>7
  <2>2. ItemFindings(caps, x) \cap Blockers = {}
    BY <1>8
  <2> HIDE DEF x, m
  <2>3. /\ x.kind = "video" => AspectMatches(caps, x.width, x.height)
        /\ x.kind \in caps.kinds /\ ~(x.kind = "video" /\ x.seconds > caps.maxSeconds)
    <3>1. ASSUME x.kind = "video", ~AspectMatches(caps, x.width, x.height) PROVE FALSE
      <4>1. "video_wrong_aspect" \in ItemFindings(caps, x)
        BY <3>1 DEF ItemFindings, When
      <4> QED
        BY <2>2, <4>1 DEF Blockers
    <3>2. ASSUME x.kind \notin caps.kinds PROVE FALSE
      <4>1. "media_type_unsupported" \in ItemFindings(caps, x)
        BY <3>2 DEF ItemFindings, When
      <4> QED
        BY <2>2, <4>1 DEF Blockers
    <3>3. ASSUME x.kind = "video", x.seconds > caps.maxSeconds PROVE FALSE
      <4>1. "video_too_long" \in ItemFindings(caps, x)
        BY <3>3 DEF ItemFindings, When
      <4> QED
        BY <2>2, <4>1 DEF Blockers
    <3> QED
      BY <3>1, <3>2, <3>3
  <2>4. /\ m.status = "ready" /\ AspectMatches(caps, m.width, m.height)
        /\ m.width <= x.width /\ m.height <= x.height
        /\ m.kind = x.kind /\ m.seconds = x.seconds /\ m.bytes = x.bytes
    <3> HIDE DEF ready
    <3> QED
      BY <2>1, <2>3, VariantFits
  <2>5. ItemErrors(caps, m) \subseteq {"image_too_large", "video_too_large"}
    <3>1. m.kind \in caps.kinds /\ ~(m.kind = "video" /\ m.seconds > caps.maxSeconds)
      BY <2>3, <2>4
    <3> HIDE DEF caps
    <3> QED
      BY <3>1 DEF ItemErrors, When
  <2> QED
    BY <2>4, <2>5 DEF x, m
<1>10. AdapterErrors(caps, post) \subseteq
         {"image_too_large", "video_too_large"} \cup
         When(caps.thread \/ post.link > 0, "text_too_long") \cup
         When(caps.max = 1, "too_many_media")
  <2> DEFINE links == Width(Words(post.text)) + (IF caps.linksCount THEN post.link ELSE 0) > caps.limit
             e1 == When(links, "text_too_long")
             e2 == When(Len(post.media) < caps.min, "too_few_media")
             e3 == When(Len(post.media) > caps.max, "too_many_media")
             e4 == UNION {ItemErrors(caps, m) : m \in {post.media[i] : i \in 1 .. Len(post.media)}}
  <2>1. AdapterErrors(caps, post) = e1 \cup e2 \cup e3 \cup e4
    BY DEF AdapterErrors
  <2>2. e1 \subseteq When(caps.thread \/ post.link > 0, "text_too_long")
    <3>1. links => caps.thread \/ post.link > 0
      <4>1. post.link \in Nat /\ caps.limit \in Nat
        BY <1>1, <1>3 DEF Shared, Capabilities
      <4>2. post.link > 0 \/ post.link = 0
        BY <4>1
      <4>3. Width(Words(post.text)) \in Int => (links /\ post.link = 0 => long)
        BY <4>1, SMT
      <4>4. Width(Words(post.text)) \in Int
        BY <1>1, <1>3, WordsTyped, WidthTyped DEF Shared
      <4> QED
        BY <1>8, <4>2, <4>3, <4>4
    <3> HIDE DEF links
    <3> QED
      BY <3>1 DEF When
  <2>3. e2 = {}
    BY <1>6, <1>8 DEF When
  <2>4. e3 \subseteq When(caps.max = 1, "too_many_media")
    BY <1>6, <1>8 DEF When
  <2>5. e4 \subseteq {"image_too_large", "video_too_large"}
    <3> HIDE DEF n
    <3> QED
      BY <1>6, <1>9
  <2> HIDE DEF e1, e2, e3, e4
  <2> QED
    BY <2>1, <2>2, <2>3, <2>4, <2>5
<1>11. \A f \in {"text", "link", "comment"} :
         post[f] = preview[f] /\ (d.over[f] # Unset => post[f] = d.over[f])
  BY <1>3, <1>4, <1>5
<1>12. \A i \in DOMAIN post.media :
         LET m == post.media[i] IN
         /\ m.status = "ready" /\ AspectMatches(caps, m.width, m.height)
         /\ m.width <= preview.media[i].width /\ m.height <= preview.media[i].height
  <2> HIDE DEF n
  <2> QED
    BY <1>6, <1>9
<1> HIDE DEF n
<1> QED
  BY <1>6, <1>10, <1>11, <1>12 DEF post, preview, merged

(* What is frozen is what the preview showed, in a shape the network takes, *)
(* and only sizes, links, threads and surplus items get past the adapter's  *)
(* own rules: for any content, overrides, library and shapes, where nothing *)
(* that is cropped is so small that half a pixel is out of the tolerance    *)
(* (validatePost, computeVariantSpec, materializeAndSchedule).              *)
THEOREM FrozenAsPreviewed == PixelsAreFine => (ContentSpec => []FrozenIsPreviewed)
<1> SUFFICES ASSUME PixelsAreFine PROVE ContentSpec => []FrozenIsPreviewed
  OBVIOUS
<1>1. ContentSound => FrozenIsPreviewed
  <2> SUFFICES ASSUME ContentSound, frozen # Unset, frozen.error = "none" PROVE FrozenIsPreviewed
    BY DEF FrozenIsPreviewed
  <2>1. /\ asked \in Drafts /\ verdict = ValidatePost(asked) /\ verdict.canSchedule
        /\ frozen.post = BuildPayload(asked)
    BY DEF ContentSound
  <2>2. /\ Findings(asked) \cap Blockers = {}
        /\ verdict.preview = RenderTarget(MergeContent(asked.parent, asked.over))
    BY <2>1 DEF ValidatePost
  <2> QED
    BY <2>1, <2>2, FrozenFits DEF FrozenIsPreviewed
<1> QED
  BY <1>1, InitContent, NextContent, PTL DEF ContentSpec
=============================================================================
