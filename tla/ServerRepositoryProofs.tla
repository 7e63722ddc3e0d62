----------------------- MODULE ServerRepositoryProofs -----------------------
(***************************************************************************)
(* Type correctness of the server repository model: the API's state, the  *)
(* cache, the dirty flags, the CallScheduler's queue and flush, and a     *)
(* FindByID in progress stay well typed for every set of servers, every  *)
(* bulk threshold and batch size and every bound.                         *)
(***************************************************************************)
EXTENDS ServerRepository, TLAPS, SequenceTheorems, WellFoundedInduction

\* The fields of the scheduler's flush record.
FlFields == {"pc", "batch", "i", "payload"}

(* A batch taken from the head of the queue and the rest of the queue    *)
(* make up the queue again.                                               *)
LEMMA TakeSplitsQueue ==
    ASSUME NEW S, NEW q \in Seq(S), NEW n \in 1..Len(q)
    PROVE  /\ SubSeq(q, 1, n) \in Seq(S)
           /\ SubSeq(q, n + 1, Len(q)) \in Seq(S)
           /\ SubSeq(q, 1, n) \o SubSeq(q, n + 1, Len(q)) = q
<1>1. SubSeq(q, 1, n) \in Seq(S) /\ SubSeq(q, n + 1, Len(q)) \in Seq(S)
    BY SubSeqProperties
<1>2. SubSeq(q, 1, n) \o SubSeq(q, n + 1, Len(q)) = SubSeq(q, 1, Len(q))
    BY ConcatAdjacentSubSeq
<1>. QED  BY <1>1, <1>2, SubSeqFull

(* BatchLen takes at least one server and no more than are queued.        *)
LEMMA BatchLenBounds ==
    ASSUME NEW q \in Seq(Servers), q # <<>>
    PROVE  BatchLen(q) \in 1..Len(q)
<1>1. Len(q) \in Nat /\ Len(q) >= 1
    BY LenProperties, EmptySeq
<1>. QED  BY <1>1, ServerRepositoryAssumption DEF BatchLen


(* A non-empty set of naturals bounded by n has a largest element, and    *)
(* Max picks it.  ApplyPayloads takes the last payload entry of a server  *)
(* with Max over the entries' positions.                                  *)
LEMMA MaxOfBounded ==
    ASSUME NEW S \in SUBSET Nat, NEW n \in Nat, S # {}, \A i \in S : i <= n
    PROVE  Max(S) \in S /\ \A i \in S : i <= Max(S)
<1>. DEFINE T == {n - i : i \in S}
<1>1. T \subseteq Nat /\ T # {}
    <2>1. \A i \in S : n - i \in Nat
        OBVIOUS
    <2>2. PICK j \in S : TRUE
        OBVIOUS
    <2>. QED
        BY <2>1, <2>2
<1>2. \E x \in T : \A y \in T : ~(<<y, x>> \in OpToRel(<, Nat))
    BY <1>1, NatLessThanWellFounded, WFMin
<1>3. PICK x \in T : \A y \in T : ~(<<y, x>> \in OpToRel(<, Nat))
    BY <1>2
<1>4. \A y \in T : ~(y < x)
    BY <1>1, <1>3 DEF OpToRel
<1>5. PICK m \in S : x = n - m
    OBVIOUS
<1>6. \A i \in S : i <= m
    <2>. TAKE i \in S
    <2>1. n - i \in T
        OBVIOUS
    <2>2. ~(n - i < n - m)
        BY <2>1, <1>4, <1>5
    <2>. QED
        BY <2>2
<1>. QED
    BY <1>6 DEF Max

\* The phases of the scheduler's flush and of a FindByID.
FlPhases == {"idle", "snap", "unmark", "send"}
FetchPhases == {"idle", "answered", "decided"}

(* The inductive invariant behind TypeOK: the flush and the fetch in      *)
(* progress are records of their shape, the flush's cursor points into    *)
(* its batch while it snapshots and unmarks, and a decided answer is for  *)
(* a cached server (FetchSet adds it to the fresh servers).               *)
IInvType ==
    /\ TypeOK
    /\ DOMAIN fl = FlFields /\ fl.pc \in FlPhases
    /\ fl.batch \in Seq(Servers) /\ fl.i \in Nat \ {0}
    /\ fl.payload \in Seq(Payload)
    /\ fl.pc \in {"snap", "unmark"} => fl.i \in 1..Len(fl.batch)
    /\ fetch \in [pc : FetchPhases, srv : Servers, val : State]
    /\ fetch.pc = "decided" => fetch.srv \in cached

-----------------------------------------------------------------------------
(* The operators the actions are built from.                               *)

\* saveStructFromServer of a server yields a well-typed payload entry.
LEMMA SaveStructTyped ==
    ASSUME TypeOK, NEW s \in Servers
    PROVE  SaveStruct(s) \in Payload
BY DEF SaveStruct, Payload, TypeOK, State, Versions, NoValue

\* The API applying a well-typed PUT or PATCH keeps its state well typed:
\* the last entry of a server sets process_active, and the last entry
\* carrying an installationStatus sets it.
LEMMA ApplyPayloadsTyped ==
    ASSUME NEW r \in [Servers -> State], NEW ps \in Seq(Payload)
    PROVE  ApplyPayloads(r, ps) \in [Servers -> State]
<1>. SUFFICES ASSUME NEW s \in Servers
              PROVE  ApplyPayloads(r, ps)[s] \in State
    BY DEF ApplyPayloads
<1>. DEFINE idx == {i \in DOMAIN ps : ps[i].srv = s}
            withInst == {i \in idx : ps[i].inst # NoValue}
<1>1. /\ DOMAIN ps = 1..Len(ps) /\ Len(ps) \in Nat
      /\ \A i \in 1..Len(ps) : ps[i] \in Payload
    BY LenProperties, ElementOfSeq
<1>4. /\ idx \subseteq Nat /\ \A i \in idx : i <= Len(ps)
      /\ withInst \subseteq Nat /\ \A i \in withInst : i <= Len(ps)
    BY <1>1
<1>2. CASE idx = {}
    BY <1>2 DEF ApplyPayloads
<1>3. CASE idx # {}
    <2>1. Max(idx) \in idx
        BY <1>1, <1>3, <1>4, MaxOfBounded
    <2>2. ps[Max(idx)].active \in BOOLEAN
        BY <1>1, <2>1 DEF Payload
    <2>3. (IF withInst = {} THEN r[s].inst ELSE ps[Max(withInst)].inst)
            \in Versions
        <3>1. CASE withInst = {}
            BY <3>1 DEF State
        <3>2. CASE withInst # {}
            <4>1. Max(withInst) \in withInst
                BY <1>1, <1>4, <3>2, MaxOfBounded
            <4>. QED
                BY <1>1, <3>2, <4>1 DEF Payload
        <3>. QED
            BY <3>1, <3>2
    <2>. QED
        BY <1>3, <2>2, <2>3 DEF ApplyPayloads, State
<1>. QED
    BY <1>2, <1>3

\* A write of installationStatus or of the status keeps a server's state
\* well typed.
LEMMA StateUpdate ==
    ASSUME NEW r \in State, NEW v \in Versions
    PROVE  /\ [r EXCEPT !.inst = v] \in State
           /\ [r EXCEPT !.active = ~r.active] \in State
BY Zenon DEF State

-----------------------------------------------------------------------------
(* The invariant holds initially and is kept by every step.                *)

LEMMA InitType ==
    ASSUME Servers # {}
    PROVE  Init => IInvType
<1>. SUFFICES ASSUME Init PROVE IInvType
    OBVIOUS
<1>1. 0 \in Versions /\ (CHOOSE s \in Servers : TRUE) \in Servers
    BY ServerRepositoryAssumption DEF Versions
<1>2. <<>> \in Seq(Servers) /\ <<>> \in Seq(Payload)
    BY EmptySeq
<1>. QED
    BY <1>1, <1>2, ServerRepositoryAssumption
    DEF FlFields, Init, IInvType, TypeOK, State, IdleFlush, IdleFetch, FlPhases,
        FetchPhases, Versions

\* The fetch steps: FindByID's GET, its failure, and the merge of its
\* answer into the cache.
LEMMA FetchStepsType ==
    ASSUME IInvType,
           \/ \E s \in Servers : FetchStart(s) \/ FetchFails(s) \/ Expire(s)
           \/ FetchNew \/ FetchDecide \/ FetchSet
    PROVE  IInvType'
<1>. USE ServerRepositoryAssumption DEF IInvType, TypeOK, FlPhases, FetchPhases
<1>1. CASE \E s \in Servers : FetchStart(s) \/ FetchFails(s) \/ Expire(s)
    <2>. PICK s \in Servers : FetchStart(s) \/ FetchFails(s) \/ Expire(s)
        BY <1>1
    <2>1. CASE FetchStart(s)
        <3>1. fetch' \in [pc : FetchPhases, srv : Servers, val : State]
              /\ fetch'.pc # "decided"
            BY <2>1 DEF FetchStart
        <3>. QED
            BY <2>1, <3>1 DEF FetchStart
    <2>2. CASE FetchFails(s)
        BY <2>2 DEF FetchFails
    <2>3. CASE Expire(s)
        BY <2>3 DEF Expire
    <2>. QED
        BY <2>1, <2>2, <2>3
<1>0. IdleFetch \in [pc : FetchPhases, srv : Servers, val : State]
    <2>1. (CHOOSE x \in Servers : TRUE) \in Servers
        OBVIOUS
    <2>. QED
        BY <2>1, ServerRepositoryAssumption DEF IdleFetch, State, Versions
<1>2. CASE FetchNew
    BY <1>0, <1>2 DEF FetchNew, IdleFetch
<1>3. CASE FetchDecide
    BY <1>3 DEF FetchDecide, State
<1>4. CASE FetchSet
    BY <1>0, <1>4 DEF FetchSet, IdleFetch
<1>. QED
    BY <1>1, <1>2, <1>3, <1>4

\* A command's write and its Save.
LEMMA WriteSaveType ==
    ASSUME IInvType,
           \/ \E s \in Servers, f \in Fields : Write(s, f)
           \/ \E s \in Servers : Save(s)
    PROVE  IInvType'
<1>. USE ServerRepositoryAssumption DEF IInvType, TypeOK, FlPhases, FetchPhases
<1>1. CASE \E s \in Servers, f \in Fields : Write(s, f)
    <2>. PICK s \in Servers, f \in Fields : Write(s, f)
        BY <1>1
    <2>1. writes + 1 \in Versions
        BY ServerRepositoryAssumption DEF Write, Versions
    <2>2. local' \in [Servers -> State]
        <3>1. /\ [local[s] EXCEPT !.inst = writes + 1] \in State
              /\ [local[s] EXCEPT !.active = ~local[s].active] \in State
            BY <2>1, StateUpdate
        <3>. DEFINE upd == IF f = "installationStatus"
                           THEN [local[s] EXCEPT !.inst = writes + 1]
                           ELSE [local[s] EXCEPT !.active = ~local[s].active]
        <3>2. upd \in State
            BY <3>1, Zenon
        <3>3. local' = [local EXCEPT ![s] = upd]
            <4>1. CASE f = "installationStatus"
                BY <4>1, Zenon DEF Write
            <4>2. CASE f # "installationStatus"
                BY <4>2, Zenon DEF Write
            <4>. QED
                BY <4>1, <4>2
        <3>. HIDE DEF upd
        <3>. QED
            BY <3>2, <3>3
    <2>3. /\ writes' = writes + 1
          /\ lastWrite' \in [Servers -> Versions]
          /\ modified' \in [Servers -> SUBSET Fields]
          /\ unsaved' \subseteq cached
          /\ UNCHANGED <<remote, cached, fresh, sq, fl, fetch, apiFailures>>
        BY <2>1 DEF Write, Fields
    <2>. QED
        BY <2>1, <2>2, <2>3 DEF Versions
<1>2. CASE \E s \in Servers : Save(s)
    BY <1>2, AppendProperties DEF Save
<1>. QED
    BY <1>1, <1>2

\* The CallScheduler's tick, snapshot, unmark and request.
LEMMA FlushStepsType ==
    ASSUME IInvType,
           FlushTake \/ FlushSnap \/ FlushUnmark \/ FlushSend
    PROVE  IInvType'
<1>. USE ServerRepositoryAssumption DEF IInvType, TypeOK, FlPhases, FetchPhases
<1>1. CASE FlushTake
    <2>. DEFINE n == BatchLen(sq)
    <2>1. n \in 1..Len(sq)
        BY <1>1, BatchLenBounds DEF FlushTake
    <2>2. /\ SubSeq(sq, 1, n) \in Seq(Servers)
          /\ SubSeq(sq, n + 1, Len(sq)) \in Seq(Servers)
          /\ Len(SubSeq(sq, 1, n)) = n
        BY <2>1, TakeSplitsQueue, SubSeqProperties
    <2>3. /\ DOMAIN fl' = FlFields /\ fl'.pc = "snap"
          /\ fl'.batch = SubSeq(sq, 1, n) /\ fl'.i = 1 /\ fl'.payload = <<>>
          /\ sq' = SubSeq(sq, n + 1, Len(sq))
        BY <1>1 DEF FlushTake, IdleFlush, FlFields
    <2>4. /\ fl'.pc \in FlPhases /\ fl'.batch \in Seq(Servers)
          /\ fl'.i \in Nat \ {0} /\ fl'.payload \in Seq(Payload)
          /\ fl'.i \in 1..Len(fl'.batch)
        BY <2>1, <2>2, <2>3, EmptySeq
    <2>5. UNCHANGED <<remote, cached, local, modified, fresh, unsaved, fetch,
                     writes, apiFailures, lastWrite>>
        BY <1>1 DEF FlushTake
    <2>. QED
        BY <2>1, <2>2, <2>3, <2>4, <2>5
<1>2. CASE FlushSnap
    <2>1. fl.batch[fl.i] \in Servers
        BY <1>2, ElementOfSeq DEF FlushSnap
    <2>2. Append(fl.payload, SaveStruct(fl.batch[fl.i])) \in Seq(Payload)
        BY <2>1, SaveStructTyped, AppendProperties
    <2>. QED
        BY <1>2, <2>2 DEF FlushSnap
<1>3. CASE FlushUnmark
    <2>0. fl.pc = "unmark"
        BY <1>3 DEF FlushUnmark
    <2>1. /\ DOMAIN fl' = FlFields /\ fl'.batch = fl.batch
          /\ fl'.payload = fl.payload
        BY <1>3, Zenon DEF FlushUnmark, FlFields
    <2>2. \/ fl'.pc = "snap" /\ fl'.i = fl.i + 1 /\ fl.i < Len(fl.batch)
          \/ fl'.pc = "send" /\ fl'.i = fl.i
        <3>1. CASE fl.i < Len(fl.batch)
            <4>1. fl'.pc = "snap" /\ fl'.i = fl.i + 1
                BY <1>3, <3>1, Zenon DEF FlushUnmark, FlFields
            <4>. QED
                BY <3>1, <4>1
        <3>2. CASE ~(fl.i < Len(fl.batch))
            <4>1. fl'.pc = "send" /\ fl'.i = fl.i
                BY <1>3, <3>2, Zenon DEF FlushUnmark, FlFields
            <4>. QED
                BY <4>1
        <3>. QED
            BY <3>1, <3>2
    <2>3. /\ fl'.pc \in FlPhases /\ fl'.i \in Nat \ {0}
          /\ fl'.pc \in {"snap", "unmark"} => fl'.i \in 1..Len(fl'.batch)
        BY <2>0, <2>1, <2>2, LenProperties
    <2>4. /\ modified' \in [Servers -> SUBSET Fields]
          /\ UNCHANGED <<remote, cached, local, fresh, unsaved, sq, fetch,
                         writes, apiFailures, lastWrite>>
        BY <1>3 DEF FlushUnmark
    <2>. QED
        BY <2>1, <2>3, <2>4
<1>4. CASE FlushSend
    <2>1. ApplyPayloads(remote, fl.payload) \in [Servers -> State]
        BY ApplyPayloadsTyped
    <2>. QED
        BY <1>4, <2>1, EmptySeq DEF FlushSend, IdleFlush, FlFields
<1>. QED
    BY <1>1, <1>2, <1>3, <1>4

LEMMA StepType == IInvType /\ [Next]_vars => IInvType'
<1>. SUFFICES ASSUME IInvType, [Next]_vars PROVE IInvType'
    OBVIOUS
<1>1. CASE Next
    BY <1>1, FetchStepsType, WriteSaveType, FlushStepsType DEF Next
<1>2. CASE UNCHANGED vars
    BY <1>2 DEF vars, IInvType, TypeOK
<1>. QED
    BY <1>1, <1>2

(* Type correctness of the server repository (repositories.go,            *)
(* call_scheduler.go) for every non-empty set of servers, every bulk       *)
(* threshold and batch size and every bound: the API's and the cached     *)
(* state of every server, the dirty flags, the queue and the flush in     *)
(* progress, and a FindByID in progress stay well typed, and the cache    *)
(* holds every server a command wrote or TTL tracks.                      *)
THEOREM TypeCorrect ==
    ASSUME Servers # {}
    PROVE  Spec => []TypeOK
<1>1. Init => IInvType
    BY InitType
<1>. QED
    BY <1>1, StepType, PTL DEF Spec, IInvType

=============================================================================
