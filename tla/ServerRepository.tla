-------------------------- MODULE ServerRepository --------------------------
(***************************************************************************)
(* The server repository of repositories/server_repository.go: the cache  *)
(* of Server objects refetched after a TTL unless locally modified, the   *)
(* merge of a refetch with the dirty-tracked fields, and the write side:  *)
(* Save puts the server on the CallScheduler queue, whose loop flushes    *)
(* one server with a PUT or a batch with a PATCH.                         *)
(*                                                                         *)
(* A server keeps its two dirty-tracked fields: installationStatus, whose *)
(* values are the versions a daemon write produced (0 = the API's         *)
(* initial value), and the process status (active).  The commands that   *)
(* write a server and then call Save are the writers.                     *)
(***************************************************************************)
EXTENDS Integers, Sequences, FiniteSets, SequencesExt

CONSTANTS
    Servers,         \* ids of the game servers
    MaxWrites,       \* bound on local writes by commands
    MaxApiFailures,  \* bound on API requests that fail
    BulkCallFromNum, \* schedulerDefaultBulkCallFromNum
    BulkSize         \* schedulerDefaultBulkSize

ASSUME ServerRepositoryAssumption ==
    /\ IsFiniteSet(Servers)
    /\ MaxWrites \in Nat
    /\ MaxApiFailures \in Nat
    /\ BulkCallFromNum \in Nat
    /\ BulkSize \in Nat \ {0}

\* The dirty-tracked fields of domain.Server.
Fields == {"installationStatus", "status"}
Versions == 0..MaxWrites
\* installationStatus left out of a save struct (omitempty).
NoValue == -1
State == [inst : Versions, active : BOOLEAN]
Payload == [srv : Servers, inst : Versions \cup {NoValue}, active : BOOLEAN]
IdleFetch == [pc |-> "idle", srv |-> CHOOSE s \in Servers : TRUE,
              val |-> [inst |-> 0, active |-> FALSE]]
IdleFlush == [pc |-> "idle", batch |-> <<>>, i |-> 1, payload |-> <<>>]

VARIABLES
    remote,     \* server state held by the API
    cached,     \* ids in repo.servers
    local,      \* the cached Server objects
    modified,   \* dirty flags of each cached Server
    fresh,      \* ids whose lastUpdated is within serverCacheTTL
    unsaved,    \* written by a command that has not called Save yet
    sq,         \* the CallScheduler queue
    fl,         \* the CallScheduler flush in progress
    fetch,      \* FindByID in progress (it holds repo.mu throughout)
    writes,
    apiFailures,
    lastWrite   \* history: last installationStatus written locally

vars == <<remote, cached, local, modified, fresh, unsaved, sq, fl, fetch,
          writes, apiFailures, lastWrite>>

-----------------------------------------------------------------------------
\* saveStructFromServer: installed only if modified; process_active is 1
\* only if the server is active and status is modified, 0 otherwise.
SaveStruct(s) ==
    [srv |-> s,
     inst |-> IF "installationStatus" \in modified[s] THEN local[s].inst
              ELSE NoValue,
     active |-> local[s].active /\ "status" \in modified[s]]

\* The API applies the entries of a PUT or PATCH in order.
ApplyPayloads(r, ps) ==
    [s \in Servers |->
        LET idx == {i \in DOMAIN ps : ps[i].srv = s}
            withInst == {i \in idx : ps[i].inst # NoValue}
        IN  IF idx = {} THEN r[s]
            ELSE [inst |-> IF withInst = {} THEN r[s].inst
                           ELSE ps[Max(withInst)].inst,
                  active |-> ps[Max(idx)].active]]

\* How many queued servers one CallScheduler tick takes.
BatchLen(q) == IF Len(q) > BulkCallFromNum
               THEN IF BulkSize < Len(q) THEN BulkSize ELSE Len(q)
               ELSE 1

\* Mutant of Expire: the expired server is evicted from repo.servers.
ExpireEvicts(s) ==
    /\ s \in fresh
    /\ fresh' = fresh \ {s}
    /\ cached' = cached \ {s}
    /\ UNCHANGED <<remote, local, modified, unsaved, sq, fl, fetch,
                   writes, apiFailures, lastWrite>>

-----------------------------------------------------------------------------
Init ==
    /\ remote \in [Servers -> [inst : {0}, active : BOOLEAN]]
    /\ cached = {}
    /\ local = [s \in Servers |-> [inst |-> 0, active |-> FALSE]]
    /\ modified = [s \in Servers |-> {}]
    /\ fresh = {}
    /\ unsaved = {}
    /\ sq = <<>>
    /\ fl = IdleFlush
    /\ fetch = IdleFetch
    /\ writes = 0
    /\ apiFailures = 0
    /\ lastWrite = [s \in Servers |-> 0]

\* ServerRepository.FindByID asks the API when the server is not cached,
\* or when its TTL has passed and it is not modified.
NeedsFetch(s) == s \notin cached \/ (s \notin fresh /\ modified[s] = {})

(* FindByID goes to the API: the server is not cached, or its TTL has     *)
(* passed and it is not modified.  The GET answers with the API's state.  *)
FetchStart(s) ==
    /\ fetch.pc = "idle"
    /\ NeedsFetch(s)
    /\ fetch' = [pc |-> "answered", srv |-> s, val |-> remote[s]]
    /\ UNCHANGED <<remote, cached, local, modified, fresh, unsaved, sq, fl,
                   writes, apiFailures, lastWrite>>

(* The GET fails: FindByID returns the error and changes nothing.         *)
FetchFails(s) ==
    /\ fetch.pc = "idle"
    /\ NeedsFetch(s)
    /\ apiFailures < MaxApiFailures
    /\ apiFailures' = apiFailures + 1
    /\ UNCHANGED <<remote, cached, local, modified, fresh, unsaved, sq, fl,
                   fetch, writes, lastWrite>>

(* apiServerRepo.FindByID with the answer for a server not cached:      *)
(* domain.NewServer from the API's fields, stored with its lastUpdated.   *)
FetchNew ==
    /\ fetch.pc = "answered"
    /\ fetch.srv \notin cached
    /\ cached' = cached \cup {fetch.srv}
    /\ local' = [local EXCEPT ![fetch.srv] = fetch.val]
    /\ modified' = [modified EXCEPT ![fetch.srv] = {}]
    /\ fresh' = fresh \cup {fetch.srv}
    /\ fetch' = IdleFetch
    /\ UNCHANGED <<remote, unsaved, sq, fl, writes, apiFailures, lastWrite>>

(* The answer for a cached server: each field keeps its local value if    *)
(* it is modified and takes the API's otherwise (the IsValueModified      *)
(* checks), read before server.Set.                                       *)
FetchDecide ==
    /\ fetch.pc = "answered"
    /\ fetch.srv \in cached
    /\ LET s == fetch.srv
       IN  fetch' = [fetch EXCEPT !.pc = "decided", !.val =
                [inst |-> IF "installationStatus" \in modified[s]
                          THEN local[s].inst ELSE fetch.val.inst,
                 active |-> IF "status" \in modified[s]
                            THEN local[s].active ELSE fetch.val.active]]
    /\ UNCHANGED <<remote, cached, local, modified, fresh, unsaved, sq, fl,
                   writes, apiFailures, lastWrite>>

(* server.Set with the decided values, lastUpdated and repo.servers       *)
(* stored; Set leaves the dirty flags alone.                              *)
FetchSet ==
    /\ fetch.pc = "decided"
    /\ local' = [local EXCEPT ![fetch.srv] = fetch.val]
    /\ fresh' = fresh \cup {fetch.srv}
    /\ fetch' = IdleFetch
    /\ UNCHANGED <<remote, cached, modified, unsaved, sq, fl, writes,
                   apiFailures, lastWrite>>

(* serverCacheTTL passes for a cached server.                             *)
Expire(s) ==
    /\ s \in fresh
    /\ fresh' = fresh \ {s}
    /\ UNCHANGED <<remote, cached, local, modified, unsaved, sq, fl, fetch,
                   writes, apiFailures, lastWrite>>

(* A command changes a dirty-tracked field of the cached Server, which    *)
(* marks it modified; a new installationStatus is a new version.          *)
Write(s, f) ==
    /\ s \in cached
    /\ writes < MaxWrites
    /\ writes' = writes + 1
    /\ local' = [local EXCEPT ![s] =
                    IF f = "installationStatus"
                    THEN [local[s] EXCEPT !.inst = writes + 1]
                    ELSE [local[s] EXCEPT !.active = ~local[s].active]]
    /\ lastWrite' = IF f = "installationStatus"
                    THEN [lastWrite EXCEPT ![s] = writes + 1] ELSE lastWrite
    /\ modified' = [modified EXCEPT ![s] = @ \cup {f}]
    /\ unsaved' = unsaved \cup {s}
    /\ UNCHANGED <<remote, cached, fresh, sq, fl, fetch, apiFailures>>

(* ServerRepository.Save under repo.mu: limitScheduler.Put.               *)
Save(s) ==
    /\ s \in unsaved
    /\ fetch.pc = "idle"
    /\ sq' = Append(sq, s)
    /\ unsaved' = unsaved \ {s}
    /\ UNCHANGED <<remote, cached, local, modified, fresh, fl, fetch, writes,
                   apiFailures, lastWrite>>

(* A CallScheduler tick: one server, or up to BulkSize when more than     *)
(* BulkCallFromNum are queued.                                            *)
FlushTake ==
    /\ fl.pc = "idle"
    /\ sq # <<>>
    /\ LET n == BatchLen(sq)
       IN  /\ fl' = [IdleFlush EXCEPT !.pc = "snap", !.batch = SubSeq(sq, 1, n)]
           /\ sq' = SubSeq(sq, n + 1, Len(sq))
    /\ UNCHANGED <<remote, cached, local, modified, fresh, unsaved, fetch,
                   writes, apiFailures, lastWrite>>

(* Save / SaveBulk: saveStructFromServer of the next server of the batch. *)
FlushSnap ==
    /\ fl.pc = "snap"
    /\ fl' = [fl EXCEPT !.pc = "unmark",
                        !.payload = Append(@, SaveStruct(fl.batch[fl.i]))]
    /\ UNCHANGED <<remote, cached, local, modified, fresh, unsaved, sq, fetch,
                   writes, apiFailures, lastWrite>>

(* server.UnmarkModifiedFlag, before any request is sent.                 *)
FlushUnmark ==
    /\ fl.pc = "unmark"
    /\ modified' = [modified EXCEPT ![fl.batch[fl.i]] = {}]
    /\ fl' = IF fl.i < Len(fl.batch) THEN [fl EXCEPT !.pc = "snap", !.i = @ + 1]
             ELSE [fl EXCEPT !.pc = "send"]
    /\ UNCHANGED <<remote, cached, local, fresh, unsaved, sq, fetch, writes,
                   apiFailures, lastWrite>>

(* The PUT or PATCH: applied by the API, or failed; a failure is logged   *)
(* and the servers are not queued again.                                  *)
FlushSend ==
    /\ fl.pc = "send"
    /\ \/ /\ remote' = ApplyPayloads(remote, fl.payload)
          /\ UNCHANGED apiFailures
       \/ /\ apiFailures < MaxApiFailures
          /\ apiFailures' = apiFailures + 1
          /\ UNCHANGED remote
    /\ fl' = IdleFlush
    /\ UNCHANGED <<cached, local, modified, fresh, unsaved, sq, fetch, writes,
                   lastWrite>>

Next ==
    \/ \E s \in Servers : FetchStart(s) \/ FetchFails(s) \/ Expire(s) \/ Save(s)
    \/ FetchNew
    \/ FetchDecide
    \/ FetchSet
    \/ \E s \in Servers, f \in Fields : Write(s, f)
    \/ FlushTake
    \/ FlushSnap
    \/ FlushUnmark
    \/ FlushSend

Spec == Init /\ [][Next]_vars

-----------------------------------------------------------------------------
\* Type invariant.
TypeOK ==
    /\ remote \in [Servers -> State]
    /\ cached \subseteq Servers
    /\ local \in [Servers -> State]
    /\ modified \in [Servers -> SUBSET Fields]
    /\ fresh \subseteq cached
    /\ unsaved \subseteq cached
    /\ sq \in Seq(Servers)
    /\ fl.pc \in {"idle", "snap", "unmark", "send"}
    /\ fl.batch \in Seq(Servers)
    /\ fl.payload \in Seq(Payload)
    /\ fetch.pc \in {"idle", "answered", "decided"} /\ fetch.srv \in Servers
    /\ fetch.val \in State
    /\ writes \in 0..MaxWrites /\ apiFailures \in 0..MaxApiFailures
    /\ lastWrite \in [Servers -> Versions]

\* A server some step of the write path still holds: written and not yet
\* saved, queued, in the flush in progress, or being refetched.
InFlight(s) ==
    \/ s \in unsaved
    \/ s \in Range(sq)
    \/ fl.pc # "idle" /\ s \in Range(fl.batch)
    \/ fetch.pc # "idle" /\ fetch.srv = s

\* A locally written installationStatus that the API does not hold is
\* still marked modified or on its way to the API, so that no refetch can
\* replace it (spec 2: the flags are cleared upon a successful flush).
DirtyUntilUploaded ==
    \A s \in cached :
        local[s].inst # remote[s].inst =>
            "installationStatus" \in modified[s] \/ InFlight(s)

\* Until the API holds the last installationStatus the daemon wrote, the
\* daemon's copy keeps it: local writes win until flushed (spec 2, 4).
LocalWriteKept ==
    \A s \in cached :
        lastWrite[s] # 0 /\ remote[s].inst # lastWrite[s] =>
            local[s].inst = lastWrite[s]

\* Nothing written is waiting for Save, the scheduler or a FindByID.
Quiescent ==
    sq = <<>> /\ fl.pc = "idle" /\ fetch.pc = "idle" /\ unsaved = {}

\* Once every Save has been flushed and no FindByID runs, the API's
\* process_active agrees with the daemon's process status (saveStruct).
QuiescentActiveAgrees ==
    Quiescent => \A s \in cached : remote[s].active = local[s].active

=============================================================================
