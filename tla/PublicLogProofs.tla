-------------------------- MODULE PublicLogProofs --------------------------
(***************************************************************************)
(* Theorems about PublicLog, for every number of instances, every set of   *)
(* environments and every number of starts, faults and sizes, and about    *)
(* Auditor, for every log and every size of its tree.                      *)
(*                                                                         *)
(* Inv is the inductive invariant: the types, what a thread's place in     *)
(* publish_if_new says of its process and of the public log, and what the  *)
(* checks of create_app say of every process that serves.  What a monitor  *)
(* holds follows from it (Monitored) with the theorems of CtTreeProofs on  *)
(* the proofs it is given.                                                 *)
(***************************************************************************)
EXTENDS Auditor, CtTreeProofs, TLAPS

Processes ==
  [status : {"up", "stopping", "down"}, key : Keys, log : Logs, strict : BOOLEAN,
   publisher : {"running", "dead", "none"}, failures : Nat]

Places == {"idle", "head", "lookup", "submit", "put", "exit"}

Typed ==
  /\ proc \in [Instances -> Processes]
  /\ pc \in [Instances -> [Threads -> Places]]
  /\ head \in [Instances -> [Threads -> Sizes \cup {0}]]
  /\ size \in [Logs -> Sizes \cup {0}]
  /\ entries \subseteq Entries
  /\ receipts \in [Logs -> SUBSET Rows]
  /\ starts \in 0 .. MaxStarts
  /\ faults \in 0 .. MaxFaults

\* A thread under way holds a head and belongs to a process with the rail on;
\* an ended process has no thread under way.
Threaded ==
  \A i \in Instances :
    /\ proc[i].failures <= faults
    /\ proc[i].status = "down" => pc[i] = Idle /\ proc[i].publisher = "none"
    /\ \A t \in Threads :
         /\ pc[i][t] \in {"lookup", "submit", "put"} => head[i][t] \in Sizes
         /\ pc[i][t] \notin {"idle", "exit"} => proc[i].publisher # "none"

\* What a thread is about to record is in the public log.
Sent ==
  \A i \in Instances, t \in Threads : pc[i][t] = "put" => Entry(i, t) \in entries

\* The rail runs under the configured key only.
Identified ==
  /\ \A i \in Instances : proc[i].publisher # "none" => proc[i].key = Stable
  /\ \A e \in entries : e.key = Stable

\* A process without a development opt-in serves the database under the
\* configured key, which is never emptied.
Durable ==
  /\ \A i \in Instances : proc[i].strict => proc[i].key = Stable /\ proc[i].log = Db
  /\ \A p \in issued : p.key = Stable /\ p.log = Db /\ size[Db] > 0

Inv ==
  /\ Typed
  /\ Threaded
  /\ Sent
  /\ Identified
  /\ Durable
  /\ PublishedTruthful
-----------------------------------------------------------------------------
(* What the checks of create_app leave of an environment. *)

\* A process that started has a key and a log of the model; the rail means the
\* configured key, and so does the absence of both opt-ins, with the database.
LEMMA Started ==
  ASSUME NEW env \in Offered, NEW n \in 1 .. MaxStarts, Starts(env)
  PROVE  /\ Process(env, n) \in Processes
         /\ Process(env, n).status = "up"
         /\ Process(env, n).failures = 0
         /\ Process(env, n).publisher # "none" => Process(env, n).key = Stable
         /\ Process(env, n).strict =>
              Process(env, n).key = Stable /\ Process(env, n).log = Db
<1>1. env \in Environments
  BY PublicLogConstants
<1>2. LoadSigningKey(env, n).id \in Keys
  BY DEF LoadSigningKey, Keys
<1>3. (IF env.database_url THEN Db ELSE n) \in Logs
  BY <1>1 DEF Environments, Logs
<1>4. Strict(env) \in BOOLEAN
  BY DEF Strict
<1>5. Process(env, n) \in Processes
  BY <1>2, <1>3, <1>4 DEF Process, Processes
<1>6. env.public_log = "rekor" => LoadSigningKey(env, n).id = Stable
  BY DEF Starts, PublicLogAccepted, LoadSigningKey
<1>7. Strict(env) => LoadSigningKey(env, n).id = Stable /\ env.database_url
  BY DEF Starts, KeyAccepted, StoreAccepted, Strict, LoadSigningKey
<1> QED BY <1>5, <1>6, <1>7 DEF Process

\* An instance that is down has the type of a process.
LEMMA DownTyped ==
  Down \in Processes /\ Idle \in [Threads -> Places] /\ NoHead \in [Threads -> Sizes \cup {0}]
  BY DEF Down, Processes, Keys, Logs, Idle, NoHead, Places

\* No instance is up and nothing is published at first.
LEMMA InitInv == Init => Inv
<1> SUFFICES ASSUME Init PROVE Inv
  OBVIOUS
<1> USE DEF Init
<1>1. Typed
  BY DownTyped, PublicLogConstants DEF Typed
<1>2. Threaded
  BY DEF Threaded, Down, Idle
<1>3. Sent /\ Identified /\ Durable /\ PublishedTruthful
  BY DEF Sent, Idle, Identified, Durable, PublishedTruthful, Down
<1> QED BY <1>1, <1>2, <1>3 DEF Inv
-----------------------------------------------------------------------------
(* One lemma for each kind of step. *)

\* A process that starts has passed the checks of create_app.
LEMMA StartInv ==
  ASSUME Inv, NEW i \in Instances, Start(i) PROVE Inv'
<1> USE DEF Inv
<1>1. PICK env \in {e \in Offered : Starts(e)} : proc' = [proc EXCEPT ![i] = Process(env, starts + 1)]
  BY DEF Start
<1>2. starts + 1 \in 1 .. MaxStarts
  BY PublicLogConstants DEF Start, Typed
<1> DEFINE p == Process(env, starts + 1)
<1>3. /\ p \in Processes /\ p.status = "up" /\ p.failures = 0
      /\ p.publisher # "none" => p.key = Stable
      /\ p.strict => p.key = Stable /\ p.log = Db
  BY <1>1, <1>2, Started
<1>4. pc[i] = Idle /\ UNCHANGED <<pc, head, size, entries, receipts, faults, issued>>
  BY DEF Start, Threaded
<1>5. proc' = [proc EXCEPT ![i] = p] /\ proc \in [Instances -> Processes]
  BY <1>1 DEF Typed
<1> HIDE DEF p
<1>6. Typed'
  BY <1>2, <1>3, <1>4, <1>5, PublicLogConstants DEF Typed, Start
<1>7. Threaded'
  BY <1>3, <1>4, <1>5 DEF Threaded, Typed, Idle
<1>8. Sent'
  BY <1>4, <1>5 DEF Sent, Idle, Entry
<1>9. Identified' /\ Durable'
  BY <1>3, <1>4, <1>5 DEF Identified, Durable
<1>10. PublishedTruthful'
  BY <1>4 DEF PublishedTruthful
<1> QED BY <1>6, <1>7, <1>8, <1>9, <1>10

\* An ended process: what it kept to itself is gone, the database stays.
LEMMA GoneInv ==
  ASSUME Inv, NEW i \in Instances, Gone(i),
         UNCHANGED <<entries, starts, issued>>, faults' \in {faults, faults + 1}, faults' <= MaxFaults
  PROVE  Inv'
<1> USE DEF Inv
<1>1. proc' = [proc EXCEPT ![i] = Down] /\ pc' = [pc EXCEPT ![i] = Idle]
       /\ head' = [head EXCEPT ![i] = NoHead]
  BY DEF Gone
<1>2. /\ size' \in [Logs -> Sizes \cup {0}] /\ size'[Db] = size[Db]
      /\ receipts' \in [Logs -> SUBSET Rows] /\ \A l \in Logs : receipts'[l] \subseteq receipts[l]
  BY DEF Gone, Typed, Logs
<1>3. Typed'
  BY <1>1, <1>2, DownTyped, PublicLogConstants DEF Typed
<1>4. Threaded'
  <2> SUFFICES ASSUME NEW j \in Instances
               PROVE  /\ proc'[j].failures <= faults'
                      /\ proc'[j].status = "down" => pc'[j] = Idle /\ proc'[j].publisher = "none"
                      /\ \A t \in Threads :
                           /\ pc'[j][t] \in {"lookup", "submit", "put"} => head'[j][t] \in Sizes
                           /\ pc'[j][t] \notin {"idle", "exit"} => proc'[j].publisher # "none"
    BY DEF Threaded
  <2>1. faults \in Nat /\ faults <= faults' /\ faults' \in Nat
    BY PublicLogConstants DEF Typed
  <2>2. CASE j = i
    BY <1>1, <2>1, <2>2 DEF Typed, Down, Idle
  <2>3. CASE j # i
    <3>1. proc'[j] = proc[j] /\ pc'[j] = pc[j] /\ head'[j] = head[j] /\ proc[j].failures \in Nat
      BY <1>1, <2>3 DEF Typed, Processes
    <3> QED BY <2>1, <3>1 DEF Threaded
  <2> QED BY <2>2, <2>3
<1>5. Sent'
  BY <1>1 DEF Sent, Typed, Idle, Entry
<1>6. Identified' /\ Durable'
  BY <1>1, <1>2 DEF Identified, Durable, Typed, Down
<1>7. PublishedTruthful'
  BY <1>2 DEF PublishedTruthful
<1> QED BY <1>3, <1>4, <1>5, <1>6, <1>7

\* A process that is told to stop keeps its key and its log.
LEMMA ShutdownInv ==
  ASSUME Inv, NEW i \in Instances, Shutdown(i) PROVE Inv'
<1> USE DEF Inv
<1> DEFINE place == IF proc[i].publisher = "none" THEN "exit" ELSE "head"
<1>1. /\ proc' = [proc EXCEPT ![i].status = "stopping"]
      /\ pc' = [pc EXCEPT ![i]["shutdown"] = place]
      /\ UNCHANGED <<head, size, entries, receipts, starts, faults, issued>>
  BY DEF Shutdown
<1>2. Typed'
  <2>1. proc' \in [Instances -> Processes]
    <3>1. proc \in [Instances -> Processes]
      BY DEF Typed
    <3>2. [proc[i] EXCEPT !.status = "stopping"] \in Processes
      BY <3>1 DEF Processes
    <3>3. proc' = [proc EXCEPT ![i] = [proc[i] EXCEPT !.status = "stopping"]]
      BY <1>1
    <3> QED BY <3>1, <3>2, <3>3
  <2>2. pc' \in [Instances -> [Threads -> Places]]
    BY <1>1 DEF Typed, Places, Threads
  <2> QED BY <1>1, <2>1, <2>2 DEF Typed
<1>3. Threaded'
  BY <1>1 DEF Threaded, Typed, Threads, Processes
<1>4. Sent'
  BY <1>1 DEF Sent, Typed, Entry, Processes
<1>5. Identified' /\ Durable'
  BY <1>1 DEF Identified, Durable, Typed, Processes
<1>6. PublishedTruthful'
  BY <1>1 DEF PublishedTruthful
<1> QED BY <1>2, <1>3, <1>4, <1>5, <1>6

\* Requests let a log grow, and put the identity of the process on record.
LEMMA GrowInv ==
  ASSUME Inv, NEW i \in Instances, Grow(i) PROVE Inv'
<1> USE DEF Inv
<1>1. PICK s \in Sizes :
        s > size[proc[i].log] /\ size' = [size EXCEPT ![proc[i].log] = s]
  BY DEF Grow
<1>2. /\ UNCHANGED <<proc, pc, head, entries, receipts, starts, faults>>
      /\ issued' = IF proc[i].strict
                   THEN issued \cup {[key |-> proc[i].key, log |-> proc[i].log]} ELSE issued
  BY DEF Grow
<1>3. Typed'
  BY <1>1, <1>2 DEF Typed
<1>4. Threaded' /\ Sent' /\ Identified' /\ PublishedTruthful'
  BY <1>2 DEF Threaded, Sent, Entry, Identified, PublishedTruthful
<1>5. s \in Nat \ {0}
  BY PublicLogConstants
<1>6. Db \in Logs /\ proc[i] \in Processes
  BY DEF Logs, Typed
<1>7. size[Db] > 0 => size'[Db] > 0
  BY <1>1, <1>5, <1>6 DEF Typed, Processes
<1>8. proc[i].strict => proc[i].key = Stable /\ proc[i].log = Db /\ size'[Db] > 0
  BY <1>1, <1>5, <1>6 DEF Durable, Typed, Processes
<1>9. Durable'
  BY <1>2, <1>7, <1>8 DEF Durable
<1> QED BY <1>3, <1>4, <1>9

\* A step of a thread that leaves the public log and the tables alone: the
\* thread moves on with a head, or returns.
LEMMA ThreadInv ==
  ASSUME Inv, NEW i \in Instances, NEW t \in Threads,
         NEW place \in Places \ {"put"}, NEW s \in Sizes \cup {0},
         place \in {"lookup", "submit"} => s \in Sizes,
         place \notin {"idle", "exit"} => proc[i].publisher # "none",
         proc[i].status # "down",
         pc' = [pc EXCEPT ![i][t] = place], head' = [head EXCEPT ![i][t] = s],
         UNCHANGED <<proc, size, entries, receipts, starts, faults, issued>>
  PROVE  Inv'
<1> USE DEF Inv
<1>1. Typed'
  BY DEF Typed
<1>2. Threaded'
  BY DEF Threaded, Typed
<1>3. Sent'
  BY DEF Sent, Typed, Entry
<1>4. Identified' /\ Durable' /\ PublishedTruthful'
  BY DEF Identified, Durable, PublishedTruthful
<1> QED BY <1>1, <1>2, <1>3, <1>4

\* What a thread sends, and the row it writes, are of the process it runs in.
LEMMA EntryTyped ==
  ASSUME Inv, NEW i \in Instances, NEW t \in Threads, pc[i][t] \in {"lookup", "submit", "put"}
  PROVE  /\ Entry(i, t) \in Entries /\ Row(i, t) \in Rows
         /\ Entry(i, t).log = proc[i].log /\ Entry(i, t).size = head[i][t]
         /\ Entry(i, t).key = Stable
         /\ Row(i, t).size = head[i][t] /\ Row(i, t).uuid = Entry(i, t)
         /\ proc[i].status # "down"
<1>1. proc[i] \in Processes /\ head[i][t] \in Sizes /\ proc[i].key = Stable
  BY DEF Inv, Typed, Threaded, Identified
<1>2. proc[i].status # "down"
  BY DEF Inv, Threaded, Idle
<1> QED BY <1>1, <1>2 DEF Entry, Row, Entries, Rows, Processes

\* Rows go in and stay.
LEMMA PutRowKeeps ==
  ASSUME NEW rows, NEW row
  PROVE  rows \subseteq PutRow(rows, row) /\ PutRow(rows, row) \subseteq rows \cup {row}
  BY DEF PutRow

\* put_public_log_receipt adds its row, if any, and removes none.
LEMMA PutKeeps ==
  ASSUME Inv, NEW i \in Instances, NEW t \in Threads, pc[i][t] = "put"
  PROVE  /\ Put(i, t) \in [Logs -> SUBSET Rows]
         /\ \A l \in Logs : receipts[l] \subseteq Put(i, t)[l]
         /\ \A l \in Logs : \A row \in Put(i, t)[l] :
              row \in receipts[l] \/ (row = Row(i, t) /\ l = proc[i].log)
<1>1. proc[i].log \in Logs /\ receipts \in [Logs -> SUBSET Rows]
  BY DEF Inv, Typed, Processes
<1>2. Row(i, t) \in Rows
  BY EntryTyped
<1> DEFINE l == proc[i].log
           rows == PutRow(receipts[l], Row(i, t))
<1>3. receipts[l] \subseteq rows /\ rows \subseteq receipts[l] \cup {Row(i, t)}
  BY PutRowKeeps
<1>4. Put(i, t) = [receipts EXCEPT ![l] = rows]
  BY <1>1 DEF Put
<1> HIDE DEF rows
<1> QED BY <1>1, <1>2, <1>3, <1>4

\* Rekor takes the entry.
LEMMA SubmitInv ==
  ASSUME Inv, NEW i \in Instances, NEW t \in Threads, Submit(i, t) PROVE Inv'
<1> USE DEF Inv
<1>1. /\ pc[i][t] = "submit" /\ entries' = entries \cup {Entry(i, t)}
      /\ pc' = [pc EXCEPT ![i][t] = "put"]
      /\ UNCHANGED <<proc, head, size, receipts, starts, faults, issued>>
  BY DEF Submit
<1>2. Entry(i, t) \in Entries /\ Entry(i, t).key = Stable
  BY <1>1, EntryTyped
<1>3. Typed'
  BY <1>1, <1>2 DEF Typed, Places
<1>4. Threaded'
  BY <1>1 DEF Threaded, Typed, Idle
<1>5. \A j \in Instances, u \in Threads : Entry(j, u)' = Entry(j, u)
  BY <1>1 DEF Entry
<1>6. Sent'
  BY <1>1, <1>5 DEF Sent, Typed
<1>7. Identified' /\ Durable' /\ PublishedTruthful'
  BY <1>1, <1>2 DEF Identified, Durable, PublishedTruthful
<1> QED BY <1>3, <1>4, <1>6, <1>7

\* publish_if_new ends, with or without an entry, a row or an exception.
LEMMA ReturnInv ==
  ASSUME Inv, NEW i \in Instances, NEW t \in Threads, Return(i, t), NEW p \in Processes,
         p.status = proc[i].status, p.key = proc[i].key, p.log = proc[i].log,
         p.strict = proc[i].strict, p.publisher = "none" <=> proc[i].publisher = "none",
         proc[i].status # "down",
         p.failures <= faults', faults' \in {faults, faults + 1}, faults' <= MaxFaults,
         proc' = [proc EXCEPT ![i] = p],
         entries' = entries \/ (pc[i][t] = "submit" /\ entries' = entries \cup {Entry(i, t)}),
         receipts' = receipts \/ (pc[i][t] = "put" /\ receipts' = Put(i, t)),
         UNCHANGED <<size, starts, issued>>
  PROVE  Inv'
<1> USE DEF Inv
<1> DEFINE place == IF t = "timer" THEN "idle" ELSE "exit"
<1>1. pc' = [pc EXCEPT ![i][t] = place] /\ head' = [head EXCEPT ![i][t] = 0]
  BY DEF Return
<1>2. place \in {"idle", "exit"}
  OBVIOUS
<1> HIDE DEF place
<1>3. entries \subseteq entries' /\ entries' \subseteq Entries /\ \A e \in entries' : e.key = Stable
  BY EntryTyped DEF Typed, Identified
<1>4. receipts' \in [Logs -> SUBSET Rows]
  BY PutKeeps DEF Typed
<1>5. faults' \in 0 .. MaxFaults /\ faults <= faults'
  BY PublicLogConstants DEF Typed
<1>6. Typed'
  BY <1>1, <1>2, <1>3, <1>4, <1>5 DEF Typed, Places
<1>7. Threaded'
  <2> SUFFICES ASSUME NEW j \in Instances
               PROVE  /\ proc'[j].failures <= faults'
                      /\ proc'[j].status = "down" => pc'[j] = Idle /\ proc'[j].publisher = "none"
                      /\ \A u \in Threads :
                           /\ pc'[j][u] \in {"lookup", "submit", "put"} => head'[j][u] \in Sizes
                           /\ pc'[j][u] \notin {"idle", "exit"} => proc'[j].publisher # "none"
    BY DEF Threaded
  <2>1. CASE j = i
    <3>1. proc'[i] = p /\ pc[i] \in [Threads -> Places] /\ head[i] \in [Threads -> Sizes \cup {0}]
      BY DEF Typed
    <3>2. pc'[i] = [pc[i] EXCEPT ![t] = place] /\ head'[i] = [head[i] EXCEPT ![t] = 0]
      BY <1>1 DEF Typed
    <3> QED BY <1>2, <2>1, <3>1, <3>2 DEF Threaded
  <2>2. CASE j # i
    <3>1. proc'[j] = proc[j] /\ pc'[j] = pc[j] /\ head'[j] = head[j] /\ proc[j].failures \in Nat
      BY <1>1, <2>2 DEF Typed, Processes
    <3>2. proc[j].failures <= faults'
      BY <1>5, <3>1, PublicLogConstants DEF Threaded, Typed
    <3> QED BY <3>1, <3>2 DEF Threaded
  <2> QED BY <2>1, <2>2
<1>8. Sent'
  <2> SUFFICES ASSUME NEW j \in Instances, NEW u \in Threads, pc'[j][u] = "put"
               PROVE  Entry(j, u)' \in entries'
    BY DEF Sent
  <2>1. pc[j][u] = "put" /\ head'[j][u] = head[j][u]
    BY <1>1, <1>2 DEF Typed
  <2>2. proc'[j].log = proc[j].log /\ proc'[j].key = proc[j].key
    BY DEF Typed
  <2>3. Entry(j, u)' = Entry(j, u)
    BY <2>1, <2>2 DEF Entry
  <2> QED BY <1>3, <2>1, <2>3 DEF Sent
<1>9. Identified' /\ Durable'
  BY <1>3 DEF Identified, Durable, Typed
<1>10. PublishedTruthful'
  <2> SUFFICES ASSUME NEW l \in Logs, NEW row \in receipts'[l]
               PROVE  row.uuid \in entries' /\ row.uuid.log = l /\ row.uuid.size = row.size
    BY DEF PublishedTruthful
  <2>1. CASE row \in receipts[l]
    BY <1>3, <2>1 DEF PublishedTruthful
  <2>2. CASE row \notin receipts[l]
    <3>1. pc[i][t] = "put" /\ row = Row(i, t) /\ l = proc[i].log
      BY <2>2, PutKeeps
    <3>2. Entry(i, t) \in entries
      BY <3>1 DEF Sent
    <3> QED BY <1>3, <3>1, <3>2, EntryTyped
  <2> QED BY <2>1, <2>2
<1> QED BY <1>6, <1>7, <1>8, <1>9, <1>10
-----------------------------------------------------------------------------
(* The steps of publish_if_new, and all of them. *)

\* The head of a log that is not empty is read.
LEMMA ReadHeadInv ==
  ASSUME Inv, NEW i \in Instances, NEW t \in Threads, ReadHead(i, t) PROVE Inv'
<1>1. proc[i].status # "down" /\ proc[i].publisher # "none" /\ proc[i].log \in Logs
  BY DEF Inv, Typed, Threaded, Processes, ReadHead, Called, Idle
<1>2. UNCHANGED <<proc, size, entries, receipts, starts, faults, issued>>
  BY DEF ReadHead
<1>3. CASE Empty(proc[i].log)
  <2> DEFINE place == IF t = "timer" THEN "idle" ELSE "exit"
  <2>1. pc' = [pc EXCEPT ![i][t] = place] /\ head' = [head EXCEPT ![i][t] = 0]
    BY <1>3 DEF ReadHead, Return
  <2>2. place \in {"idle", "exit"}
    OBVIOUS
  <2> HIDE DEF place
  <2> QED BY <1>1, <1>2, <2>1, <2>2, ThreadInv DEF Places
<1>4. CASE ~ Empty(proc[i].log)
  <2> DEFINE s == size[proc[i].log]
  <2>1. pc' = [pc EXCEPT ![i][t] = "lookup"] /\ head' = [head EXCEPT ![i][t] = s]
    BY <1>4 DEF ReadHead
  <2>2. s \in Sizes
    BY <1>1, <1>4 DEF Inv, Typed, Empty
  <2> HIDE DEF s
  <2> QED BY <1>1, <1>2, <2>1, <2>2, ThreadInv DEF Places
<1> QED BY <1>3, <1>4

\* A head that is on record is not sent again.
LEMMA LookupInv ==
  ASSUME Inv, NEW i \in Instances, NEW t \in Threads, Lookup(i, t) PROVE Inv'
<1>1. /\ pc[i][t] = "lookup" /\ head[i][t] \in Sizes
      /\ proc[i].status # "down" /\ proc[i].publisher # "none"
  BY DEF Inv, Threaded, Lookup, Idle
<1>2. UNCHANGED <<proc, size, entries, receipts, starts, faults, issued>>
  BY DEF Lookup
<1>3. CASE Published(proc[i].log, head[i][t])
  <2> DEFINE place == IF t = "timer" THEN "idle" ELSE "exit"
  <2>1. pc' = [pc EXCEPT ![i][t] = place] /\ head' = [head EXCEPT ![i][t] = 0]
    BY <1>3 DEF Lookup, Return
  <2>2. place \in {"idle", "exit"}
    OBVIOUS
  <2> HIDE DEF place
  <2> QED BY <1>1, <1>2, <2>1, <2>2, ThreadInv DEF Places
<1>4. CASE ~ Published(proc[i].log, head[i][t])
  <2>1. pc' = [pc EXCEPT ![i][t] = "submit"] /\ head' = head
    BY <1>4 DEF Lookup
  <2>2. head' = [head EXCEPT ![i][t] = head[i][t]]
    BY <2>1 DEF Inv, Typed
  <2> QED BY <1>1, <1>2, <2>1, <2>2, ThreadInv DEF Places
<1> QED BY <1>3, <1>4

\* A call raises and the failure is counted.
LEMMA FailsInv ==
  ASSUME Inv, NEW i \in Instances, NEW t \in Threads, Fails(i, t) PROVE Inv'
<1> DEFINE p == [proc[i] EXCEPT !.failures = proc[i].failures + 1]
<1>1. proc[i].status # "down"
  BY DEF Inv, Threaded, Fails, Called, Idle
<1>2. proc[i] \in Processes /\ faults \in Nat /\ proc[i].failures <= faults
  BY PublicLogConstants DEF Inv, Typed, Threaded
<1>3. faults' = faults + 1 /\ faults' <= MaxFaults
  BY <1>2, PublicLogConstants DEF Fails
<1>4. /\ p \in Processes /\ p.status = proc[i].status /\ p.key = proc[i].key
      /\ p.log = proc[i].log /\ p.strict = proc[i].strict /\ p.publisher = proc[i].publisher
      /\ p.failures <= faults'
  BY <1>2, <1>3 DEF Processes
<1>5. proc' = [proc EXCEPT ![i] = p] /\ Return(i, t)
  BY <1>2 DEF Fails, RecordFailure, Inv, Typed
<1>6. entries' = entries \/ (pc[i][t] = "submit" /\ entries' = entries \cup {Entry(i, t)})
  BY DEF Fails
<1>7. UNCHANGED <<receipts, size, starts, issued>>
  BY DEF Fails
<1> HIDE DEF p
<1> QED BY <1>1, <1>3, <1>4, <1>5, <1>6, <1>7, ReturnInv

\* The row is written.
LEMMA PutReceiptInv ==
  ASSUME Inv, NEW i \in Instances, NEW t \in Threads, PutReceipt(i, t) PROVE Inv'
<1> DEFINE p == [proc[i] EXCEPT !.failures = 0]
<1>1. pc[i][t] = "put" /\ proc[i].status # "down"
  BY DEF Inv, Threaded, PutReceipt, Idle
<1>2. proc[i] \in Processes /\ faults \in 0 .. MaxFaults
  BY DEF Inv, Typed
<1>3. /\ p \in Processes /\ p.status = proc[i].status /\ p.key = proc[i].key
      /\ p.log = proc[i].log /\ p.strict = proc[i].strict /\ p.publisher = proc[i].publisher
      /\ p.failures = 0
  BY <1>2 DEF Processes
<1>4. proc' = [proc EXCEPT ![i] = p] /\ Return(i, t) /\ receipts' = Put(i, t)
  BY <1>2 DEF PutReceipt, Inv, Typed
<1>5. UNCHANGED <<size, entries, starts, faults, issued>>
  BY DEF PutReceipt
<1>6. p.failures <= faults' /\ faults' <= MaxFaults
  BY <1>2, <1>3, <1>5, PublicLogConstants
<1> HIDE DEF p
<1> QED BY <1>1, <1>3, <1>4, <1>5, <1>6, ReturnInv

\* The write raises outside the try.
LEMMA PutReceiptRaisesInv ==
  ASSUME Inv, NEW i \in Instances, NEW t \in Threads, PutReceiptRaises(i, t) PROVE Inv'
<1> DEFINE p == IF t = "timer" THEN [proc[i] EXCEPT !.publisher = "dead"] ELSE proc[i]
<1>1. pc[i][t] = "put" /\ proc[i].status # "down" /\ proc[i].publisher # "none"
  BY DEF Inv, Threaded, PutReceiptRaises, Idle
<1>2. proc[i] \in Processes /\ faults \in 0 .. MaxFaults /\ proc[i].failures <= faults
  BY DEF Inv, Typed, Threaded
<1>3. /\ p \in Processes /\ p.status = proc[i].status /\ p.key = proc[i].key
      /\ p.log = proc[i].log /\ p.strict = proc[i].strict /\ p.publisher # "none"
      /\ p.failures = proc[i].failures
  BY <1>1, <1>2 DEF Processes
<1>4. proc' = [proc EXCEPT ![i] = p] /\ Return(i, t)
  BY <1>2 DEF PutReceiptRaises, Inv, Typed
<1>5. /\ receipts' = receipts \/ receipts' = Put(i, t)
      /\ UNCHANGED <<size, entries, starts, issued>>
  BY DEF PutReceiptRaises
<1>6. faults' = faults + 1 /\ faults' <= MaxFaults /\ p.failures <= faults'
  BY <1>2, <1>3, PublicLogConstants DEF PutReceiptRaises, Processes
<1> HIDE DEF p
<1> QED BY <1>1, <1>3, <1>4, <1>5, <1>6, ReturnInv

\* No step leaves the invariant.
LEMMA StepInv == Inv /\ [Next]_vars => Inv'
<1> SUFFICES ASSUME Inv, [Next]_vars PROVE Inv'
  OBVIOUS
<1>1. CASE UNCHANGED vars
  BY <1>1 DEF vars, Inv, Typed, Threaded, Sent, Entry, Identified, Durable, PublishedTruthful
<1>2. ASSUME NEW i \in Instances, Exit(i) PROVE Inv'
  BY <1>2, GoneInv, PublicLogConstants DEF Exit, Inv, Typed
<1>3. ASSUME NEW i \in Instances, Crash(i) PROVE Inv'
  <2>1. faults' = faults + 1 /\ faults' <= MaxFaults
    BY <1>3, PublicLogConstants DEF Crash, Inv, Typed
  <2> QED BY <1>3, <2>1, GoneInv DEF Crash
<1>4. ASSUME NEW i \in Instances, Start(i) \/ Shutdown(i) \/ Grow(i) PROVE Inv'
  BY <1>4, StartInv, ShutdownInv, GrowInv
<1>5. ASSUME NEW i \in Instances, NEW t \in Threads,
             \/ ReadHead(i, t) \/ Lookup(i, t) \/ Submit(i, t)
             \/ PutReceipt(i, t) \/ Fails(i, t) \/ PutReceiptRaises(i, t)
      PROVE Inv'
  BY <1>5, ReadHeadInv, LookupInv, SubmitInv, PutReceiptInv, FailsInv, PutReceiptRaisesInv
<1> QED BY <1>1, <1>2, <1>3, <1>4, <1>5 DEF Next
-----------------------------------------------------------------------------
(* The theorems. *)

\* The inductive invariant holds in every reachable state.
THEOREM Invariance == Spec => []Inv
  BY InitInv, StepInv, PTL DEF Spec

\* Every table holds rows of its schema and every thread the locals its next
\* call needs (store.py:1235, scheduler.py:53).
THEOREM TypeCorrect == Spec => []TypeOK
<1>1. Inv => TypeOK
  <2> SUFFICES ASSUME Inv PROVE TypeOK
    OBVIOUS
  <2>1. ASSUME NEW i \in Instances
        PROVE  /\ proc[i] \in Processes /\ proc[i].failures \in 0 .. MaxFaults
               /\ pc[i] \in [Threads -> Places]
               /\ proc[i].status = "down" => pc[i] = Idle
               /\ \A t \in Threads : pc[i][t] \in {"lookup", "submit", "put"} => head[i][t] \in Sizes
    <3>1. proc[i] \in Processes /\ proc[i].failures <= faults /\ faults \in 0 .. MaxFaults
      BY DEF Inv, Typed, Threaded
    <3>2. proc[i].failures \in 0 .. MaxFaults
      BY <3>1, PublicLogConstants DEF Processes
    <3> QED BY <3>1, <3>2 DEF Inv, Typed, Threaded
  <2> QED BY <2>1 DEF Inv, Typed, TypeOK, Processes, Places
<1> QED BY <1>1, Invariance, PTL

\* A persisted publication names an entry the public log holds, for that very
\* head and log, whatever publishers interleave (scheduler.py:63-86).
THEOREM PublicationsAreTruthful == Spec => []PublishedTruthful
<1>1. Inv => PublishedTruthful
  BY DEF Inv
<1> QED BY <1>1, Invariance, PTL

\* No two identities are ever published, whichever environments the instances
\* are started from (app.py:260-273).
THEOREM OneIdentity == Spec => []OneIdentityPublished
<1>1. Inv => OneIdentityPublished
  BY DEF Inv, Identified, OneIdentityPublished
<1> QED BY <1>1, Invariance, PTL

\* What a process without a development opt-in answered outlives every restart
\* (app.py:115-125, 150-167).
THEOREM ReceiptsOutlive == Spec => []ReceiptsOutliveRestarts
<1>1. Inv => ReceiptsOutliveRestarts
  BY DEF Inv, Durable, ReceiptsOutliveRestarts
<1> QED BY <1>1, Invariance, PTL

\* A publication on record in the database is neither replaced nor removed
\* (store.py:1692).
THEOREM PublicationsAreKept == Spec => PublicationsKept
<1>1. Inv /\ [Next]_vars => [receipts[Db] \subseteq receipts'[Db]]_vars
  <2> SUFFICES ASSUME Inv, Next PROVE receipts[Db] \subseteq receipts'[Db]
    OBVIOUS
  <2>1. Db \in Logs /\ receipts \in [Logs -> SUBSET Rows]
    BY DEF Inv, Typed, Logs
  <2>2. ASSUME NEW i \in Instances, Gone(i) PROVE receipts'[Db] = receipts[Db]
    BY <2>1, <2>2 DEF Gone
  <2>3. ASSUME NEW i \in Instances, NEW t \in Threads, PutReceipt(i, t) \/ PutReceiptRaises(i, t)
        PROVE  receipts[Db] \subseteq receipts'[Db]
    BY <2>1, <2>3, PutKeeps DEF PutReceipt, PutReceiptRaises
  <2>4. ASSUME NEW i \in Instances, Start(i) \/ Shutdown(i) \/ Grow(i) PROVE UNCHANGED receipts
    BY <2>4 DEF Start, Shutdown, Grow
  <2>5. ASSUME NEW i \in Instances, NEW t \in Threads,
               ReadHead(i, t) \/ Lookup(i, t) \/ Submit(i, t) \/ Fails(i, t)
        PROVE  UNCHANGED receipts
    BY <2>5 DEF ReadHead, Lookup, Submit, Fails
  <2> QED BY <2>2, <2>3, <2>4, <2>5 DEF Next, Exit, Crash
<1> QED BY <1>1, Invariance, PTL DEF Spec, PublicationsKept
-----------------------------------------------------------------------------
(* The evidence on a stamp. *)

\* get_public_log_receipt_covering answers a row of the table that covers the
\* tree, and None only when the table has no such row.
LEMMA CoveringRow ==
  ASSUME NEW l \in Logs, NEW n \in Nat, receipts[l] \subseteq Rows
  PROVE  \/ Covering(l, n) \in receipts[l] /\ Covering(l, n).size >= n
         \/ Covering(l, n) = None /\ \A row \in receipts[l] : ~ (row.size >= n)
<1> DEFINE covering == {row \in receipts[l] : Covers(row, n)}
           sizes == {row.size : row \in covering}
<1>1. CASE covering = {}
  BY <1>1 DEF Covering, Covers
<1>2. CASE covering # {}
  <2>1. sizes \in SUBSET Nat /\ sizes # {}
    BY <1>2, PublicLogConstants DEF Rows
  <2>2. PICK m \in sizes : \A k \in sizes : m <= k
    BY <2>1, LeastNatural
  <2>3. \E row \in covering : \A other \in covering : row.size <= other.size
    BY <2>2
  <2>4. Covering(l, n) = CHOOSE row \in covering : \A other \in covering : row.size <= other.size
    BY <1>2 DEF Covering
  <2>5. Covering(l, n) \in covering
    BY <2>3, <2>4, Zenon
  <2> QED BY <2>5 DEF Covers
<1> QED BY <1>1, <1>2

\* The evidence put on a stamp names an entry whose tree contains the stamp's
\* leaf, and no evidence is withheld that exists (router.py:942-955).
THEOREM EvidenceIsSound == Spec => []EvidenceCovers
<1>1. Inv => EvidenceCovers
  <2> SUFFICES ASSUME Inv, NEW i \in Instances, NEW n \in Sizes
               PROVE  LET evidence == Stamp(i, n).public_log
                      IN IF evidence = None
                         THEN PublicLogEntries(i, n - 1) = {}
                         ELSE evidence.uuid.log = proc[i].log /\ evidence.uuid.size >= n
    BY DEF EvidenceCovers
  <2> DEFINE l == proc[i].log
  <2>1. l \in Logs /\ receipts[l] \subseteq Rows /\ n \in Nat
    BY PublicLogConstants DEF Inv, Typed, Processes
  <2>2. \A row \in receipts[l] : row # None /\ row.size \in Nat
                                 /\ row.uuid.log = l /\ row.uuid.size = row.size
    BY <2>1, NoneDistinct, PublicLogConstants DEF Inv, PublishedTruthful, Rows
  <2>3. CASE proc[i].publisher = "none"
    BY <2>3 DEF Stamp, PublicLogEntries
  <2>4. CASE proc[i].publisher # "none"
    <3>1. Stamp(i, n).public_log = Covering(l, n) /\ PublicLogEntries(i, n - 1) = Since(l, n - 1)
      BY <2>4 DEF Stamp, PublicLogEntries
    <3>2. CASE Covering(l, n) \in receipts[l] /\ Covering(l, n).size >= n
      BY <2>2, <3>1, <3>2
    <3>3. CASE Covering(l, n) = None /\ \A row \in receipts[l] : ~ (row.size >= n)
      BY <2>1, <2>2, <3>1, <3>3 DEF Since
    <3> QED BY <2>1, <3>2, <3>3, CoveringRow
  <2> QED BY <2>3, <2>4
<1> QED BY <1>1, Invariance, PTL
-----------------------------------------------------------------------------
(* The logs a monitor meets, and the proofs it is given. *)

\* A sequence over one of two sets is one over both.
LEMMA SeqWider ==
  ASSUME NEW A, NEW B, NEW s, s \in Seq(A) \/ s \in Seq(B)
  PROVE  s \in Seq(A \cup B)
<1>1. Len(s) \in Nat /\ s \in [1 .. Len(s) -> A \cup B]
  OBVIOUS
<1> QED BY <1>1

\* The leaves of a log of n are n.
LEMMA LeavesOf ==
  ASSUME NEW l, NEW n \in Nat
  PROVE  /\ Leaves(l, n) \in Seq({Leaf(<<l, k>>) : k \in Nat})
         /\ Len(Leaves(l, n)) = n
         /\ \A k \in 1 .. n : Leaves(l, n)[k] = Leaf(<<l, k>>)
         /\ n > 0 => Leaves(l, n) # <<>>
BY DEF Leaves

\* The first m leaves of a log are the log when it had m leaves.
LEMMA FirstLeaves ==
  ASSUME NEW l, NEW n \in Nat, NEW m \in 0 .. n
  PROVE  First(Leaves(l, n), m) = Leaves(l, m)
<1> DEFINE T == {Leaf(<<l, k>>) : k \in Nat}
           whole == Leaves(l, n)
           small == Leaves(l, m)
           part == First(whole, m)
<1>0. m \in Nat /\ m <= n /\ \A k \in 1 .. m : k \in 1 .. n
  OBVIOUS
<1>1. /\ whole \in Seq(T) /\ Len(whole) = n
      /\ \A k \in 1 .. n : whole[k] = Leaf(<<l, k>>)
  BY LeavesOf
<1>5. /\ small \in Seq(T) /\ Len(small) = m
      /\ \A k \in 1 .. m : small[k] = Leaf(<<l, k>>)
  BY <1>0, LeavesOf
<1> HIDE DEF T, whole, small
<1>2. part \in Seq(T) /\ Len(part) = m /\ \A k \in 1 .. m : part[k] = whole[k]
  BY <1>0, <1>1 DEF First
<1>4. \A k \in 1 .. m : part[k] = small[k]
  BY <1>0, <1>1, <1>2, <1>5
<1> HIDE DEF part
<1>6. part = small
  BY <1>2, <1>4, <1>5, SeqEqual
<1> QED BY <1>6 DEF part, whole, small

\* A leaf gives away its log and its place.
LEMMA LeafInjective ==
  ASSUME NEW l, NEW k, NEW m, NEW j, Leaf(<<l, k>>) = Leaf(<<m, j>>)
  PROVE  l = m /\ k = j
BY DEF Leaf

\* Logs that share a root of n > 0 leaves are one log.
LEMMA OneLog ==
  ASSUME NEW l, NEW m, NEW n \in Nat, n > 0,
         MerkleTreeHash(Leaves(l, n)) = MerkleTreeHash(Leaves(m, n))
  PROVE  l = m
<1> DEFINE A == {Leaf(<<l, k>>) : k \in Nat}
           B == {Leaf(<<m, k>>) : k \in Nat}
           T == A \cup B
<1>1. /\ Leaves(l, n) \in Seq(A) /\ Len(Leaves(l, n)) = n
      /\ Leaves(m, n) \in Seq(B) /\ Len(Leaves(m, n)) = n
  BY LeavesOf
<1> HIDE DEF A, B
<1>2. Leaves(l, n) \in Seq(T) /\ Leaves(m, n) \in Seq(T)
  BY <1>1, SeqWider
<1> HIDE DEF T
<1>3. Leaves(l, n) = Leaves(m, n)
  BY <1>1, <1>2, OneRoot
<1>4. 1 \in 1 .. n
  OBVIOUS
<1>5. Leaves(l, n)[1] = Leaf(<<l, 1>>) /\ Leaves(m, n)[1] = Leaf(<<m, 1>>)
  BY <1>4, LeavesOf
<1> QED BY <1>3, <1>5, LeafInjective

\* The service's answer to a question about two sizes it holds.
LEMMA AnswerOf ==
  ASSUME NEW l, NEW n \in Nat, NEW old \in Nat, NEW new \in Nat, old <= new
  PROVE  LET answer == ConsistencyProof(Leaves(l, n), old, new)
         IN /\ answer.status = 200 <=> new <= n
            /\ new <= n =>
                 answer =
                   [status |-> 200, first_size |-> old, second_size |-> new,
                    first_root |-> MerkleTreeHash(Leaves(l, old)),
                    second_root |-> MerkleTreeHash(Leaves(l, new)),
                    proof |-> IF old = 0 THEN <<>>
                              ELSE CtConsistencyProof(old, new, Leaves(l, n))]
<1>1. Len(Leaves(l, n)) = n
  BY LeavesOf
<1>2. new <= n => First(Leaves(l, n), old) = Leaves(l, old) /\ First(Leaves(l, n), new) = Leaves(l, new)
  BY FirstLeaves
<1>3. CASE new <= n
  BY <1>1, <1>2, <1>3 DEF ConsistencyProof
<1>4. CASE ~ (new <= n)
  BY <1>1, <1>4 DEF ConsistencyProof
<1> QED BY <1>3, <1>4

\* Between two roots of one log the service's proof verifies; and whichever log
\* it is taken from, a proof that verifies joins two roots of one log.
LEMMA ProofsJoin ==
  ASSUME NEW l, NEW n \in Nat, NEW old \in Nat, NEW new \in Nat, 0 < old, old <= new, new <= n,
         NEW from, NEW to
  PROVE  LET valid == VerifyConsistencyProof(old, new, MerkleTreeHash(Leaves(from, old)),
                        MerkleTreeHash(Leaves(to, new)), CtConsistencyProof(old, new, Leaves(l, n)))
         IN /\ valid => from = to
            /\ from = l /\ to = l => valid
<1> DEFINE proof == CtConsistencyProof(old, new, Leaves(l, n))
           first == MerkleTreeHash(Leaves(from, old))
           leaves == Leaves(l, n)
           other == Leaves(to, new)
<1>1. leaves \in Seq({Leaf(<<l, k>>) : k \in Nat}) /\ Len(leaves) = n
  BY LeavesOf
<1>2. other \in Seq({Leaf(<<to, k>>) : k \in Nat}) /\ Len(other) = new
  BY LeavesOf
<1>3. new \in 1 .. n /\ old \in 1 .. new /\ new \in 1 .. new /\ old \in 0 .. new /\ new \in 0 .. n
      /\ old \in 0 .. n /\ new \in 0 .. new
  OBVIOUS
<1>4. proof \in Seq(Hashes(leaves))
  <2> HIDE DEF leaves
  <2> QED BY <1>1, <1>3, PathsOfHashes DEF leaves
<1>5. First(leaves, new) = Leaves(l, new) /\ First(leaves, old) = Leaves(l, old)
      /\ First(other, new) = other /\ First(other, old) = Leaves(to, old)
  BY <1>3, FirstLeaves
<1> HIDE DEF leaves, other, proof, first
<1>6. VerifyConsistencyProof(old, new, first, MerkleTreeHash(First(other, new)), proof) <=>
        /\ first = MerkleTreeHash(First(other, old))
        /\ proof = CtConsistencyProof(old, new, other)
  BY <1>2, <1>3, <1>4, ConsistencyVerified
<1>7. VerifyConsistencyProof(old, new, first, MerkleTreeHash(First(leaves, new)), proof) <=>
        /\ first = MerkleTreeHash(First(leaves, old))
        /\ proof = CtConsistencyProof(old, new, leaves)
  BY <1>1, <1>3, <1>4, ConsistencyVerified
<1>8. ASSUME VerifyConsistencyProof(old, new, first, MerkleTreeHash(other), proof) PROVE from = to
  <2>1. MerkleTreeHash(Leaves(from, old)) = MerkleTreeHash(Leaves(to, old))
    BY <1>5, <1>6, <1>8 DEF first
  <2> QED BY <2>1, OneLog
<1>9. ASSUME from = l, to = l
      PROVE  VerifyConsistencyProof(old, new, first, MerkleTreeHash(other), proof)
  <2>1. other = First(leaves, new) /\ first = MerkleTreeHash(First(leaves, old))
    BY <1>5, <1>9 DEF first, other
  <2> QED BY <1>7, <2>1 DEF proof, leaves
<1> QED BY <1>8, <1>9 DEF proof, first, other
\* The sizes at which a publisher looks are those of trees in the tables.
LEMMA SizeRange ==
  ASSUME NEW s \in Sizes \cup {0}
  PROVE  s \in Nat /\ s \in 0 .. MaxTree
<1>1. CASE s \in Sizes
  <2>1. s \in 1 .. MaxTree /\ MaxTree \in Nat
    BY <1>1, AuditorConstants
  <2> QED BY <2>1
<1>2. CASE s = 0
  <2>1. MaxTree \in Nat
    BY AuditorConstants
  <2> QED BY <1>2, <2>1
<1> QED BY <1>1, <1>2

\* An entry of the tables: the root of a log at a size some publisher saw.
LEMMA RootOf ==
  ASSUME NEW l \in Logs, NEW n \in 0 .. MaxTree
  PROVE  Root[l][n] = MerkleTreeHash(Leaves(l, n))
  BY DEF Root

\* An entry of the tables: the answer to a question about two sizes.
LEMMA ProofOf ==
  ASSUME NEW l \in Logs, NEW n \in Sizes \cup {0}, NEW old \in Sizes \cup {0}, NEW new \in Sizes
  PROVE  Proof[l][n][old][new] = ConsistencyProof(Leaves(l, n), old, new)
  BY DEF Proof

\* A path between two heads verifies only within one log, and the service's own
\* path does, over the log of both.
LEMMA VerdictOf ==
  ASSUME NEW l \in Logs, NEW n \in Sizes \cup {0},
         NEW p \in [log : Logs \cup {None}, size : Sizes \cup {0}],
         NEW e \in [log : Logs, size : Sizes],
         0 < p.size, p.size < e.size, p.log \in Logs
  PROVE  /\ Verdict[l][n][p][e] = "consistent" => e.log = p.log
         /\ e.log = l /\ p.log = l => Verdict[l][n][p][e] # "inconsistent"
<1> DEFINE old == p.size
           new == e.size
           answer == Proof[l][n][old][new]
           held == Root[p.log][old]
           root == Root[e.log][new]
           proof == [answer EXCEPT !.first_root = held, !.second_root = root]
           path == CtConsistencyProof(old, new, Leaves(l, n))
<1>0. p.size \in Sizes \cup {0} /\ e.size \in Sizes /\ e.log \in Logs
  OBVIOUS
<1>1. old \in Sizes /\ new \in Sizes /\ n \in Nat /\ old \in Nat /\ new \in Nat /\ old <= new /\ 0 < old
      /\ old \in 0 .. MaxTree /\ new \in 0 .. MaxTree /\ e.log \in Logs
  <2>1. old \in Sizes \cup {0} /\ new \in Sizes \cup {0} /\ n \in Sizes \cup {0}
    BY <1>0
  <2>2. old \in Nat /\ new \in Nat /\ n \in Nat /\ old \in 0 .. MaxTree /\ new \in 0 .. MaxTree
    BY <2>1, SizeRange
  <2> QED BY <1>0, <2>2
<1>2. Verdict[l][n][p][e] =
        IF answer.status # 200 THEN "unanswered"
        ELSE IF VerifyConsistency(proof) THEN "consistent" ELSE "inconsistent"
  <2>1. Verdict[l][n][p][e] = Judge(answer, p, e)
    BY DEF Verdict
  <2>2. p.size # 0
    BY <1>1
  <2> QED BY <2>1, <2>2 DEF Judge
<1>3. answer = ConsistencyProof(Leaves(l, n), old, new)
  BY <1>1, ProofOf
<1>4. held = MerkleTreeHash(Leaves(p.log, old)) /\ root = MerkleTreeHash(Leaves(e.log, new))
  BY <1>1, RootOf
<1>5. CASE answer.status # 200
  BY <1>2, <1>5
<1>6. CASE answer.status = 200
  <2>1. new <= n
        /\ answer = [status |-> 200, first_size |-> old, second_size |-> new,
                     first_root |-> MerkleTreeHash(Leaves(l, old)),
                     second_root |-> MerkleTreeHash(Leaves(l, new)), proof |-> path]
    <3> HIDE DEF answer, old, new, path
    <3>1. new <= n
      BY <1>1, <1>3, <1>6, AnswerOf
    <3>2. answer = [status |-> 200, first_size |-> old, second_size |-> new,
                     first_root |-> MerkleTreeHash(Leaves(l, old)),
                     second_root |-> MerkleTreeHash(Leaves(l, new)),
                     proof |-> IF old = 0 THEN <<>> ELSE CtConsistencyProof(old, new, Leaves(l, n))]
      BY <1>1, <1>3, <3>1, AnswerOf
    <3>3. ~ (old = 0)
      BY <1>1
    <3> QED BY <3>1, <3>2, <3>3 DEF path
  <2>2. /\ proof.first_size = old /\ proof.second_size = new
        /\ proof.first_root = held /\ proof.second_root = root /\ proof.proof = path
    <3> HIDE DEF answer, old, new, path, held, root
    <3> QED BY <2>1
  <2> HIDE DEF answer, old, new, path, held, root, proof
  <2>3. VerifyConsistency(proof) <=> VerifyConsistencyProof(old, new, held, root, path)
    BY <2>2 DEF VerifyConsistency
  <2>4. /\ VerifyConsistencyProof(old, new, held, root, path) => p.log = e.log
        /\ p.log = l /\ e.log = l => VerifyConsistencyProof(old, new, held, root, path)
    BY <1>1, <1>4, <2>1, ProofsJoin DEF path
  <2> QED BY <1>2, <1>6, <2>3, <2>4
<1> QED BY <1>5, <1>6
-----------------------------------------------------------------------------
(* The monitor. *)

\* A monitor that holds a head holds the log it is a head of.
Monitored ==
  /\ pinned \in [log : Logs \cup {None}, size : Sizes \cup {0}]
  /\ IF pinned.size = 0 THEN pinned.log = None ELSE pinned.log \in Logs

AuditorInv == Inv /\ Monitored

\* A monitor starts with no head.
LEMMA AuditorInitInv == AuditorInit => AuditorInv
<1> SUFFICES ASSUME AuditorInit PROVE AuditorInv
  OBVIOUS
<1>1. Inv
  BY InitInv DEF AuditorInit
<1>2. Monitored
  BY DEF AuditorInit, Monitored
<1> QED BY <1>1, <1>2 DEF AuditorInv

\* The row a monitor takes: a later head of the log of the instance it asked.
LEMMA RowTaken ==
  ASSUME Inv, Monitored, NEW i \in Instances, NEW row \in PublicLogEntries(i, pinned.size)
  PROVE  /\ proc[i].log \in Logs /\ size[proc[i].log] \in Sizes \cup {0}
         /\ [log |-> row.uuid.log, size |-> row.uuid.size] \in [log : Logs, size : Sizes]
         /\ row.uuid.log = proc[i].log
         /\ row.uuid.size > pinned.size /\ row.uuid.size \in Sizes
<1> DEFINE l == proc[i].log
<1>1. l \in Logs /\ size[l] \in Sizes \cup {0} /\ receipts[l] \subseteq Rows
  BY DEF Inv, Typed, Processes
<1>2. row \in receipts[l] /\ row.size > pinned.size
  BY DEF PublicLogEntries, Since
<1>3. row.uuid.log = l /\ row.uuid.size = row.size /\ row.size \in Sizes
  BY <1>1, <1>2 DEF Inv, PublishedTruthful, Rows
<1> QED BY <1>1, <1>2, <1>3

\* What a monitor's step does to its head and its alarm.
LEMMA FollowStep ==
  ASSUME AuditorInv, NEW i \in Instances, Follow(i)
  PROVE  /\ Monitored'
         /\ pinned.size > 0 => pinned'.log = pinned.log
         /\ pinned'.size >= pinned.size
         /\ alarmed' => pinned.log # proc[i].log
<1> USE DEF AuditorInv
<1> DEFINE l == proc[i].log
           n == size[l]
<1>1. PICK row \in PublicLogEntries(i, pinned.size) :
        LET e == [log |-> row.uuid.log, size |-> row.uuid.size]
            verdict == Verdict[l][n][pinned][e]
        IN /\ pinned' = IF verdict = "consistent" THEN e ELSE pinned
           /\ alarmed' = (verdict = "inconsistent")
  BY DEF Follow
<1> DEFINE e == [log |-> row.uuid.log, size |-> row.uuid.size]
           verdict == Verdict[l][n][pinned][e]
<1>2. /\ l \in Logs /\ n \in Sizes \cup {0} /\ e \in [log : Logs, size : Sizes]
      /\ e.log = l /\ e.size > pinned.size /\ e.size \in Sizes
  BY RowTaken
<1>3. pinned' = (IF verdict = "consistent" THEN e ELSE pinned)
      /\ alarmed' = (verdict = "inconsistent")
  BY <1>1
<1>4. pinned.size \in Nat /\ e.size \in Nat
  <2>1. pinned.size \in Sizes \cup {0}
    BY DEF Monitored
  <2> HIDE DEF e
  <2>2. e.size \in Sizes \cup {0}
    BY <1>2
  <2> QED BY <2>1, <2>2, SizeRange
<1>5. pinned.size > 0 =>
        /\ verdict = "consistent" => e.log = pinned.log
        /\ e.log = l /\ pinned.log = l => verdict # "inconsistent"
  <2> SUFFICES ASSUME pinned.size > 0
               PROVE  /\ verdict = "consistent" => e.log = pinned.log
                      /\ e.log = l /\ pinned.log = l => verdict # "inconsistent"
    OBVIOUS
  <2>1. 0 < pinned.size /\ pinned.size < e.size /\ pinned.log \in Logs
        /\ pinned \in [log : Logs \cup {None}, size : Sizes \cup {0}]
    BY <1>2, <1>4 DEF Monitored
  <2> HIDE DEF l, n, e
  <2> QED BY <1>2, <2>1, VerdictOf
<1>6. pinned.size = 0 => pinned.log # l
  BY <1>2, AuditorConstants DEF Monitored
<1> HIDE DEF verdict, e, l, n
<1>7. Monitored' /\ (pinned.size > 0 => pinned'.log = pinned.log) /\ pinned'.size >= pinned.size
  <2>1. CASE verdict = "consistent"
    BY <1>2, <1>3, <1>4, <1>5, <2>1 DEF Monitored
  <2>2. CASE verdict # "consistent"
    BY <1>3, <1>4, <2>2 DEF Monitored
  <2> QED BY <2>1, <2>2
<1>8. alarmed' => pinned.log # l
  <2>1. CASE pinned.size = 0
    BY <1>6, <2>1
  <2>2. CASE pinned.size # 0
    <3>1. pinned.size > 0
      BY <1>4, <2>2
    <3>2. pinned.log = l => ~ alarmed'
      BY <1>2, <1>3, <1>5, <3>1
    <3> QED BY <3>2
  <2> QED BY <2>1, <2>2
<1> QED BY <1>7, <1>8 DEF l

\* No step of the service or of the monitor leaves the invariant.
LEMMA AuditorStepInv == AuditorInv /\ [AuditorNext]_auditorVars => AuditorInv'
<1> SUFFICES ASSUME AuditorInv, [AuditorNext]_auditorVars PROVE AuditorInv'
  OBVIOUS
<1>1. [Next]_vars
  BY DEF AuditorNext, auditorVars, Follow
<1>2. Inv'
  BY <1>1, StepInv DEF AuditorInv
<1>3. Monitored'
  <2>1. ASSUME NEW i \in Instances, Follow(i) PROVE Monitored'
    BY <2>1, FollowStep
  <2>2. CASE UNCHANGED pinned
    BY <2>2 DEF AuditorInv, Monitored
  <2> QED BY <2>1, <2>2 DEF AuditorNext, auditorVars
<1> QED BY <1>2, <1>3 DEF AuditorInv

\* The invariant holds in every state the service reaches beside a monitor.
THEOREM AuditorInvariance == AuditorSpec => []AuditorInv
  BY AuditorInitInv, AuditorStepInv, PTL DEF AuditorSpec

\* The monitor takes nothing from the service it watches: with it the publisher
\* behaves as without, so that every theorem on Spec holds beside a monitor.
THEOREM AuditorOnlyReads == AuditorSpec => Spec
<1>1. AuditorInit => Init
  BY DEF AuditorInit
<1>2. [AuditorNext]_auditorVars => [Next]_vars
  BY DEF AuditorNext, auditorVars, Follow
<1> QED BY <1>1, <1>2, PTL DEF AuditorSpec, Spec

\* A monitor that holds a head is never led to a head of another log, by any
\* instance and after any restart, and never back (service.py:1117-1129).
THEOREM MonitorStays == AuditorSpec => OneLogPinned
<1>1. AuditorInv /\ [AuditorNext]_auditorVars =>
        [pinned.size > 0 => pinned'.log = pinned.log /\ pinned'.size >= pinned.size]_auditorVars
  <2>1. ASSUME AuditorInv, NEW i \in Instances, Follow(i)
        PROVE  pinned.size > 0 => pinned'.log = pinned.log /\ pinned'.size >= pinned.size
    BY <2>1, FollowStep
  <2>2. ASSUME AuditorInv, UNCHANGED pinned
        PROVE  pinned.size > 0 => pinned'.log = pinned.log /\ pinned'.size >= pinned.size
    <3>1. pinned.size \in Sizes \cup {0}
      BY <2>2 DEF AuditorInv, Monitored
    <3>2. pinned.size \in Nat
      BY <3>1, SizeRange
    <3> QED BY <2>2, <3>2
  <2> QED BY <2>1, <2>2 DEF AuditorNext, auditorVars
<1> QED BY <1>1, AuditorInvariance, PTL DEF AuditorSpec, OneLogPinned

\* While it is served by the log it follows a monitor raises no alarm: every
\* consistency proof the service builds verifies (service.py:1092-1115).
THEOREM NoFalseAlarm == AuditorSpec => AlarmsJustified
<1>1. AuditorInv /\ [AuditorNext]_auditorVars =>
        [alarmed' /\ ~ alarmed =>
           \E i \in Instances : Up(i) /\ proc[i].log # pinned.log]_auditorVars
  <2>1. ASSUME AuditorInv, NEW i \in Instances, Follow(i), alarmed'
        PROVE  Up(i) /\ proc[i].log # pinned.log
    BY <2>1, FollowStep DEF Follow
  <2>2. ASSUME UNCHANGED alarmed
        PROVE  ~ (alarmed' /\ ~ alarmed)
    BY <2>2
  <2> QED BY <2>1, <2>2 DEF AuditorNext, auditorVars
<1> QED BY <1>1, AuditorInvariance, PTL DEF AuditorSpec, AlarmsJustified
-----------------------------------------------------------------------------
(* What the service's proofs prove. *)

\* A root of the database's log.
LEMMA RootDb ==
  ASSUME NEW n \in 0 .. MaxTree PROVE Root[Db][n] = MerkleTreeHash(Leaves(Db, n))
<1>1. Db \in Logs
  BY DEF Logs
<1> QED BY <1>1, RootOf

\* The dishonest paths are sequences, too.
LEMMA PathsTyped ==
  ASSUME NEW U, NEW path \in Seq(U), NEW other \in U, EmptyRoot \in U,
         NEW q \in Paths(path, other)
  PROVE  q \in Seq(U)
<1> DEFINE hashes == {path[k] : k \in 1 .. Len(path)} \cup {other, EmptyRoot}
<1>1. hashes \subseteq U
  OBVIOUS
<1> DEFINE whole == {path, <<other>> \o path}
           cut == IF path = <<>> THEN {} ELSE {Tail(path), First(path, Len(path) - 1)}
           longer == {Append(path, h) : h \in hashes}
           changed == UNION {{[path EXCEPT ![k] = h] : h \in hashes} : k \in 1 .. Len(path)}
<1>2. \/ q \in {path, <<other>> \o path}
      \/ path # <<>> /\ q \in {Tail(path), First(path, Len(path) - 1)}
      \/ \E h \in hashes : q = Append(path, h)
      \/ \E k \in 1 .. Len(path), h \in hashes : q = [path EXCEPT ![k] = h]
  <2>1. q \in whole \cup cut \cup longer \cup changed
    BY DEF Paths
  <2>2. CASE q \in whole
    BY <2>2
  <2>3. CASE q \in cut
    BY <2>3
  <2>4. CASE q \in longer
    <3> HIDE DEF hashes
    <3> QED BY <2>4
  <2>5. CASE q \in changed
    <3> HIDE DEF hashes
    <3> QED BY <2>5, Zenon
  <2> HIDE DEF whole, cut, longer, changed
  <2> QED BY <2>1, <2>2, <2>3, <2>4, <2>5, Zenon
<1> HIDE DEF hashes, whole, cut, longer, changed
<1>3. CASE q = path
  BY <1>3
<1>4. CASE q = <<other>> \o path
  BY <1>4
<1>5. CASE path # <<>> /\ q = Tail(path)
  BY <1>5
<1>6. CASE path # <<>> /\ q = First(path, Len(path) - 1)
  <2>1. Len(path) - 1 \in 0 .. Len(path)
    BY <1>6
  <2>2. SubSeq(path, 1, Len(path) - 1) \in Seq(U)
    BY <2>1
  <2> QED BY <1>6, <2>2 DEF First
<1>7. ASSUME NEW h \in hashes, q = Append(path, h) PROVE q \in Seq(U)
  BY <1>1, <1>7
<1>8. ASSUME NEW k \in 1 .. Len(path), NEW h \in hashes, q = [path EXCEPT ![k] = h]
      PROVE  q \in Seq(U)
  <2>1. h \in U
    BY <1>1
  <2>2. path \in [1 .. Len(path) -> U] /\ Len(path) \in Nat
    OBVIOUS
  <2>3. [path EXCEPT ![k] = h] \in [1 .. Len(path) -> U]
    BY <2>1, <2>2
  <2> QED BY <1>8, <2>2, <2>3
<1> QED BY <1>2, <1>3, <1>4, <1>5, <1>6, <1>7, <1>8

\* The proof of a leaf under a head is answered, and verifies.
LEMMA LeavesProvable ==
  ASSUME NEW n \in 1 .. MaxTree PROVE Provable[n]
<1> SUFFICES ASSUME NEW index \in 0 .. n - 1, NEW at \in index + 1 .. n
             PROVE  LET proof == InclusionProofCt(Leaves(Db, n), index, at)
                    IN proof.status = 200 /\ VerifyInclusion(proof, Root[Db][at])
  BY DEF Provable
<1> DEFINE sub == Leaves(Db, at)
           honest == InclusionAuditPath(index, sub)
           proof == InclusionProofCt(Leaves(Db, n), index, at)
           T == {Leaf(<<Db, k>>) : k \in Nat}
<1>1. /\ n \in Nat /\ at \in Nat /\ at \in 0 .. n /\ at \in 0 .. MaxTree /\ index \in Int /\ at > 0
      /\ index \in 0 .. at - 1 /\ ~ (index < 0) /\ ~ (at <= 0) /\ index < at /\ at <= n
  BY AuditorConstants
<1>2. sub \in Seq(T) /\ Len(sub) = at /\ sub # <<>>
  BY <1>1, LeavesOf
<1>3. Len(Leaves(Db, n)) = n /\ First(Leaves(Db, n), at) = sub
  BY <1>1, LeavesOf, FirstLeaves
<1>4. Root[Db][at] = MerkleTreeHash(sub)
  BY <1>1, RootDb
<1> HIDE DEF sub, T, honest
<1>5. proof = [status |-> 200, leaf_index |-> index, tree_size |-> at,
               leaf_hash |-> sub[index + 1], audit_path |-> honest,
               root_hash |-> MerkleTreeHash(sub)]
  BY <1>1, <1>3 DEF InclusionProofCt, honest
<1> HIDE DEF proof
<1>6. /\ proof.status = 200 /\ proof.leaf_index = index /\ proof.tree_size = at
      /\ proof.leaf_hash = sub[index + 1] /\ proof.audit_path = honest
      /\ proof.root_hash = MerkleTreeHash(sub)
  BY <1>5
<1>7. honest \in Seq(Hashes(sub))
  BY <1>1, <1>2, PathsOfHashes DEF honest
<1>8. VerifyInclusionPath(sub[index + 1], index, at, honest, MerkleTreeHash(sub))
  BY <1>1, <1>2, <1>7, InclusionVerified DEF honest
<1> QED BY <1>4, <1>6, <1>8 DEF proof, VerifyInclusion

\* A path under a head's root proves the leaf at its index, and that one alone.
LEMMA NoLeafForged ==
  ASSUME NEW n \in 1 .. MaxTree PROVE Unforgeable[n]
<1> DEFINE leaves == Leaves(Db, n)
           forged == Leaf(<<None, 0>>)
           claimed(k) == IF k = n THEN forged ELSE leaves[k + 1]
<1> SUFFICES ASSUME NEW index \in 0 .. n + 1, NEW at \in 0 .. n - 1, NEW k \in 0 .. n,
                    NEW path \in Paths(InclusionAuditPath(at, leaves), forged),
                    VerifyInclusionPath(claimed(k), index, n, path, Root[Db][n])
             PROVE  k = index
  BY DEF Unforgeable
<1> DEFINE U == Hashes(leaves) \cup {forged, EmptyRoot}
           T == {Leaf(<<Db, j>>) : j \in Nat}
<1>1. n \in Nat /\ n > 0 /\ n \in 0 .. MaxTree /\ index \in Int
  BY AuditorConstants
<1>2. /\ leaves \in Seq(T) /\ Len(leaves) = n /\ leaves # <<>>
      /\ \A j \in 1 .. n : leaves[j] = Leaf(<<Db, j>>)
  BY <1>1, LeavesOf
<1>3. Root[Db][n] = MerkleTreeHash(leaves)
  BY <1>1, RootDb
<1> HIDE DEF leaves, T
<1>4. InclusionAuditPath(at, leaves) \in Seq(Hashes(leaves))
  BY <1>2, PathsOfHashes
<1>5. path \in Seq(U)
  <2> DEFINE honest == InclusionAuditPath(at, leaves)
             H == Hashes(leaves)
             B == {forged, EmptyRoot}
  <2>1. path \in Paths(honest, forged) /\ honest \in Seq(H)
    BY <1>4
  <2>2. forged \in U /\ EmptyRoot \in U /\ U = H \cup B
    OBVIOUS
  <2> HIDE DEF honest, H, B, U, forged
  <2>3. honest \in Seq(U)
    BY <2>1, <2>2, SeqWider
  <2> QED BY <2>1, <2>2, <2>3, PathsTyped
<1> HIDE DEF U, claimed
<1>6. index \in 0 .. n - 1 /\ claimed(k) = leaves[index + 1]
  BY <1>1, <1>2, <1>3, <1>5, InclusionVerified
<1>7. index + 1 \in 1 .. n /\ leaves[index + 1] = Leaf(<<Db, index + 1>>)
  BY <1>1, <1>2, <1>6
<1>8. CASE k = n
  <2>1. Leaf(<<None, 0>>) = Leaf(<<Db, index + 1>>)
    BY <1>6, <1>7, <1>8 DEF claimed
  <2>2. 0 = index + 1
    BY <2>1, LeafInjective
  <2> QED BY <1>6, <2>2
<1>9. CASE k # n
  <2>1. k + 1 \in 1 .. n
    BY <1>1, <1>9
  <2>2. claimed(k) = Leaf(<<Db, k + 1>>)
    BY <1>2, <1>9, <2>1 DEF claimed
  <2>3. Leaf(<<Db, k + 1>>) = Leaf(<<Db, index + 1>>)
    BY <1>6, <1>7, <2>2
  <2>4. k + 1 = index + 1
    BY <2>3, LeafInjective
  <2> QED BY <1>6, <2>4
<1> QED BY <1>8, <1>9

\* A log and its fork at leaf d have the same first m leaves when d >= m.
LEMMA ForkedFirst ==
  ASSUME NEW n \in Nat, NEW m \in 1 .. n, NEW d \in 0 .. n
  PROVE  LET T == {Leaf(<<Db, k>>) : k \in Nat} \cup {Leaf(<<None, k>>) : k \in Nat}
         IN /\ Forked(d, n) \in Seq(T) /\ Len(Forked(d, n)) = n
            /\ MerkleTreeHash(Leaves(Db, m)) = MerkleTreeHash(First(Forked(d, n), m)) <=> d >= m
<1> DEFINE A == {Leaf(<<Db, k>>) : k \in Nat}
           B == {Leaf(<<None, k>>) : k \in Nat}
           T == A \cup B
           fork == Forked(d, n)
           log == Leaves(Db, m)
           part == First(fork, m)
<1>1. m \in Nat /\ d \in Nat /\ m <= n /\ m \in 1 .. m /\ \A k \in 1 .. m : k \in 1 .. n /\ k <= m
  OBVIOUS
<1>2. /\ log \in Seq(A) /\ Len(log) = m
      /\ \A k \in 1 .. m : log[k] = Leaf(<<Db, k>>)
  BY <1>1, LeavesOf
<1>3. \A k \in 1 .. n : (IF k <= d THEN Leaf(<<Db, k>>) ELSE Leaf(<<None, k>>)) \in T
  OBVIOUS
<1>4. /\ fork \in Seq(T) /\ Len(fork) = n
      /\ \A k \in 1 .. n : fork[k] = IF k <= d THEN Leaf(<<Db, k>>) ELSE Leaf(<<None, k>>)
  <2> HIDE DEF T
  <2> QED BY <1>3 DEF Forked
<1> HIDE DEF A, B, fork, log
<1>5. log \in Seq(T)
  BY <1>2, SeqWider
<1> HIDE DEF T
<1>6. part \in Seq(T) /\ Len(part) = m /\ \A k \in 1 .. m : part[k] = fork[k]
  BY <1>1, <1>4 DEF First
<1> HIDE DEF part
<1>7. MerkleTreeHash(log) = MerkleTreeHash(part) <=> log = part
  BY <1>2, <1>5, <1>6, OneRoot
<1>8. ASSUME d >= m PROVE log = part
  <2>1. \A k \in 1 .. m : k <= d
    BY <1>1, <1>8
  <2>2. \A k \in 1 .. m : log[k] = part[k]
    BY <1>1, <1>2, <1>4, <1>6, <2>1
  <2> QED BY <1>2, <1>5, <1>6, <2>2, SeqEqual
<1>9. ASSUME log = part PROVE d >= m
  <2> SUFFICES ASSUME ~ (m <= d) PROVE FALSE
    BY <1>1
  <2>1. log[m] = Leaf(<<Db, m>>) /\ part[m] = Leaf(<<None, m>>)
    BY <1>1, <1>2, <1>4, <1>6
  <2>2. Db = None
    BY <1>9, <2>1, LeafInjective
  <2>3. Db \in Logs
    BY DEF Logs
  <2> QED BY <2>2, <2>3, AuditorConstants
<1> QED BY <1>4, <1>7, <1>8, <1>9 DEF T, A, B, fork, log, part

\* A path connects two heads exactly when one log holds the leaves of both.
LEMMA HeadsConnected ==
  ASSUME NEW n \in 1 .. MaxTree PROVE Connected[n]
<1> SUFFICES ASSUME NEW m \in 1 .. n, NEW d \in 0 .. n,
                    NEW path \in Paths(ConsistencyProof(Forked(d, n), m, n).proof, Root[Db][m])
             PROVE  VerifyConsistencyProof(m, n, Root[Db][m],
                      ConsistencyProof(Forked(d, n), m, n).second_root, path)
                    <=> d >= m /\ path = ConsistencyProof(Forked(d, n), m, n).proof
  BY DEF Connected
<1> DEFINE T == {Leaf(<<Db, k>>) : k \in Nat} \cup {Leaf(<<None, k>>) : k \in Nat}
           fork == Forked(d, n)
           answer == ConsistencyProof(fork, m, n)
           honest == CtConsistencyProof(m, n, fork)
           root == MerkleTreeHash(First(fork, n))
           old == Root[Db][m]
           B == {old, EmptyRoot}
           H == Hashes(fork)
           U == H \cup B
<1>1. /\ n \in Nat /\ m \in Nat /\ m \in 0 .. MaxTree /\ ~ (m < 0) /\ ~ (n < m) /\ ~ (n > n)
      /\ ~ (m = 0) /\ n \in 1 .. n
  BY AuditorConstants
<1>2. /\ fork \in Seq(T) /\ Len(fork) = n
      /\ MerkleTreeHash(Leaves(Db, m)) = MerkleTreeHash(First(fork, m)) <=> d >= m
  BY <1>1, ForkedFirst
<1>3. old = MerkleTreeHash(Leaves(Db, m))
  BY <1>1, RootDb
<1> HIDE DEF T, fork
<1>4. answer.proof = honest /\ answer.second_root = root
  BY <1>1, <1>2 DEF ConsistencyProof
<1>5. honest \in Seq(H)
  BY <1>1, <1>2, PathsOfHashes
<1>6. old \in U /\ EmptyRoot \in U
  OBVIOUS
<1>7. path \in Paths(honest, old)
  BY <1>4 DEF fork
<1> HIDE DEF answer, honest, root, old, B, H
<1>8. honest \in Seq(U)
  BY <1>5, SeqWider
<1> HIDE DEF U
<1>9. path \in Seq(U)
  BY <1>6, <1>7, <1>8, PathsTyped
<1>10. VerifyConsistencyProof(m, n, old, root, path) <=>
         old = MerkleTreeHash(First(fork, m)) /\ path = honest
  BY <1>1, <1>2, <1>9, ConsistencyVerified DEF root, honest
<1>11. VerifyConsistencyProof(m, n, old, answer.second_root, path) <=>
         d >= m /\ path = answer.proof
  BY <1>2, <1>3, <1>4, <1>10
<1> QED BY <1>11 DEF answer, old, fork

\* The sizes a log reaches are among those the tables cover.
LEMMA SizesCovered ==
  ASSUME Inv, NEW i \in Instances, NEW n \in 1 .. size[proc[i].log] PROVE n \in 1 .. MaxTree
<1>1. size[proc[i].log] \in Sizes \cup {0}
  BY DEF Inv, Typed, Processes
<1>2. size[proc[i].log] \in 0 .. MaxTree
  BY <1>1, SizeRange
<1>3. MaxTree \in Nat
  BY AuditorConstants
<1> QED BY <1>2, <1>3

\* The service proves each leaf under each head that covers it, at its own
\* place and no other (ct.py:77, 96; service.py:1038).
THEOREM InclusionIsExact == AuditorSpec => []InclusionExact
<1>1. AuditorInv => InclusionExact
  BY SizesCovered, LeavesProvable, NoLeafForged DEF AuditorInv, InclusionExact
<1> QED BY <1>1, AuditorInvariance, PTL

\* The service proves every extension of a head, and nothing else: no path
\* leads to a head whose first leaves differ (ct.py:136, 163).
THEOREM ConsistencyIsExact == AuditorSpec => []ConsistencyExact
<1>1. AuditorInv => ConsistencyExact
  BY SizesCovered, HeadsConnected DEF AuditorInv, ConsistencyExact
<1> QED BY <1>1, AuditorInvariance, PTL
=============================================================================
