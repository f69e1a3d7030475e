----------------------------- MODULE SinksProofs -----------------------------
(***************************************************************************)
(* Proofs about Sinks, for any number of sinks and writes, any transforms   *)
(* and batches, whatever the network, the catalog and other clients do:     *)
(* what a RestCatalogSink writes is committed at most once, and once when   *)
(* it says Ok; the rows of an OpenLakeSink stay where they were put; and    *)
(* the stored batches read back as the events, but for what they lose.      *)
(***************************************************************************)
EXTENDS Sinks, SequenceTheorems, DataInduction

USE DEF restVars, lakeVars, vars

-----------------------------------------------------------------------------
(* Types.                                                                  *)

EventLists == {Handed(batch) : batch \in Batches}
TableSet   == {events[1].source.table : events \in EventLists}
CountSet   == {Len(events) : events \in EventLists}

WriteSet   == [sink : AllSinks, events : EventLists, result : {"open", "ok", "err"}]
RequestSet == [kind : {"create", "commit"}, call : Nat, table : TableSet, count : CountSet]
CommitSet  == [call : Nat, table : TableSet, count : CountSet]

\* The types the argument needs, and what a sink at work knows of its call.
Shape ==
  /\ writes \in Seq(WriteSet)
  /\ call \in [AllSinks -> Nat]
  /\ stage \in [AllSinks -> {"idle", "create", "commit", "append"}]
  /\ answer \in [RestSinks -> {"ok", "conflict", "refused", Null}]
  /\ net \in SUBSET RequestSet
  /\ commits \in Seq(CommitSet)
  /\ \A s \in AllSinks : stage[s] # "idle" =>
       /\ call[s] \in DOMAIN writes
       /\ writes[call[s]].sink = s
       /\ writes[call[s]].result = "open"
       /\ writes[call[s]].events # <<>>

\* A request and a commit are those of a write of a REST sink, with its table
\* and count.
Of(record, n, ws) ==
  /\ n \in DOMAIN ws /\ ws[n].sink \in RestSinks
  /\ record.table = ws[n].events[1].source.table
  /\ record.count = Len(ws[n].events)

Matches ==
  /\ \A r \in net : Of(r, r.call, writes)
  /\ \A i \in DOMAIN commits : Of(commits[i], commits[i].call, writes)

Committed(n, list) == \E i \in DOMAIN list : list[i].call = n

Asked(n, requests) == \E r \in requests : r.kind = "commit" /\ r.call = n

\* A write is asked to be committed at most once, and not before its table is
\* answered for; it says Ok only when it was committed.
OnceInv ==
  /\ \A i, j \in DOMAIN commits : commits[i].call = commits[j].call => i = j
  /\ \A n \in Nat : Asked(n, net) => ~Committed(n, commits)
  /\ \A s \in RestSinks :
       /\ stage[s] = "create" => ~Asked(call[s], net) /\ ~Committed(call[s], commits)
       /\ stage[s] = "commit" /\ answer[s] = "ok" => Committed(call[s], commits)
  /\ \A n \in DOMAIN writes :
       writes[n].sink \in RestSinks /\ writes[n].events # <<>> /\ writes[n].result = "ok"
         => Committed(n, commits)

Inv == Shape /\ Matches /\ OnceInv

-----------------------------------------------------------------------------
(* What all steps do to the list of writes.                                 *)

\* Writes are added, and their results change: nothing else does.
WritesKept ==
  \A n \in DOMAIN writes :
    /\ n \in DOMAIN writes'
    /\ writes'[n].sink = writes[n].sink
    /\ writes'[n].events = writes[n].events

LEMMA SinkKinds == ASSUME NEW s \in RestSinks PROVE s \in AllSinks /\ s \notin LakeSinks
BY SinksAssumption DEF AllSinks

\* The end of a call.
LEMMA Returned ==
  ASSUME Shape, NEW s \in AllSinks, NEW result \in {"ok", "err"},
         stage[s] # "idle", Return(s, result)
  PROVE  /\ WritesKept
         /\ writes' \in Seq(WriteSet) /\ DOMAIN writes' = DOMAIN writes
         /\ call' \in [AllSinks -> Nat]
         /\ stage' \in [AllSinks -> {"idle", "create", "commit", "append"}]
         /\ stage'[s] = "idle"
         /\ \A n \in DOMAIN writes : n # call[s] => writes'[n] = writes[n]
         /\ writes'[call[s]].result = result
         /\ \A other \in AllSinks \ {s} :
              stage'[other] = stage[other] /\ call'[other] = call[other]
<1>1. call[s] \in DOMAIN writes /\ writes[call[s]] \in WriteSet
  BY DEF Shape
<1>2. writes' = [writes EXCEPT ![call[s]] = [@ EXCEPT !.result = result]]
  BY DEF Return
<1>3. [writes[call[s]] EXCEPT !.result = result] \in WriteSet
  BY <1>1 DEF WriteSet
<1>4. /\ writes' \in Seq(WriteSet) /\ DOMAIN writes' = DOMAIN writes
      /\ \A n \in DOMAIN writes : n # call[s] => writes'[n] = writes[n]
      /\ writes'[call[s]] = [writes[call[s]] EXCEPT !.result = result]
  BY <1>1, <1>2, <1>3 DEF Shape
<1>5. /\ writes'[call[s]].result = result
      /\ writes'[call[s]].sink = writes[call[s]].sink
      /\ writes'[call[s]].events = writes[call[s]].events
  BY <1>1, <1>4 DEF WriteSet
<1>6. /\ call' \in [AllSinks -> Nat]
      /\ stage' \in [AllSinks -> {"idle", "create", "commit", "append"}]
      /\ stage'[s] = "idle"
      /\ \A other \in AllSinks \ {s} :
           stage'[other] = stage[other] /\ call'[other] = call[other]
  BY DEF Return, Shape, NoCall
<1>7. WritesKept
  BY <1>4, <1>5 DEF WritesKept
<1>8. QED
  BY <1>4, <1>5, <1>6, <1>7

\* The beginning of a call.
LEMMA Entered ==
  ASSUME Shape, NEW s \in AllSinks, NEW batch \in Batches,
         NEW first \in {"idle", "create", "commit", "append"},
         Enter(s, batch, first)
  PROVE  /\ WritesKept
         /\ writes' \in Seq(WriteSet)
         /\ Len(writes) + 1 \notin DOMAIN writes
         /\ DOMAIN writes' = DOMAIN writes \cup {Len(writes) + 1}
         /\ \A n \in DOMAIN writes : writes'[n] = writes[n]
         /\ writes'[Len(writes) + 1].sink = s
         /\ writes'[Len(writes) + 1].events = Handed(batch)
         /\ writes'[Len(writes) + 1].result = IF Handed(batch) = <<>> THEN "ok" ELSE "open"
         /\ call' \in [AllSinks -> Nat]
         /\ stage' \in [AllSinks -> {"idle", "create", "commit", "append"}]
         /\ Handed(batch) = <<>> => call' = call /\ stage' = stage
         /\ Handed(batch) # <<>> => call'[s] = Len(writes) + 1 /\ stage'[s] = first
         /\ \A other \in AllSinks \ {s} :
              stage'[other] = stage[other] /\ call'[other] = call[other]
<1> DEFINE new == [sink |-> s, events |-> Handed(batch),
                   result |-> IF Handed(batch) = <<>> THEN "ok" ELSE "open"]
<1>1. new \in WriteSet
  BY DEF WriteSet, EventLists
<1>2. writes' = Append(writes, new)
  BY DEF Enter
<1>3. /\ writes' \in Seq(WriteSet)
      /\ Len(writes) + 1 \notin DOMAIN writes
      /\ DOMAIN writes' = DOMAIN writes \cup {Len(writes) + 1}
      /\ \A n \in DOMAIN writes : writes'[n] = writes[n]
      /\ writes'[Len(writes) + 1] = new
  <2> HIDE DEF new
  <2>1. writes \in Seq(WriteSet)
    BY DEF Shape
  <2>2. QED
    BY <1>1, <1>2, <2>1
<1>4. /\ call' \in [AllSinks -> Nat]
      /\ stage' \in [AllSinks -> {"idle", "create", "commit", "append"}]
      /\ Handed(batch) = <<>> => call' = call /\ stage' = stage
      /\ Handed(batch) # <<>> => call'[s] = Len(writes) + 1 /\ stage'[s] = first
      /\ \A other \in AllSinks \ {s} :
           stage'[other] = stage[other] /\ call'[other] = call[other]
  <2>1. Len(writes) + 1 \in Nat
    BY DEF Shape
  <2>2. CASE Handed(batch) = <<>>
    BY <2>2 DEF Enter, Shape
  <2>3. CASE Handed(batch) # <<>>
    BY <2>1, <2>3 DEF Enter, Shape
  <2>4. QED
    BY <2>2, <2>3
<1>5. WritesKept
  BY <1>3 DEF WritesKept
<1>6. QED
  BY <1>3, <1>4, <1>5

-----------------------------------------------------------------------------
(* The actions, one by one.                                                 *)

LEMMA OfKept ==
  ASSUME WritesKept, NEW record, NEW n, Of(record, n, writes)
  PROVE  Of(record, n, writes')
BY DEF WritesKept, Of

\* Requests of writes that are in the list.
LEMMA RequestType ==
  ASSUME NEW n \in Nat, NEW events \in EventLists, NEW k \in {"create", "commit"}
  PROVE  Request(k, n, events) \in RequestSet
BY DEF Request, RequestSet, TableSet, CountSet

\* A call ends, with Ok if it was committed, and nothing else changes.
LEMMA ReturnKeeps ==
  ASSUME Inv, NEW s \in AllSinks, NEW result \in {"ok", "err"},
         stage[s] # "idle", Return(s, result),
         result = "ok" => s \notin RestSinks \/ Committed(call[s], commits),
         UNCHANGED <<net, answer, commits>>
  PROVE  Inv'
<1>1. /\ WritesKept
      /\ writes' \in Seq(WriteSet) /\ DOMAIN writes' = DOMAIN writes
      /\ call' \in [AllSinks -> Nat]
      /\ stage' \in [AllSinks -> {"idle", "create", "commit", "append"}]
      /\ stage'[s] = "idle"
      /\ \A n \in DOMAIN writes : n # call[s] => writes'[n] = writes[n]
      /\ writes'[call[s]].result = result
      /\ \A other \in AllSinks \ {s} :
           stage'[other] = stage[other] /\ call'[other] = call[other]
  BY Returned DEF Inv
<1>2. Shape'
  <2>1. ASSUME NEW other \in AllSinks, stage'[other] # "idle"
        PROVE  /\ call'[other] \in DOMAIN writes'
               /\ writes'[call'[other]].sink = other
               /\ writes'[call'[other]].result = "open"
               /\ writes'[call'[other]].events # <<>>
    <3>1. other # s /\ stage[other] # "idle" /\ call'[other] = call[other]
      BY <1>1, <2>1
    <3>2. call[other] # call[s]
      BY <3>1 DEF Inv, Shape
    <3>3. QED
      BY <1>1, <3>1, <3>2 DEF Inv, Shape
  <2>2. QED
    BY <1>1, <2>1 DEF Inv, Shape
<1>3. Matches'
  BY <1>1, OfKept DEF Inv, Matches
<1>4. \A n : (Committed(n, commits') <=> Committed(n, commits)) /\ (Asked(n, net') <=> Asked(n, net))
  BY DEF Committed, Asked
<1>5. OnceInv'
  <2>1. \A n \in Nat : Asked(n, net') => ~Committed(n, commits')
    BY <1>4 DEF Inv, OnceInv
  <2>2. ASSUME NEW other \in RestSinks
        PROVE  /\ stage'[other] = "create" => ~Asked(call'[other], net') /\ ~Committed(call'[other], commits')
               /\ stage'[other] = "commit" /\ answer'[other] = "ok" => Committed(call'[other], commits')
    <3>1. CASE other = s
      BY <1>1, <3>1
    <3>2. CASE other # s
      <4>1. stage'[other] = stage[other] /\ call'[other] = call[other]
        BY <1>1, <3>2, SinkKinds
      <4>2. QED
        BY <1>4, <4>1 DEF Inv, OnceInv
    <3>3. QED
      BY <3>1, <3>2
  <2>3. ASSUME NEW n \in DOMAIN writes', writes'[n].sink \in RestSinks,
               writes'[n].events # <<>>, writes'[n].result = "ok"
        PROVE  Committed(n, commits')
    <3>1. n \in DOMAIN writes /\ writes[n].sink \in RestSinks /\ writes[n].events # <<>>
      BY <1>1, <2>3 DEF WritesKept
    <3>2. CASE n = call[s]
      <4>1. writes[n].sink = s
        BY <3>2 DEF Inv, Shape
      <4>2. QED
        BY <1>1, <1>4, <2>3, <3>1, <3>2, <4>1
    <3>3. CASE n # call[s]
      BY <1>1, <1>4, <2>3, <3>1, <3>3 DEF Inv, OnceInv
    <3>4. QED
      BY <3>2, <3>3
  <2>4. QED
    BY <2>1, <2>2, <2>3 DEF Inv, OnceInv
<1>6. QED
  BY <1>2, <1>3, <1>5 DEF Inv

\* A call begins: if it has events, of a REST sink, with a request.
LEMMA EnterKeeps ==
  ASSUME Inv, NEW s \in AllSinks, NEW batch \in Batches,
         NEW first \in {"idle", "create", "commit", "append"},
         Enter(s, batch, first),
         answer' \in [RestSinks -> {"ok", "conflict", "refused", Null}],
         \A other \in RestSinks \ {s} : answer'[other] = answer[other],
         s \in RestSinks => answer'[s] = Null,
         commits' = commits,
         \/ net' = net /\ (Handed(batch) = <<>> \/ s \notin RestSinks)
         \/ /\ Handed(batch) # <<>> /\ s \in RestSinks
            /\ first \in {"create", "commit"}
            /\ net' = net \cup {Request(first, Len(writes) + 1, Handed(batch))}
  PROVE  Inv'
<1> DEFINE new == Len(writes) + 1
<1>1. /\ WritesKept
      /\ writes' \in Seq(WriteSet)
      /\ new \notin DOMAIN writes
      /\ DOMAIN writes' = DOMAIN writes \cup {new}
      /\ \A n \in DOMAIN writes : writes'[n] = writes[n]
      /\ writes'[new].sink = s
      /\ writes'[new].events = Handed(batch)
      /\ writes'[new].result = IF Handed(batch) = <<>> THEN "ok" ELSE "open"
      /\ call' \in [AllSinks -> Nat]
      /\ stage' \in [AllSinks -> {"idle", "create", "commit", "append"}]
      /\ Handed(batch) = <<>> => call' = call /\ stage' = stage
      /\ Handed(batch) # <<>> => call'[s] = new /\ stage'[s] = first
      /\ \A other \in AllSinks \ {s} :
           stage'[other] = stage[other] /\ call'[other] = call[other]
  BY Entered DEF Inv
<1>2. new \in Nat
  BY DEF Inv, Shape
<1> HIDE DEF new
<1>3. stage[s] = "idle"
  <2>1. call[s] = 0
    BY DEF Enter, NoCall
  <2>2. 0 \notin DOMAIN writes
    BY DEF Inv, Shape
  <2>3. QED
    BY <2>1, <2>2 DEF Inv, Shape
<1>4. Shape'
  <2>1. net' \in SUBSET RequestSet
    <3>1. Handed(batch) \in EventLists
      BY DEF EventLists
    <3>2. QED
      BY <1>2, <3>1, RequestType DEF Inv, Shape, new
  <2>2. ASSUME NEW other \in AllSinks, stage'[other] # "idle"
        PROVE  /\ call'[other] \in DOMAIN writes'
               /\ writes'[call'[other]].sink = other
               /\ writes'[call'[other]].result = "open"
               /\ writes'[call'[other]].events # <<>>
    <3>1. CASE other = s
      BY <1>1, <1>3, <2>2, <3>1
    <3>2. CASE other # s
      BY <1>1, <2>2, <3>2 DEF Inv, Shape
    <3>3. QED
      BY <3>1, <3>2
  <2>3. commits' \in Seq(CommitSet)
    BY DEF Inv, Shape
  <2>4. QED
    BY <1>1, <2>1, <2>2, <2>3 DEF Shape
<1>5. Matches'
  <2>1. ASSUME NEW r \in net', r \notin net
        PROVE  Of(r, r.call, writes')
    <3>1. s \in RestSinks /\ r = Request(first, new, Handed(batch))
      BY <2>1 DEF new
    <3>2. QED
      BY <1>1, <3>1 DEF Of, Request
  <2>2. ASSUME NEW r \in net
        PROVE  Of(r, r.call, writes')
    BY <1>1, OfKept DEF Inv, Matches
  <2>3. ASSUME NEW i \in DOMAIN commits
        PROVE  Of(commits[i], commits[i].call, writes')
    BY <1>1, OfKept DEF Inv, Matches
  <2>4. QED
    BY <2>1, <2>2, <2>3 DEF Matches
<1>6. \A n : Committed(n, commits') <=> Committed(n, commits)
  BY DEF Committed
<1>7. \A n : n # new => (Asked(n, net') <=> Asked(n, net))
  <2>1. \A n : n # new => Request(first, new, Handed(batch)).call # n
    BY DEF Request
  <2>2. QED
    BY <2>1 DEF Asked, new
<1>8. ~Committed(new, commits) /\ ~Asked(new, net)
  BY <1>1 DEF Inv, Matches, Of, Committed, Asked
<1>9. OnceInv'
  <2>1. \A n \in Nat : Asked(n, net') => ~Committed(n, commits')
    BY <1>6, <1>7, <1>8 DEF Inv, OnceInv
  <2>2. ASSUME NEW other \in RestSinks
        PROVE  /\ stage'[other] = "create" => ~Asked(call'[other], net') /\ ~Committed(call'[other], commits')
               /\ stage'[other] = "commit" /\ answer'[other] = "ok" => Committed(call'[other], commits')
    <3>1. CASE other # s
      <4>1. stage'[other] = stage[other] /\ call'[other] = call[other] /\ answer'[other] = answer[other]
        BY <1>1, <3>1, SinkKinds
      <4>2. stage[other] # "idle" => call[other] \in DOMAIN writes
        BY SinkKinds DEF Inv, Shape
      <4>3. stage[other] # "idle" =>
              /\ Asked(call[other], net') <=> Asked(call[other], net)
              /\ Committed(call[other], commits') <=> Committed(call[other], commits)
        BY <1>1, <1>6, <1>7, <4>2
      <4>4. QED
        BY <4>1, <4>3 DEF Inv, OnceInv
    <3>2. CASE other = s /\ Handed(batch) = <<>>
      BY <1>1, <1>3, <3>2
    <3>3. CASE other = s /\ Handed(batch) # <<>>
      <4>1. call'[other] = new /\ stage'[other] = first /\ answer'[other] = Null
        BY <1>1, <3>3
      <4>2. Null # "ok"
        BY SinksAssumption
      <4>3. stage'[other] = "create" => ~Asked(new, net')
        <5>1. stage'[other] = "create" => Request(first, new, Handed(batch)).kind # "commit"
          BY <4>1 DEF Request
        <5>2. QED
          BY <1>8, <5>1 DEF Asked, new
      <4>4. QED
        BY <1>6, <1>8, <4>1, <4>2, <4>3
    <3>4. QED
      BY <3>1, <3>2, <3>3
  <2>3. ASSUME NEW n \in DOMAIN writes', writes'[n].sink \in RestSinks,
               writes'[n].events # <<>>, writes'[n].result = "ok"
        PROVE  Committed(n, commits')
    <3>1. n # new
      BY <1>1, <2>3
    <3>2. QED
      BY <1>1, <1>6, <2>3, <3>1 DEF Inv, OnceInv
  <2>4. QED
    BY <2>1, <2>2, <2>3 DEF Inv, OnceInv
<1>10. QED
  BY <1>4, <1>5, <1>9 DEF Inv

\* A table is there, and the commit is asked for.
LEMMA TableAnsweredKeeps ==
  ASSUME Inv, NEW s \in RestSinks, TableAnswered(s)
  PROVE  Inv'
<1> DEFINE ask == Request("commit", call[s], writes[call[s]].events)
<1>1. /\ s \in AllSinks /\ stage[s] = "create"
      /\ call[s] \in DOMAIN writes /\ call[s] \in Nat
      /\ writes[call[s]].sink = s /\ writes[call[s]].events \in EventLists
  <2>1. s \in AllSinks /\ stage[s] = "create"
    BY SinkKinds DEF TableAnswered
  <2>2. /\ call[s] \in DOMAIN writes /\ call[s] \in Nat
        /\ writes[call[s]].sink = s
    BY <2>1 DEF Inv, Shape
  <2>3. writes[call[s]] \in WriteSet
    BY <2>2 DEF Inv, Shape
  <2>4. QED
    BY <2>1, <2>2, <2>3 DEF WriteSet
<1>2. /\ net' = net \cup {ask} /\ ask.kind = "commit" /\ ask.call = call[s]
      /\ writes' = writes /\ call' = call /\ commits' = commits
      /\ stage'[s] = "commit" /\ answer'[s] = Null
      /\ \A other \in AllSinks \ {s} : stage'[other] = stage[other]
      /\ \A other \in RestSinks \ {s} : answer'[other] = answer[other]
      /\ stage' \in [AllSinks -> {"idle", "create", "commit", "append"}]
      /\ answer' \in [RestSinks -> {"ok", "conflict", "refused", Null}]
  BY <1>1 DEF TableAnswered, Inv, Shape, Request
<1>3. ask \in RequestSet /\ Of(ask, call[s], writes)
  <2>1. ask \in RequestSet
    BY <1>1, RequestType
  <2>2. QED
    BY <1>1, <2>1 DEF Of, Request
<1> HIDE DEF ask
<1>4. Shape'
  BY <1>1, <1>2, <1>3 DEF Inv, Shape
<1>5. Matches'
  BY <1>2, <1>3 DEF Inv, Matches
<1>6. \A n : Asked(n, net') <=> Asked(n, net) \/ n = call[s]
  BY <1>2 DEF Asked
<1>7. OnceInv'
  <2>1. \A n \in Nat : Asked(n, net') => ~Committed(n, commits')
    BY <1>1, <1>2, <1>6 DEF Inv, OnceInv
  <2>2. ASSUME NEW other \in RestSinks
        PROVE  /\ stage'[other] = "create" => ~Asked(call'[other], net') /\ ~Committed(call'[other], commits')
               /\ stage'[other] = "commit" /\ answer'[other] = "ok" => Committed(call'[other], commits')
    <3>1. CASE other = s
      BY <1>2, <3>1, SinksAssumption
    <3>2. CASE other # s
      <4>1. stage[other] = "create" => call[other] # call[s]
        BY <1>1, <3>2, SinkKinds DEF Inv, Shape
      <4>2. QED
        BY <1>2, <1>6, <3>2, <4>1, SinkKinds DEF Inv, OnceInv
    <3>3. QED
      BY <3>1, <3>2
  <2>3. QED
    BY <1>2, <2>1, <2>2 DEF Inv, OnceInv
<1>8. QED
  BY <1>4, <1>5, <1>7 DEF Inv

\* A request arrives, and a commit may be made of it.
LEMMA CatalogKeeps ==
  ASSUME Inv, CatalogServes
  PROVE  Inv'
<1>1. PICK r \in net, status \in {"ok", "conflict", "refused"} :
        /\ net' = net \ {r}
        /\ answer' = [s \in RestSinks |-> IF call[s] = r.call /\ stage[s] = r.kind
                                          THEN status ELSE answer[s]]
        /\ commits' = IF r.kind = "commit" /\ status = "ok"
                      THEN Append(commits, [call |-> r.call, table |-> r.table, count |-> r.count])
                      ELSE commits
        /\ UNCHANGED <<writes, call, stage>>
  <2>1. \A r \in net : Status(r) \subseteq {"ok", "conflict", "refused"}
    <3>1. \A r \in net : r.kind \in {"create", "commit"}
      BY DEF Inv, Shape, RequestSet
    <3>2. QED
      BY <3>1 DEF Status
  <2>2. QED
    BY <2>1 DEF CatalogServes
<1> DEFINE entry == [call |-> r.call, table |-> r.table, count |-> r.count]
           commit == r.kind = "commit" /\ status = "ok"
<1>2. /\ r.kind \in {"create", "commit"} /\ r.call \in Nat
      /\ entry \in CommitSet /\ entry.call = r.call /\ Of(entry, r.call, writes)
  BY DEF Inv, Shape, RequestSet, CommitSet, Matches, Of
<1>3. /\ commits' \in Seq(CommitSet)
      /\ commit => /\ Len(commits') = Len(commits) + 1
                   /\ commits'[Len(commits) + 1] = entry
                   /\ \A i \in DOMAIN commits : commits'[i] = commits[i]
                   /\ DOMAIN commits' = DOMAIN commits \cup {Len(commits) + 1}
      /\ ~commit => commits' = commits
  <2> HIDE DEF entry
  <2>1. commits \in Seq(CommitSet)
    BY DEF Inv, Shape
  <2>2. commits' = IF commit THEN Append(commits, entry) ELSE commits
    BY <1>1 DEF entry
  <2>3. QED
    BY <1>2, <2>1, <2>2
<1> HIDE DEF entry, commit
<1>4. Shape'
  <2>1. answer' \in [RestSinks -> {"ok", "conflict", "refused", Null}]
    BY <1>1 DEF Inv, Shape
  <2>2. QED
    BY <1>1, <1>3, <2>1 DEF Inv, Shape
<1>5. Matches'
  <2>1. \A q \in net' : Of(q, q.call, writes')
    BY <1>1 DEF Inv, Matches
  <2>2. \A i \in DOMAIN commits' : Of(commits'[i], commits'[i].call, writes')
    BY <1>1, <1>2, <1>3 DEF Inv, Matches
  <2>3. QED
    BY <2>1, <2>2 DEF Matches
<1>6. \A n : /\ Asked(n, net') => Asked(n, net)
             /\ Committed(n, commits) => Committed(n, commits')
             /\ Committed(n, commits') => Committed(n, commits) \/ (commit /\ n = r.call)
  BY <1>1, <1>2, <1>3 DEF Asked, Committed
<1>7. commit => Asked(r.call, net) /\ ~Committed(r.call, commits) /\ Committed(r.call, commits')
  BY <1>2, <1>3 DEF Asked, Committed, commit, Inv, OnceInv
\* No other request asks for the same commit: both would be the same record.
<1>8. commit => ~Asked(r.call, net')
  <2> SUFFICES ASSUME commit, NEW q \in net', q.kind = "commit", q.call = r.call
               PROVE  FALSE
    BY DEF Asked
  <2>1. q \in RequestSet /\ r \in RequestSet /\ r.kind = "commit" /\ q # r
    BY <1>1 DEF Inv, Shape, commit
  <2>2. q.table = r.table /\ q.count = r.count
    BY <1>1 DEF Inv, Matches, Of
  <2>3. QED
    BY <2>1, <2>2 DEF RequestSet
<1>9. OnceInv'
  <2>1. \A i, j \in DOMAIN commits' : commits'[i].call = commits'[j].call => i = j
    <3>1. CASE commit
      <4>1. \A i \in DOMAIN commits : commits'[i].call # r.call
        BY <1>3, <1>7, <3>1 DEF Committed
      <4>2. \A i, j \in DOMAIN commits : commits'[i].call = commits'[j].call => i = j
        BY <1>3, <3>1 DEF Inv, OnceInv
      <4>3. commits'[Len(commits) + 1].call = r.call
        BY <1>2, <1>3, <3>1
      <4>4. QED
        BY <1>3, <3>1, <4>1, <4>2, <4>3
    <3>2. CASE ~commit
      BY <1>3, <3>2 DEF Inv, OnceInv
    <3>3. QED
      BY <3>1, <3>2
  <2>2. \A n \in Nat : Asked(n, net') => ~Committed(n, commits')
    BY <1>6, <1>8 DEF Inv, OnceInv
  <2>3. ASSUME NEW s \in RestSinks
        PROVE  /\ stage'[s] = "create" => ~Asked(call'[s], net') /\ ~Committed(call'[s], commits')
               /\ stage'[s] = "commit" /\ answer'[s] = "ok" => Committed(call'[s], commits')
    <3>1. stage'[s] = stage[s] /\ call'[s] = call[s]
      BY <1>1
    <3>2. ASSUME stage[s] = "create"
          PROVE  ~Asked(call[s], net') /\ ~Committed(call[s], commits')
      BY <1>6, <1>7, <3>2 DEF Inv, OnceInv
    <3>3. ASSUME stage[s] = "commit", answer'[s] = "ok"
          PROVE  Committed(call[s], commits')
      <4>1. CASE call[s] = r.call /\ stage[s] = r.kind
        BY <1>1, <1>7, <3>3, <4>1 DEF commit
      <4>2. CASE ~(call[s] = r.call /\ stage[s] = r.kind)
        BY <1>1, <1>6, <3>3, <4>2 DEF Inv, OnceInv
      <4>3. QED
        BY <4>1, <4>2
    <3>4. QED
      BY <3>1, <3>2, <3>3
  <2>4. \A n \in DOMAIN writes' :
          writes'[n].sink \in RestSinks /\ writes'[n].events # <<>> /\ writes'[n].result = "ok"
            => Committed(n, commits')
    BY <1>1, <1>6 DEF Inv, OnceInv
  <2>5. QED
    BY <2>1, <2>2, <2>3, <2>4 DEF OnceInv
<1>10. QED
  BY <1>4, <1>5, <1>9 DEF Inv

\* A request is lost.
LEMMA RequestLostKeeps ==
  ASSUME Inv, RequestLost
  PROVE  Inv'
<1>1. /\ net' \subseteq net
      /\ UNCHANGED <<writes, call, stage, answer, commits>>
  BY DEF RequestLost
<1>2. \A n : Asked(n, net') => Asked(n, net)
  BY <1>1 DEF Asked
<1>3. Shape' /\ Matches'
  BY <1>1 DEF Inv, Shape, Matches
<1>4. OnceInv'
  BY <1>1, <1>2 DEF Inv, OnceInv
<1>5. QED
  BY <1>3, <1>4 DEF Inv

LEMMA InvNext == Inv /\ [Next]_vars => Inv'
<1> SUFFICES ASSUME Inv, [Next]_vars
             PROVE  Inv'
  OBVIOUS
<1>1. ASSUME NEW s \in RestSinks, RestWrite(s)
      PROVE  Inv'
  <2>1. PICK batch \in Batches :
          LET events == Handed(batch)
              kind == IF TableKey(events[1]) \in registered[s] THEN "commit" ELSE "create"
          IN  /\ Enter(s, batch, IF events = <<>> THEN "idle" ELSE kind)
              /\ net' = IF events = <<>> THEN net
                        ELSE net \cup {Request(kind, Len(writes) + 1, events)}
              /\ answer' = [answer EXCEPT ![s] = Null]
              /\ commits' = commits
    BY <1>1 DEF RestWrite
  <2>2. PICK kind \in {"create", "commit"} :
              /\ Enter(s, batch, IF Handed(batch) = <<>> THEN "idle" ELSE kind)
              /\ net' = IF Handed(batch) = <<>> THEN net
                        ELSE net \cup {Request(kind, Len(writes) + 1, Handed(batch))}
    BY <2>1
  <2>3. /\ answer' \in [RestSinks -> {"ok", "conflict", "refused", Null}]
        /\ answer'[s] = Null
        /\ \A other \in RestSinks \ {s} : answer'[other] = answer[other]
    BY <2>1 DEF Inv, Shape
  <2>4. CASE Handed(batch) = <<>>
    BY <2>1, <2>2, <2>3, <2>4, EnterKeeps, SinkKinds
  <2>5. CASE Handed(batch) # <<>>
    BY <2>1, <2>2, <2>3, <2>5, EnterKeeps, SinkKinds
  <2>6. QED
    BY <2>4, <2>5
<1>2. ASSUME NEW s \in RestSinks, TableAnswered(s)
      PROVE  Inv'
  BY <1>2, TableAnsweredKeeps
<1>3. ASSUME NEW s \in RestSinks, CommitAnswered(s)
      PROVE  Inv'
  <2>1. Committed(call[s], commits)
    BY <1>3 DEF CommitAnswered, Inv, OnceInv
  <2>2. QED
    BY <1>3, <2>1, ReturnKeeps, SinkKinds DEF CommitAnswered
<1>4. ASSUME NEW s \in RestSinks, RestFails(s)
      PROVE  Inv'
  BY <1>4, ReturnKeeps, SinkKinds DEF RestFails
<1>5. CASE CatalogServes
  BY <1>5, CatalogKeeps
<1>6. CASE RequestLost
  BY <1>6, RequestLostKeeps
<1>7. ASSUME NEW s \in LakeSinks, LakeWrite(s)
      PROVE  Inv'
  <2>1. PICK batch \in Batches : Enter(s, batch, "append")
    BY <1>7 DEF LakeWrite
  <2>2. UNCHANGED <<net, answer, commits>>
    BY <1>7 DEF LakeWrite
  <2>3. s \in AllSinks /\ s \notin RestSinks
    BY SinksAssumption DEF AllSinks
  <2>4. answer' \in [RestSinks -> {"ok", "conflict", "refused", Null}]
    BY <2>2 DEF Inv, Shape
  <2>5. QED
    BY <2>1, <2>2, <2>3, <2>4, EnterKeeps
<1>8. ASSUME NEW s \in LakeSinks, LakeAppend(s)
      PROVE  Inv'
  <2>1. s \in AllSinks /\ s \notin RestSinks
    BY SinksAssumption DEF AllSinks
  <2>2. /\ stage[s] # "idle"
        /\ Return(s, "ok") \/ Return(s, "err")
        /\ UNCHANGED <<net, answer, commits>>
    BY <1>8 DEF LakeAppend
  <2>3. QED
    BY <2>1, <2>2, ReturnKeeps
<1>9. CASE TableDropped \/ Forget \/ UNCHANGED vars
  <2>1. UNCHANGED <<writes, call, stage, net, answer, commits>>
    BY <1>9 DEF TableDropped, Forget
  <2>2. Shape' /\ Matches' /\ OnceInv'
    BY <2>1 DEF Inv, Shape, Matches, OnceInv
  <2>3. QED
    BY <2>2 DEF Inv
<1>10. QED
  BY <1>1, <1>2, <1>3, <1>4, <1>5, <1>6, <1>7, <1>8, <1>9 DEF Next

LEMMA InvInit == Init => Inv
<1> SUFFICES ASSUME Init
             PROVE  Inv
  OBVIOUS
<1>1. Shape
  BY DEF Init, Shape, NoCall
<1>2. Matches
  BY DEF Init, Matches
<1>3. OnceInv
  <2>1. writes = <<>> /\ commits = <<>> /\ net = {} /\ \A s \in RestSinks : stage[s] = "idle"
    BY SinkKinds DEF Init
  <2>2. \A n : ~Asked(n, net) /\ ~Committed(n, commits)
    BY <2>1 DEF Asked, Committed
  <2>3. QED
    BY <2>1, <2>2 DEF OnceInv
<1>4. QED
  BY <1>1, <1>2, <1>3 DEF Inv

\* Whatever is refused, lost or answered late: a write is committed at most once,
\* with its own table and count, and once if RestCatalogSink::write said Ok.
THEOREM CommitsOnce == Spec => []CommittedOnce
<1>1. Inv => CommittedOnce
  <2> SUFFICES ASSUME Inv, NEW n \in DOMAIN writes, writes[n].sink \in RestSinks
               PROVE  LET mine == {i \in DOMAIN commits : commits[i].call = n}
                      IN  /\ \A i \in mine : /\ commits[i].table = First(n).source.table
                                            /\ commits[i].count = Len(writes[n].events)
                          /\ \A i, j \in mine : i = j
                          /\ writes[n].result = "ok" /\ writes[n].events # <<>> => mine # {}
    BY DEF CommittedOnce
  <2>1. \A i \in DOMAIN commits : commits[i].call = n =>
          /\ commits[i].table = First(n).source.table
          /\ commits[i].count = Len(writes[n].events)
    BY DEF Inv, Matches, Of, First
  <2>2. \A i, j \in DOMAIN commits : commits[i].call = n /\ commits[j].call = n => i = j
    BY DEF Inv, OnceInv
  <2>3. writes[n].result = "ok" /\ writes[n].events # <<>> => Committed(n, commits)
    BY DEF Inv, OnceInv
  <2>4. QED
    BY <2>1, <2>2, <2>3 DEF Committed
<1>2. QED
  BY <1>1, InvInit, InvNext, PTL DEF Spec

-----------------------------------------------------------------------------
(* Calls, and what a sink believes of its tables.                           *)

Keys == {TableKey(events[1]) : events \in EventLists}

\* A call that is open is the one its sink is working on.
Calls ==
  /\ \A s \in AllSinks : stage[s] = "idle" => call[s] = NoCall
  /\ \A n \in DOMAIN writes : writes[n].result = "open" => call[writes[n].sink] = n

\* What is registered, or about to be, has been in the catalog.
Believed ==
  /\ catalog \subseteq created
  /\ \A s \in RestSinks :
       /\ \A key \in registered[s] : key[2] \in created
       /\ stage[s] = "create" /\ answer[s] \in {"ok", "conflict"} => Key(s)[2] \in created

Row(n, events) == [call |-> n, rows |-> Len(events), batch |-> LakeBatch(events)]
Rows == UNION {{Row(n, events) : events \in EventLists} : n \in Nat}

Stored(n, id) == id \in DOMAIN store /\ \E i \in DOMAIN store[id] : store[id][i].call = n

\* The rows of a call are stored, or it is known who may have cleared them.
StayIn(n) ==
  LET id == TableKey(First(n))
  IN  /\ id \in registered[writes[n].sink]
      /\ \/ id \in forgotten
         \/ \E s \in LakeSinks \ {writes[n].sink} : id \in registered[s]
         \/ Stored(n, id)

\* The tables of the store hold each finished call at most once, and they are there,
\* or were dropped, as long as a sink counts them as registered.
Kept ==
  /\ \A id \in DOMAIN store :
       /\ store[id] \in Seq(Rows)
       /\ \A i \in DOMAIN store[id] : /\ store[id][i].call \in DOMAIN writes
                                      /\ writes[store[id][i].call].result # "open"
       /\ \A i, j \in DOMAIN store[id] : store[id][i].call = store[id][j].call => i = j
  /\ \A s \in LakeSinks : stage[s] = "append" => Key(s) \in registered[s]
  /\ \A n \in DOMAIN writes :
       writes[n].sink \in LakeSinks /\ writes[n].result = "ok" /\ writes[n].events # <<>>
         => StayIn(n)

Beliefs ==
  /\ registered \in [AllSinks -> SUBSET Keys]
  /\ Calls /\ Believed /\ Kept

LEMMA BeliefsInit == Init => Beliefs
<1> SUFFICES ASSUME Init
             PROVE  Beliefs
  OBVIOUS
<1>1. registered \in [AllSinks -> SUBSET Keys] /\ \A s \in AllSinks : registered[s] = {}
  BY DEF Init
<1>2. Calls
  BY DEF Init, Calls
<1>3. Believed
  BY <1>1, SinkKinds DEF Init, Believed
<1>4. Kept
  <2>1. DOMAIN store = {} /\ DOMAIN writes = {}
    BY DEF Init
  <2>2. \A s \in LakeSinks : stage[s] = "idle"
    BY DEF Init, AllSinks
  <2>3. QED
    BY <2>1, <2>2 DEF Kept
<1>5. QED
  BY <1>1, <1>2, <1>3, <1>4 DEF Beliefs

\* What each sink works on stays what it is, but for the one that acts.
LEMMA CallsEntered ==
  ASSUME Inv, Calls, NEW s \in AllSinks, NEW batch \in Batches,
         NEW first \in {"idle", "create", "commit", "append"},
         Handed(batch) # <<>> => first # "idle",
         Enter(s, batch, first)
  PROVE  /\ Calls' /\ stage[s] = "idle"
         /\ \A other \in AllSinks \ {s} :
              /\ stage'[other] = stage[other] /\ call'[other] = call[other]
              /\ stage[other] # "idle" => Key(other)' = Key(other)
         /\ Handed(batch) = <<>> => stage'[s] = "idle"
         /\ Handed(batch) # <<>> => /\ stage'[s] = first
                                    /\ Key(s)' = TableKey(Handed(batch)[1])
<1> DEFINE new == Len(writes) + 1
<1>1. /\ new \notin DOMAIN writes
      /\ DOMAIN writes' = DOMAIN writes \cup {new}
      /\ \A n \in DOMAIN writes : writes'[n] = writes[n]
      /\ writes'[new].sink = s
      /\ writes'[new].events = Handed(batch)
      /\ writes'[new].result = IF Handed(batch) = <<>> THEN "ok" ELSE "open"
      /\ Handed(batch) = <<>> => call' = call /\ stage' = stage
      /\ Handed(batch) # <<>> => call'[s] = new /\ stage'[s] = first
      /\ \A other \in AllSinks \ {s} :
           stage'[other] = stage[other] /\ call'[other] = call[other]
  BY Entered DEF Inv
<1> HIDE DEF new
<1>2. call[s] = 0 /\ stage[s] = "idle"
  <2>1. call[s] = 0
    BY DEF Enter, NoCall
  <2>2. 0 \notin DOMAIN writes
    BY DEF Inv, Shape
  <2>3. QED
    BY <2>1, <2>2 DEF Inv, Shape
<1>3. \A n \in DOMAIN writes : writes[n].sink \in AllSinks /\ n # 0
  <2>1. \A n \in DOMAIN writes : writes[n] \in WriteSet /\ n # 0
    BY DEF Inv, Shape
  <2>2. QED
    BY <2>1 DEF WriteSet
<1>4. Calls'
  <2>1. ASSUME NEW n \in DOMAIN writes', writes'[n].result = "open"
        PROVE  call'[writes'[n].sink] = n
    <3>1. CASE n = new
      BY <1>1, <2>1, <3>1
    <3>2. CASE n # new
      <4>1. n \in DOMAIN writes /\ writes'[n] = writes[n] /\ call[writes[n].sink] = n
        BY <1>1, <2>1, <3>2 DEF Calls
      <4>2. writes[n].sink # s
        BY <1>2, <1>3, <4>1
      <4>3. QED
        BY <1>1, <1>3, <4>1, <4>2
    <3>3. QED
      BY <3>1, <3>2
  <2>2. ASSUME NEW other \in AllSinks, stage'[other] = "idle"
        PROVE  call'[other] = NoCall
    <3>1. CASE other = s
      BY <1>1, <1>2, <2>2, <3>1 DEF NoCall
    <3>2. CASE other # s
      BY <1>1, <2>2, <3>2 DEF Calls
    <3>3. QED
      BY <3>1, <3>2
  <2>3. QED
    BY <2>1, <2>2 DEF Calls
<1>5. ASSUME NEW other \in AllSinks \ {s}, stage[other] # "idle"
      PROVE  Key(other)' = Key(other)
  <2>1. call[other] \in DOMAIN writes /\ call'[other] = call[other]
    BY <1>1, <1>5 DEF Inv, Shape
  <2>2. writes'[call'[other]] = writes[call[other]]
    BY <1>1, <2>1
  <2>3. QED
    BY <2>2 DEF Key, First
<1>6. Handed(batch) # <<>> => Key(s)' = TableKey(Handed(batch)[1])
  BY <1>1 DEF Key, First
<1>7. QED
  BY <1>1, <1>2, <1>4, <1>5, <1>6

LEMMA CallsReturned ==
  ASSUME Inv, Calls, NEW s \in AllSinks, NEW result \in {"ok", "err"},
         stage[s] # "idle", Return(s, result)
  PROVE  /\ Calls' /\ stage'[s] = "idle"
         /\ \A other \in AllSinks \ {s} :
              /\ stage'[other] = stage[other] /\ call'[other] = call[other]
              /\ stage[other] # "idle" => Key(other)' = Key(other)
<1>1. /\ WritesKept /\ DOMAIN writes' = DOMAIN writes
      /\ stage'[s] = "idle"
      /\ \A n \in DOMAIN writes : n # call[s] => writes'[n] = writes[n]
      /\ writes'[call[s]].result = result
      /\ \A other \in AllSinks \ {s} :
           stage'[other] = stage[other] /\ call'[other] = call[other]
  BY Returned DEF Inv
<1>2. call'[s] = NoCall
  BY DEF Return, Inv, Shape
<1>3. call[s] \in DOMAIN writes /\ writes[call[s]].sink = s
  BY DEF Inv, Shape
<1>4. \A n \in DOMAIN writes : writes[n].sink \in AllSinks
  <2>1. \A n \in DOMAIN writes : writes[n] \in WriteSet
    BY DEF Inv, Shape
  <2>2. QED
    BY <2>1 DEF WriteSet
<1>5. Calls'
  <2>1. ASSUME NEW n \in DOMAIN writes', writes'[n].result = "open"
        PROVE  call'[writes'[n].sink] = n
    <3>1. n # call[s] /\ writes'[n] = writes[n] /\ n \in DOMAIN writes
      BY <1>1, <2>1
    <3>2. call[writes[n].sink] = n /\ writes[n].sink # s
      BY <2>1, <3>1 DEF Calls
    <3>3. QED
      BY <1>1, <1>4, <3>1, <3>2
  <2>2. ASSUME NEW other \in AllSinks, stage'[other] = "idle"
        PROVE  call'[other] = NoCall
    BY <1>1, <1>2, <2>2 DEF Calls
  <2>3. QED
    BY <2>1, <2>2 DEF Calls
<1>6. ASSUME NEW other \in AllSinks \ {s}, stage[other] # "idle"
      PROVE  Key(other)' = Key(other)
  <2>1. call[other] \in DOMAIN writes /\ call'[other] = call[other]
    BY <1>1, <1>6 DEF Inv, Shape
  <2>2. writes'[call'[other]].events = writes[call[other]].events
    BY <1>1, <2>1 DEF WritesKept
  <2>3. QED
    BY <2>2 DEF Key, First
<1>7. QED
  BY <1>1, <1>5, <1>6

LEMMA LakeKinds == ASSUME NEW s \in LakeSinks PROVE s \in AllSinks /\ s \notin RestSinks
BY SinksAssumption DEF AllSinks

\* What the REST sinks and the catalog do leaves the store alone.
LEMMA KeptApart ==
  ASSUME Kept, UNCHANGED lakeVars,
         \A s \in LakeSinks : /\ registered'[s] = registered[s] /\ stage'[s] = stage[s]
                              /\ stage[s] # "idle" => Key(s)' = Key(s),
         WritesKept,
         \A n \in DOMAIN writes : writes[n].result # "open" => writes'[n].result = writes[n].result,
         \A n \in DOMAIN writes' :
           writes'[n].sink \in LakeSinks /\ writes'[n].result = "ok" /\ writes'[n].events # <<>>
             => n \in DOMAIN writes /\ writes[n].result = "ok"
  PROVE  Kept'
<1>1. ASSUME NEW id \in DOMAIN store'
      PROVE  /\ store'[id] \in Seq(Rows)
             /\ \A i \in DOMAIN store'[id] : /\ store'[id][i].call \in DOMAIN writes'
                                             /\ writes'[store'[id][i].call].result # "open"
             /\ \A i, j \in DOMAIN store'[id] :
                  store'[id][i].call = store'[id][j].call => i = j
  BY <1>1 DEF Kept, WritesKept
<1>2. ASSUME NEW s \in LakeSinks, stage'[s] = "append"
      PROVE  Key(s)' \in registered'[s]
  BY <1>2 DEF Kept
<1>3. ASSUME NEW n \in DOMAIN writes', writes'[n].sink \in LakeSinks,
             writes'[n].result = "ok", writes'[n].events # <<>>
      PROVE  StayIn(n)'
  <2>1. /\ n \in DOMAIN writes /\ writes[n].result = "ok"
        /\ writes'[n].sink = writes[n].sink /\ writes'[n].events = writes[n].events
    BY <1>3 DEF WritesKept
  <2>2. First(n)' = First(n)
    BY <2>1 DEF First
  <2>3. \A id : Stored(n, id)' <=> Stored(n, id)
    BY DEF Stored
  <2>4. QED
    BY <1>3, <2>1, <2>2, <2>3 DEF Kept, StayIn
<1>4. QED
  BY <1>1, <1>2, <1>3 DEF Kept

\* ... and what the lake sinks do, the catalog.
LEMMA BelievedApart ==
  ASSUME Believed, UNCHANGED <<catalog, created, answer>>,
         \A s \in RestSinks : /\ registered'[s] = registered[s]
                              /\ stage'[s] = "create" =>
                                   stage[s] = "create" /\ Key(s)' = Key(s)
  PROVE  Believed'
BY DEF Believed

LEMMA RestWriteBelieves ==
  ASSUME Inv, Beliefs, NEW s \in RestSinks, RestWrite(s)
  PROVE  Beliefs'
<1>1. PICK batch \in Batches :
        /\ Enter(s, batch, IF Handed(batch) = <<>> THEN "idle"
                           ELSE IF TableKey(Handed(batch)[1]) \in registered[s]
                                THEN "commit" ELSE "create")
        /\ answer' = [answer EXCEPT ![s] = Null]
        /\ UNCHANGED <<registered, catalog, created, store, forgotten>>
  BY DEF RestWrite
<1>2. PICK first \in {"idle", "create", "commit"} :
        Enter(s, batch, first) /\ (Handed(batch) # <<>> => first # "idle")
  BY <1>1
<1>3. /\ Calls' /\ s \in AllSinks /\ s \notin LakeSinks
      /\ \A other \in AllSinks \ {s} :
           /\ stage'[other] = stage[other]
           /\ stage[other] # "idle" => Key(other)' = Key(other)
  BY <1>2, CallsEntered, SinkKinds DEF Beliefs
<1>4. Believed'
  <2>1. answer'[s] = Null /\ \A other \in RestSinks \ {s} : answer'[other] = answer[other]
    BY <1>1 DEF Inv, Shape
  <2>2. Null \notin {"ok", "conflict"}
    BY SinksAssumption
  <2>3. QED
    BY <1>1, <1>3, <2>1, <2>2, SinkKinds DEF Beliefs, Believed
<1>5. Kept'
  <2>1. /\ WritesKept
        /\ \A n \in DOMAIN writes : writes'[n] = writes[n]
        /\ \A n \in DOMAIN writes' : n \in DOMAIN writes \/ writes'[n].sink = s
    BY <1>2, <1>3, Entered DEF Inv
  <2>2. QED
    BY <1>1, <1>3, <2>1, KeptApart, LakeKinds DEF Beliefs
<1>6. QED
  BY <1>1, <1>3, <1>4, <1>5 DEF Beliefs

LEMMA TableAnsweredBelieves ==
  ASSUME Inv, Beliefs, NEW s \in RestSinks, TableAnswered(s)
  PROVE  Beliefs'
<1>1. /\ s \in AllSinks /\ s \notin LakeSinks
      /\ stage[s] = "create" /\ answer[s] \in {"ok", "conflict"}
      /\ registered' = [registered EXCEPT ![s] = @ \cup {Key(s)}]
      /\ stage' = [stage EXCEPT ![s] = "commit"]
      /\ answer' = [answer EXCEPT ![s] = Null]
      /\ UNCHANGED <<writes, call, catalog, created, store, forgotten>>
  BY SinkKinds DEF TableAnswered
<1>2. /\ \A other : Key(other)' = Key(other)
      /\ stage'[s] = "commit" /\ \A other \in AllSinks \ {s} : stage'[other] = stage[other]
      /\ \A other \in RestSinks \ {s} : answer'[other] = answer[other]
  BY <1>1 DEF Key, First, Inv, Shape
<1>3. Key(s) \in Keys
  <2>1. call[s] \in DOMAIN writes
    BY <1>1 DEF Inv, Shape
  <2>2. writes[call[s]] \in WriteSet
    BY <2>1 DEF Inv, Shape
  <2>3. writes[call[s]].events \in EventLists
    BY <2>2 DEF WriteSet
  <2>4. QED
    BY <2>3 DEF Key, First, Keys
<1>4. /\ registered' \in [AllSinks -> SUBSET Keys]
      /\ registered'[s] = registered[s] \cup {Key(s)}
      /\ \A other \in AllSinks \ {s} : registered'[other] = registered[other]
  BY <1>1, <1>3 DEF Beliefs
<1>5. Calls'
  BY <1>1, <1>2 DEF Beliefs, Calls
<1>6. Believed'
  BY <1>1, <1>2, <1>4, SinkKinds DEF Beliefs, Believed
<1>7. Kept'
  BY <1>1, <1>2, <1>4, KeptApart, LakeKinds DEF Beliefs, WritesKept
<1>8. QED
  BY <1>4, <1>5, <1>6, <1>7 DEF Beliefs

LEMMA RestReturnBelieves ==
  ASSUME Inv, Beliefs, NEW s \in RestSinks, NEW result \in {"ok", "err"},
         stage[s] # "idle", Return(s, result),
         UNCHANGED <<registered, restVars, lakeVars>>
  PROVE  Beliefs'
<1>1. /\ Calls' /\ s \in AllSinks /\ s \notin LakeSinks /\ stage'[s] = "idle"
      /\ \A other \in AllSinks \ {s} :
           /\ stage'[other] = stage[other]
           /\ stage[other] # "idle" => Key(other)' = Key(other)
  BY CallsReturned, SinkKinds DEF Beliefs
<1>2. Believed'
  BY <1>1, BelievedApart, SinkKinds DEF Beliefs
<1>3. Kept'
  <2>1. /\ WritesKept /\ DOMAIN writes' = DOMAIN writes
        /\ \A n \in DOMAIN writes : n # call[s] => writes'[n] = writes[n]
    BY <1>1, Returned DEF Inv
  <2>2. writes[call[s]].sink = s /\ writes[call[s]].result = "open" /\ call[s] \in DOMAIN writes
    BY <1>1 DEF Inv, Shape
  <2>3. QED
    BY <1>1, <2>1, <2>2, KeptApart, LakeKinds DEF Beliefs, WritesKept
<1>4. QED
  BY <1>1, <1>2, <1>3 DEF Beliefs

LEMMA CatalogBelieves ==
  ASSUME Inv, Beliefs, CatalogServes
  PROVE  Beliefs'
<1>1. PICK r \in net : \E status \in Status(r) :
        /\ answer' = [s \in RestSinks |-> IF call[s] = r.call /\ stage[s] = r.kind
                                          THEN status ELSE answer[s]]
        /\ catalog' = IF r.kind = "create" /\ status = "ok"
                      THEN catalog \cup {r.table} ELSE catalog
        /\ created' = created \cup catalog'
        /\ UNCHANGED <<writes, call, stage, registered, store, forgotten>>
  BY DEF CatalogServes
<1>2. PICK status \in Status(r) :
        /\ answer' = [s \in RestSinks |-> IF call[s] = r.call /\ stage[s] = r.kind
                                          THEN status ELSE answer[s]]
        /\ catalog' = IF r.kind = "create" /\ status = "ok"
                      THEN catalog \cup {r.table} ELSE catalog
        /\ created' = created \cup catalog'
        /\ UNCHANGED <<writes, call, stage, registered, store, forgotten>>
  BY <1>1
<1>3. \A s : Key(s)' = Key(s)
  BY <1>2 DEF Key, First
<1>4. Calls' /\ Kept'
  BY <1>2, <1>3, KeptApart DEF Beliefs, Calls, WritesKept
<1>5. Believed'
  <2>1. catalog' \subseteq created' /\ created \subseteq created'
    BY <1>2
  <2>2. r.kind = "create" /\ status \in {"ok", "conflict"} => r.table \in created'
    BY <1>2, <2>1 DEF Status, Beliefs, Believed
  <2>3. ASSUME NEW s \in RestSinks, stage'[s] = "create", answer'[s] \in {"ok", "conflict"}
        PROVE  Key(s)'[2] \in created'
    <3>1. CASE call[s] = r.call /\ stage[s] = r.kind
      <4>1. r.kind = "create" /\ answer'[s] = status
        BY <1>2, <2>3, <3>1
      <4>2. Key(s)[2] = r.table
        BY <3>1 DEF Inv, Matches, Of, Key, First, TableKey
      <4>3. QED
        BY <1>3, <2>2, <2>3, <4>1, <4>2
    <3>2. CASE ~(call[s] = r.call /\ stage[s] = r.kind)
      BY <1>2, <1>3, <2>1, <2>3, <3>2 DEF Beliefs, Believed
    <3>3. QED
      BY <3>1, <3>2
  <2>4. QED
    BY <1>2, <2>1, <2>3 DEF Beliefs, Believed
<1>6. QED
  BY <1>2, <1>4, <1>5 DEF Beliefs

\* A lake sink begins: it may register the table, which clears it for all others.
LEMMA LakeWriteBelieves ==
  ASSUME Inv, Beliefs, NEW s \in LakeSinks, LakeWrite(s)
  PROVE  Beliefs'
<1>1. PICK batch \in Batches :
        /\ Enter(s, batch, "append")
        /\ IF Handed(batch) = <<>> THEN UNCHANGED <<registered, store>>
           ELSE EnsureTable(s, TableKey(Handed(batch)[1]))
        /\ UNCHANGED <<answer, catalog, created, forgotten>>
  BY DEF LakeWrite
<1> DEFINE key == TableKey(Handed(batch)[1])
           new == Len(writes) + 1
<1>2. /\ Calls' /\ s \in AllSinks /\ s \notin RestSinks
      /\ \A other \in AllSinks \ {s} :
           /\ stage'[other] = stage[other]
           /\ stage[other] # "idle" => Key(other)' = Key(other)
      /\ Handed(batch) = <<>> => stage'[s] = "idle"
      /\ Handed(batch) # <<>> => stage'[s] = "append" /\ Key(s)' = key
  BY <1>1, CallsEntered, LakeKinds DEF Beliefs
<1>3. /\ new \notin DOMAIN writes
      /\ DOMAIN writes' = DOMAIN writes \cup {new}
      /\ \A n \in DOMAIN writes : writes'[n] = writes[n]
      /\ writes'[new].events = Handed(batch)
      /\ writes'[new].result = IF Handed(batch) = <<>> THEN "ok" ELSE "open"
  BY <1>1, <1>2, Entered DEF Inv
<1> HIDE DEF key, new
<1>4. /\ registered' \in [AllSinks -> SUBSET Keys]
      /\ \A other \in AllSinks \ {s} : registered'[other] = registered[other]
      /\ registered[s] \subseteq registered'[s]
      /\ Handed(batch) # <<>> => key \in registered'[s]
      /\ \/ store' = store
         \/ /\ DOMAIN store' = DOMAIN store \cup {key}
            /\ store'[key] = <<>> /\ key \notin registered[s] /\ key \in registered'[s]
            /\ \A id \in DOMAIN store \ {key} : store'[id] = store[id]
  <2>1. CASE Handed(batch) = <<>>
    BY <1>1, <2>1 DEF Beliefs
  <2>2. CASE Handed(batch) # <<>>
    <3>1. key \in Keys
      BY DEF key, Keys, EventLists
    <3>2. EnsureTable(s, key)
      BY <1>1, <2>2 DEF key
    <3>3. CASE key \in registered[s] /\ UNCHANGED <<registered, store>>
      BY <3>3 DEF Beliefs
    <3>4. CASE /\ key \notin registered[s] /\ Register(key)
               /\ registered' = [registered EXCEPT ![s] = @ \cup {key}]
      <4>1. /\ registered' \in [AllSinks -> SUBSET Keys]
            /\ registered'[s] = registered[s] \cup {key}
            /\ \A other \in AllSinks \ {s} : registered'[other] = registered[other]
        BY <1>2, <3>1, <3>4 DEF Beliefs
      <4>2. \/ store' = store
            \/ store' = [other \in DOMAIN store \cup {key} |->
                           IF other = key THEN <<>> ELSE store[other]]
        BY <3>4 DEF Register
      <4>3. QED
        BY <3>4, <4>1, <4>2
    <3>5. QED
      BY <3>2, <3>3, <3>4 DEF EnsureTable
  <2>3. QED
    BY <2>1, <2>2
<1>5. Believed'
  BY <1>1, <1>2, <1>4, BelievedApart, SinkKinds DEF Beliefs
<1>6. Kept'
  <2>1. ASSUME NEW id \in DOMAIN store'
        PROVE  /\ store'[id] \in Seq(Rows)
               /\ \A i \in DOMAIN store'[id] : /\ store'[id][i].call \in DOMAIN writes'
                                               /\ writes'[store'[id][i].call].result # "open"
               /\ \A i, j \in DOMAIN store'[id] :
                    store'[id][i].call = store'[id][j].call => i = j
    <3>1. CASE id \in DOMAIN store /\ store'[id] = store[id]
      BY <1>3, <3>1 DEF Beliefs, Kept
    <3>2. CASE store'[id] = <<>>
      BY <3>2
    <3>3. QED
      BY <1>4, <3>1, <3>2
  <2>2. ASSUME NEW other \in LakeSinks, stage'[other] = "append"
        PROVE  Key(other)' \in registered'[other]
    <3>1. CASE other = s
      BY <1>2, <1>4, <2>2, <3>1
    <3>2. CASE other # s
      BY <1>2, <1>4, <2>2, <3>2, LakeKinds DEF Beliefs, Kept
    <3>3. QED
      BY <3>1, <3>2
  <2>3. ASSUME NEW n \in DOMAIN writes', writes'[n].sink \in LakeSinks,
               writes'[n].result = "ok", writes'[n].events # <<>>
        PROVE  StayIn(n)'
    <3> DEFINE id == TableKey(First(n))
               mine == writes[n].sink
    <3>1. n \in DOMAIN writes /\ writes'[n] = writes[n] /\ First(n)' = First(n)
      BY <1>3, <2>3 DEF First
    <3>2. /\ mine \in LakeSinks /\ id \in registered[mine]
          /\ \/ id \in forgotten
             \/ \E other \in LakeSinks \ {mine} : id \in registered[other]
             \/ Stored(n, id)
      BY <2>3, <3>1 DEF Beliefs, Kept, StayIn
    <3> HIDE DEF id, mine
    <3>3. \A other \in LakeSinks : registered[other] \subseteq registered'[other]
      BY <1>4, LakeKinds
    <3>4. CASE Stored(n, id)
      <4>1. CASE id \in DOMAIN store' /\ store'[id] = store[id]
        <5>1. id' = id
          BY <3>1 DEF id
        <5>2. Stored(n, id)'
          BY <3>4, <4>1, <5>1 DEF Stored
        <5>3. QED
          BY <3>1, <3>2, <3>3, <5>2 DEF StayIn, id, mine
      <4>2. CASE id = key /\ key \notin registered[s] /\ key \in registered'[s]
        <5>1. mine # s
          BY <3>2, <4>2
        <5>2. QED
          BY <3>1, <3>2, <3>3, <4>2, <5>1 DEF StayIn, id, mine
      <4>3. QED
        BY <1>4, <3>4, <4>1, <4>2 DEF Stored
    <3>5. CASE ~Stored(n, id)
      <4>1. \/ id \in forgotten'
            \/ \E other \in LakeSinks \ {mine} : id \in registered'[other]
        BY <1>1, <3>2, <3>3, <3>5
      <4>2. QED
        BY <3>1, <3>2, <3>3, <4>1 DEF StayIn, id, mine
    <3>6. QED
      BY <3>4, <3>5
  <2>4. QED
    BY <2>1, <2>2, <2>3 DEF Kept
<1>7. QED
  BY <1>2, <1>4, <1>5, <1>6 DEF Beliefs

\* A lake sink appends its rows to the table, if it is there.
LEMMA LakeAppendBelieves ==
  ASSUME Inv, Beliefs, NEW s \in LakeSinks, LakeAppend(s)
  PROVE  Beliefs'
<1> DEFINE key == Key(s)
           row == Row(call[s], writes[call[s]].events)
<1>1. /\ stage[s] = "append" /\ s \in AllSinks /\ s \notin RestSinks
      /\ UNCHANGED <<registered, answer, catalog, created, forgotten>>
  BY LakeKinds DEF LakeAppend
<1>2. PICK result \in {"ok", "err"} :
        /\ Return(s, result)
        /\ result = "ok" => /\ key \in DOMAIN store
                            /\ store' = [store EXCEPT ![key] = Append(@, row)]
        /\ result = "err" => store' = store
  BY DEF LakeAppend, Row
<1>3. /\ Calls' /\ stage'[s] = "idle"
      /\ \A other \in AllSinks \ {s} :
           /\ stage'[other] = stage[other]
           /\ stage[other] # "idle" => Key(other)' = Key(other)
  BY <1>1, <1>2, CallsReturned DEF Beliefs
<1>4. /\ WritesKept /\ DOMAIN writes' = DOMAIN writes
      /\ \A n \in DOMAIN writes : n # call[s] => writes'[n] = writes[n]
      /\ writes'[call[s]].result = result
  BY <1>1, <1>2, Returned DEF Inv
<1>5. /\ call[s] \in DOMAIN writes /\ call[s] \in Nat
      /\ writes[call[s]].sink = s /\ writes[call[s]].result = "open"
      /\ writes[call[s]].events \in EventLists
  <2>1. /\ call[s] \in DOMAIN writes /\ call[s] \in Nat
        /\ writes[call[s]].sink = s /\ writes[call[s]].result = "open"
    BY <1>1 DEF Inv, Shape
  <2>2. writes[call[s]] \in WriteSet
    BY <2>1 DEF Inv, Shape
  <2>3. QED
    BY <2>1, <2>2 DEF WriteSet
<1>6. row \in Rows /\ row.call = call[s]
  <2>1. row \in {Row(call[s], events) : events \in EventLists}
    BY <1>5
  <2>2. row \in Rows
    BY <1>5, <2>1 DEF Rows
  <2>3. row.call = call[s]
    BY DEF Row
  <2>4. QED
    BY <2>2, <2>3
<1> HIDE DEF row, key
<1>7. /\ DOMAIN store' = DOMAIN store
      /\ \A id \in DOMAIN store : id # key => store'[id] = store[id]
      /\ result = "err" => store' = store
      /\ result = "ok" =>
           /\ key \in DOMAIN store /\ store[key] \in Seq(Rows) /\ store'[key] \in Seq(Rows)
           /\ DOMAIN store'[key] = DOMAIN store[key] \cup {Len(store[key]) + 1}
           /\ \A i \in DOMAIN store[key] : store'[key][i] = store[key][i]
           /\ store'[key][Len(store[key]) + 1] = row
  <2>1. CASE result = "err"
    BY <1>2, <2>1
  <2>2. CASE result = "ok"
    <3>1. key \in DOMAIN store /\ store[key] \in Seq(Rows)
      BY <1>2, <2>2 DEF Beliefs, Kept
    <3>2. /\ DOMAIN store' = DOMAIN store
          /\ \A id \in DOMAIN store : id # key => store'[id] = store[id]
          /\ store'[key] = Append(store[key], row)
      BY <1>2, <2>2, <3>1
    <3>3. QED
      BY <1>6, <2>2, <3>1, <3>2
  <2>3. QED
    BY <2>1, <2>2
<1>8. Believed'
  BY <1>1, <1>3, BelievedApart, SinkKinds DEF Beliefs
<1>9. Kept'
  <2>1. ASSUME NEW id \in DOMAIN store'
        PROVE  /\ store'[id] \in Seq(Rows)
               /\ \A i \in DOMAIN store'[id] : /\ store'[id][i].call \in DOMAIN writes'
                                               /\ writes'[store'[id][i].call].result # "open"
               /\ \A i, j \in DOMAIN store'[id] :
                    store'[id][i].call = store'[id][j].call => i = j
    <3>1. /\ store[id] \in Seq(Rows) /\ id \in DOMAIN store
          /\ \A i \in DOMAIN store[id] : /\ store[id][i].call \in DOMAIN writes'
                                         /\ writes'[store[id][i].call].result # "open"
                                         /\ store[id][i].call # call[s]
          /\ \A i, j \in DOMAIN store[id] : store[id][i].call = store[id][j].call => i = j
      BY <1>4, <1>5, <1>7 DEF Beliefs, Kept
    <3>2. CASE store'[id] = store[id]
      BY <3>1, <3>2
    <3>3. CASE id = key /\ result = "ok"
      <4>1. \A i \in DOMAIN store'[id] :
              \/ i \in DOMAIN store[id] /\ store'[id][i] = store[id][i]
              \/ i = Len(store[id]) + 1 /\ store'[id][i].call = call[s]
        BY <1>6, <1>7, <3>3
      <4>2. QED
        BY <1>4, <1>5, <1>7, <3>1, <3>3, <4>1
    <3>4. QED
      BY <1>2, <1>7, <3>2, <3>3
  <2>2. ASSUME NEW other \in LakeSinks, stage'[other] = "append"
        PROVE  Key(other)' \in registered'[other]
    BY <1>1, <1>3, <2>2, LakeKinds DEF Beliefs, Kept
  <2>3. ASSUME NEW n, NEW id, Stored(n, id)
        PROVE  Stored(n, id)'
    <3>1. id \in DOMAIN store /\ \E i \in DOMAIN store[id] : store[id][i].call = n
      BY <2>3 DEF Stored
    <3>2. CASE store'[id] = store[id]
      BY <1>7, <3>1, <3>2 DEF Stored
    <3>3. CASE id = key /\ result = "ok"
      BY <1>7, <3>1, <3>3 DEF Stored
    <3>4. QED
      BY <1>2, <1>7, <3>1, <3>2, <3>3
  <2>4. ASSUME NEW n \in DOMAIN writes', writes'[n].sink \in LakeSinks,
               writes'[n].result = "ok", writes'[n].events # <<>>
        PROVE  StayIn(n)'
    <3>1. /\ n \in DOMAIN writes /\ writes'[n].sink = writes[n].sink
          /\ writes'[n].events = writes[n].events /\ First(n)' = First(n)
      BY <1>4, <2>4 DEF WritesKept, First
    <3>2. CASE n = call[s]
      <4>1. result = "ok" /\ TableKey(First(n)) = key /\ writes[n].sink = s
        BY <1>4, <1>5, <2>4, <3>2 DEF key, Key
      <4>2. key \in registered[s]
        BY <1>1 DEF Beliefs, Kept, key
      <4>3. key \in DOMAIN store' /\ \E i \in DOMAIN store'[key] : store'[key][i].call = n
        BY <1>6, <1>7, <3>2, <4>1
      <4>4. QED
        BY <1>1, <3>1, <4>1, <4>2, <4>3 DEF StayIn, Stored
    <3>3. CASE n # call[s]
      <4>1. writes[n].result = "ok"
        BY <1>4, <2>4, <3>1, <3>3
      <4>2. QED
        BY <1>1, <2>3, <2>4, <3>1, <4>1 DEF Beliefs, Kept, StayIn
    <3>4. QED
      BY <3>2, <3>3
  <2>5. QED
    BY <2>1, <2>2, <2>4 DEF Kept
<1>10. QED
  BY <1>1, <1>3, <1>8, <1>9 DEF Beliefs

LEMMA ForgetBelieves ==
  ASSUME Beliefs, Forget
  PROVE  Beliefs'
<1>1. PICK gone \in DOMAIN store :
        /\ store' = [other \in DOMAIN store \ {gone} |-> store[other]]
        /\ forgotten' = forgotten \cup {gone}
        /\ UNCHANGED <<writes, call, stage, registered, answer, catalog, created>>
  BY DEF Forget
<1>2. DOMAIN store' \subseteq DOMAIN store /\ \A id \in DOMAIN store' : store'[id] = store[id]
  BY <1>1
<1>3. \A s : Key(s)' = Key(s)
  BY <1>1 DEF Key, First
<1>4. \A n, id : Stored(n, id) => Stored(n, id)' \/ id \in forgotten'
  BY <1>1 DEF Stored
<1>5. \A n : First(n)' = First(n)
  BY <1>1 DEF First
<1>6. Kept'
  BY <1>1, <1>2, <1>3, <1>4, <1>5 DEF Beliefs, Kept, StayIn
<1>7. Calls' /\ Believed'
  BY <1>1, <1>3 DEF Beliefs, Calls, Believed
<1>8. QED
  BY <1>1, <1>6, <1>7 DEF Beliefs

LEMMA BeliefsNext == Inv /\ Beliefs /\ [Next]_vars => Beliefs'
<1> SUFFICES ASSUME Inv, Beliefs, [Next]_vars
             PROVE  Beliefs'
  OBVIOUS
<1>1. ASSUME NEW s \in RestSinks, CommitAnswered(s) \/ RestFails(s)
      PROVE  Beliefs'
  <2>1. /\ stage[s] # "idle" /\ (Return(s, "ok") \/ Return(s, "err"))
        /\ UNCHANGED <<registered, restVars, lakeVars>>
    BY <1>1 DEF CommitAnswered, RestFails
  <2>2. QED
    BY <2>1, RestReturnBelieves
<1>2. CASE TableDropped \/ RequestLost \/ UNCHANGED vars
  <2>1. /\ catalog' \subseteq catalog
        /\ UNCHANGED <<writes, call, stage, registered, answer, created, store, forgotten>>
    BY <1>2 DEF TableDropped, RequestLost
  <2>2. \A s : Key(s)' = Key(s)
    BY <2>1 DEF Key, First
  <2>3. Calls' /\ Kept'
    BY <2>1, <2>2, KeptApart DEF Beliefs, Calls, WritesKept
  <2>4. Believed'
    BY <2>1, <2>2 DEF Beliefs, Believed
  <2>5. QED
    BY <2>1, <2>3, <2>4 DEF Beliefs
<1>3. QED
  BY <1>1, <1>2, RestWriteBelieves, TableAnsweredBelieves, CatalogBelieves,
     LakeWriteBelieves, LakeAppendBelieves, ForgetBelieves DEF Next

LEMMA BeliefsHold == Spec => [](Inv /\ Beliefs)
BY InvInit, InvNext, BeliefsInit, BeliefsNext, PTL DEF Spec

\* Each sink works on one open call of its own, and a table it believes to exist has
\* been in the catalog.
THEOREM SinksTypeCorrect == Spec => []TypeOK
<1>1. Inv /\ Beliefs => TypeOK
  <2> SUFFICES ASSUME Inv, Beliefs
               PROVE  TypeOK
    OBVIOUS
  <2>1. \A n \in DOMAIN writes : writes[n].result \in {"open", "ok", "err"}
    <3>1. \A n \in DOMAIN writes : writes[n] \in WriteSet
      BY DEF Inv, Shape
    <3>2. QED
      BY <3>1 DEF WriteSet
  <2>2. ASSUME NEW s \in AllSinks
        PROVE  /\ stage[s] \in {"idle", "create", "commit", "append"}
               /\ call[s] = NoCall <=> stage[s] = "idle"
               /\ call[s] # NoCall =>
                    /\ call[s] \in DOMAIN writes
                    /\ writes[call[s]].sink = s /\ writes[call[s]].result = "open"
    <3>1. 0 \notin DOMAIN writes
      BY DEF Inv, Shape
    <3>2. QED
      BY <3>1 DEF Inv, Shape, Beliefs, Calls, NoCall
  <2>3. QED
    BY <2>1, <2>2 DEF Beliefs, Calls, Believed, TypeOK
<1>2. QED
  BY <1>1, BeliefsHold, PTL

\* The rows of a write that OpenLakeSink answered with Ok stay in their table, once,
\* until the table is dropped or another sink registers it (OpenLakeSink::write).
THEOREM WrittenRowsStay == Spec => []RowsStay
<1>1. Inv /\ Beliefs => RowsStay
  <2> SUFFICES ASSUME Beliefs, NEW n \in DOMAIN writes, writes[n].sink \in LakeSinks,
                      writes[n].result = "ok", writes[n].events # <<>>
               PROVE  LET id == TableKey(First(n))
                      IN  \/ id \in forgotten
                          \/ \E s \in LakeSinks \ {writes[n].sink} : id \in registered[s]
                          \/ id \in DOMAIN store /\
                             Cardinality({i \in DOMAIN store[id] : store[id][i].call = n}) = 1
    BY DEF RowsStay
  <2> DEFINE id == TableKey(First(n))
  <2>1. ASSUME Stored(n, id)
        PROVE  id \in DOMAIN store /\
               Cardinality({i \in DOMAIN store[id] : store[id][i].call = n}) = 1
    <3>1. id \in DOMAIN store
      BY <2>1 DEF Stored
    <3>2. PICK i \in DOMAIN store[id] : store[id][i].call = n
      BY <2>1 DEF Stored
    <3>3. {j \in DOMAIN store[id] : store[id][j].call = n} = {i}
      BY <3>1, <3>2 DEF Beliefs, Kept
    <3>4. QED
      BY <3>1, <3>3, FS_Singleton
  <2>2. QED
    BY <2>1 DEF Beliefs, Kept, StayIn
<1>2. QED
  BY <1>1, BeliefsHold, PTL

-----------------------------------------------------------------------------
(* What the transforms of a pipeline leave of an event.                     *)

\* The names the pairs of a rename lead to.
Targets(pairs) == {pairs[i][2] : i \in DOMAIN pairs}

LEMMA RemappedTo ==
  ASSUME NEW pairs, IsSeq(pairs), NEW name
  PROVE  Remapped(pairs, name) \in {name} \cup Targets(pairs)
<1> DEFINE n == Len(pairs)
           T == {name} \cup Targets(pairs)
           step == [i \in 1..n |-> [x \in T |->
                       IF x = pairs[i][1] THEN pairs[i][2] ELSE x]]
           Eq(g) == g = [s \in SUBSET (1..n) |->
                            IF s = {} THEN name
                            ELSE IF g[s \ {Max(s)}] = pairs[Max(s)][1]
                                 THEN pairs[Max(s)][2] ELSE g[s \ {Max(s)}]]
           parts == CHOOSE g : Eq(g)
<1>1. n \in Nat /\ DOMAIN pairs = 1..n
  BY SeqDomain
<1>2. Remapped(pairs, name) = parts[1..n]
  BY <1>1 DEF Remapped, FoldLeft, MapThenFoldSet
<1>3. PICK f : Folds(f, n, T, name, step)
  <2>1. step \in [1..n -> [T -> T]]
    <3>1. \A i \in 1..n : pairs[i][2] \in T
      BY <1>1 DEF Targets
    <3> HIDE DEF T, n
    <3>2. QED
      BY <3>1
  <2> HIDE DEF step, T, n
  <2>2. name \in T
    BY DEF T
  <2>3. QED
    BY <1>1, <2>1, <2>2, FoldExists
<1>4. \A s \in SUBSET (1..n) : f[s] \in T
  BY <1>3 DEF Folds
<1>5. \A s \in SUBSET (1..n) : s # {} => Max(s) \in 1..n /\ s \ {Max(s)} \in SUBSET (1..n)
  BY <1>1, MaxOfPart
<1>6. Eq(f)
  <2> HIDE DEF n, T
  <2>1. ASSUME NEW s \in SUBSET (1..n), s # {}
        PROVE  f[s] = IF f[s \ {Max(s)}] = pairs[Max(s)][1]
                      THEN pairs[Max(s)][2] ELSE f[s \ {Max(s)}]
    <3>1. f[s] = step[Max(s)][f[s \ {Max(s)}]]
      BY <1>3, <2>1 DEF Folds
    <3>2. Max(s) \in 1..n /\ f[s \ {Max(s)}] \in T
      BY <1>4, <1>5, <2>1
    <3>3. QED
      BY <3>1, <3>2
  <2>2. f[{}] = name /\ f = [s \in SUBSET (1..n) |-> f[s]]
    BY <1>3 DEF Folds
  <2> HIDE DEF step
  <2>3. QED
    BY <2>1, <2>2
<1>7. Eq(parts)
  <2> HIDE DEF Eq
  <2>1. QED
    BY <1>6
<1>8. SUBSET (1..n) \subseteq {s \in SUBSET (1..n) : parts[s] \in T}
  <2> DEFINE P == {s \in SUBSET (1..n) : parts[s] \in T}
  <2>1. \A i \in 1..n : pairs[i][2] \in T
    BY <1>1 DEF Targets
  <2>2. name \in T
    OBVIOUS
  <2> HIDE DEF n, T, parts, step
  <2>3. {} \in P
    BY <1>7, <2>2
  <2>4. \A s \in SUBSET (1..n) : s # {} /\ s \ {Max(s)} \in P => s \in P
    BY <1>5, <1>7, <2>1
  <2>5. SUBSET (1..n) \subseteq P
    <3> HIDE DEF P
    <3>1. QED
      BY <1>1, <2>3, <2>4, PartsFromBelow
  <2>6. QED
    BY <2>5
<1>9. QED
  <2> HIDE DEF n, T, parts, step
  <2>1. parts[1..n] \in T
    BY <1>8
  <2>2. QED
    BY <1>2, <2>1 DEF T

\* The names a rename of the chain may lead to, and an event under other names.
Renames    == {k \in DOMAIN Chain : Chain[k].kind = "rename"}
ChainNames == UNION {Targets(Chain[k].tables) \cup Targets(Chain[k].dbs) : k \in Renames}
NamesOf(e) == {e.source.table, e.source.db} \cup ChainNames

Under(e, table, db) ==
  EventOf(e.op, e.before, e.after,
          [connector |-> e.source.connector, db |-> db, schema |-> e.source.schema,
           table |-> table, snapshot |-> e.source.snapshot, lsn |-> e.source.lsn,
           tx |-> e.source.tx], e.ts)

UnderNames(e) == {Under(e, table, db) : table \in NamesOf(e), db \in NamesOf(e)}

LEMMA ChainNamesThere ==
  /\ Null \notin ChainNames
  /\ \A k \in Renames :
       /\ IsSeq(Chain[k].tables) /\ Targets(Chain[k].tables) \subseteq ChainNames
       /\ IsSeq(Chain[k].dbs) /\ Targets(Chain[k].dbs) \subseteq ChainNames
<1>1. ASSUME NEW k \in Renames, NEW pairs \in {Chain[k].tables, Chain[k].dbs}
      PROVE  IsSeq(pairs) /\ \A i \in DOMAIN pairs : pairs[i][2] # Null
  BY SinksAssumption DEF Renames, IsTransform, IsSeq
<1>2. QED
  BY <1>1 DEF ChainNames, Targets

LEMMA RenameUnder ==
  ASSUME NEW e, NEW table \in NamesOf(e), NEW db \in NamesOf(e), NEW k \in Renames
  PROVE  RenameEvent(Chain[k].tables, Chain[k].dbs, Under(e, table, db)) \in UnderNames(e)
<1>1. PICK newTable, newDb : /\ newTable = Remapped(Chain[k].tables, table)
                             /\ newDb = Remapped(Chain[k].dbs, db)
  OBVIOUS
<1>2. newTable \in NamesOf(e) /\ newDb \in NamesOf(e)
  BY <1>1, ChainNamesThere, RemappedTo DEF NamesOf
<1>3. RenameEvent(Chain[k].tables, Chain[k].dbs, Under(e, table, db)) = Under(e, newTable, newDb)
  <2>1. Under(e, table, db).source.table = table /\ Under(e, table, db).source.db = db
    BY DEF Under, EventOf
  <2>2. RenameEvent(Chain[k].tables, Chain[k].dbs, Under(e, table, db))
          = [Under(e, table, db) EXCEPT !.source.table = newTable, !.source.db = newDb]
    BY <1>1, <2>1 DEF RenameEvent, Under, EventOf
  <2>3. QED
    BY <2>2 DEF Under, EventOf
<1>4. QED
  BY <1>2, <1>3 DEF UnderNames

LEMMA UnderIsEvent ==
  ASSUME NEW e, IsEvent(e), NEW x \in UnderNames(e)
  PROVE  IsEvent(x)
<1>1. PICK table \in NamesOf(e), db \in NamesOf(e) : x = Under(e, table, db)
  BY DEF UnderNames
<1>2. table # Null /\ db # Null /\ e.source.connector # Null /\ e.op \in DOMAIN OpText
  BY <1>1, ChainNamesThere DEF NamesOf, IsEvent
<1>3. /\ x.op = e.op /\ x.before = e.before /\ x.after = e.after /\ x.ts = e.ts
      /\ x.source = [connector |-> e.source.connector, db |-> db, schema |-> e.source.schema,
                     table |-> table, snapshot |-> e.source.snapshot, lsn |-> e.source.lsn,
                     tx |-> e.source.tx]
      /\ x = EventOf(x.op, x.before, x.after, x.source, x.ts)
  BY <1>1 DEF Under, EventOf
<1>4. QED
  BY <1>2, <1>3 DEF IsEvent

LEMMA UnderItself == ASSUME NEW e, IsEvent(e) PROVE e \in UnderNames(e)
<1>1. e = Under(e, e.source.table, e.source.db)
  BY DEF IsEvent, Under
<1>2. QED
  BY <1>1 DEF UnderNames, NamesOf

\* The chain drops an event or hands it on under other names.
LEMMA ThroughTo ==
  ASSUME NEW e, IsEvent(e)
  PROVE  Through(Chain, e) \in {Null} \cup UnderNames(e)
<1> DEFINE n == Len(Chain)
           T == {Null} \cup UnderNames(e)
           Step(x, i) == IF x = Null THEN Null ELSE Transformed(Chain[i], x)
           step == [i \in 1..n |-> [x \in T |-> Step(x, i)]]
           Eq(g) == g = [s \in SUBSET (1..n) |->
                            IF s = {} THEN e ELSE Step(g[s \ {Max(s)}], Max(s))]
           parts == CHOOSE g : Eq(g)
<1>1. n \in Nat /\ DOMAIN Chain = 1..n
  BY SinksAssumption, SeqDomain DEF IsSeq
<1>2. Through(Chain, e) = parts[1..n]
  BY <1>1 DEF Through, FoldLeft, MapThenFoldSet
<1>3. \A i \in 1..n : \A x \in T : Step(x, i) \in T
  <2>1. SUFFICES ASSUME NEW i \in 1..n, NEW x \in UnderNames(e)
                 PROVE  Transformed(Chain[i], x) \in T
    BY DEF Step
  <2>2. IsTransform(Chain[i])
    BY <1>1, SinksAssumption
  <2>3. CASE Chain[i].kind = "filter"
    BY <2>1, <2>3 DEF Transformed, Filter
  <2>4. CASE Chain[i].kind = "rename"
    <3>1. PICK table \in NamesOf(e), db \in NamesOf(e) : x = Under(e, table, db)
      BY <2>1 DEF UnderNames
    <3>2. i \in Renames
      BY <1>1, <2>4 DEF Renames
    <3>3. Transformed(Chain[i], x) = RenameEvent(Chain[i].tables, Chain[i].dbs, x)
      BY <2>4 DEF Transformed
    <3>4. QED
      BY <3>1, <3>2, <3>3, RenameUnder
  <2>5. CASE Chain[i].kind = "log"
    BY <2>1, <2>5 DEF Transformed
  <2>6. QED
    BY <2>2, <2>3, <2>4, <2>5 DEF IsTransform
<1>4. e \in T
  BY UnderItself
<1>5. \A s \in SUBSET (1..n) : s # {} => Max(s) \in 1..n /\ s \ {Max(s)} \in SUBSET (1..n)
  BY <1>1, MaxOfPart
<1>6. PICK f : Folds(f, n, T, e, step)
  <2>1. step \in [1..n -> [T -> T]]
    <3> HIDE DEF T, n, Step
    <3>1. QED
      BY <1>3
  <2> HIDE DEF step, T, n
  <2>2. QED
    BY <1>1, <1>4, <2>1, FoldExists
<1>7. Eq(f)
  <2> HIDE DEF n, T, Step
  <2>1. ASSUME NEW s \in SUBSET (1..n), s # {}
        PROVE  f[s] = Step(f[s \ {Max(s)}], Max(s))
    <3>1. f[s] = step[Max(s)][f[s \ {Max(s)}]]
      BY <1>6, <2>1 DEF Folds
    <3>2. Max(s) \in 1..n /\ f[s \ {Max(s)}] \in T
      BY <1>5, <1>6, <2>1 DEF Folds
    <3>3. QED
      BY <3>1, <3>2
  <2>2. f[{}] = e /\ f = [s \in SUBSET (1..n) |-> f[s]]
    BY <1>6 DEF Folds
  <2> HIDE DEF step
  <2>3. QED
    BY <2>1, <2>2
<1>8. Eq(parts)
  <2> HIDE DEF Eq
  <2>1. QED
    BY <1>7
<1>9. SUBSET (1..n) \subseteq {s \in SUBSET (1..n) : parts[s] \in T}
  <2> DEFINE P == {s \in SUBSET (1..n) : parts[s] \in T}
  <2> HIDE DEF n, T, parts, step, Step
  <2>1. {} \in P
    BY <1>4, <1>8
  <2>2. \A s \in SUBSET (1..n) : s # {} /\ s \ {Max(s)} \in P => s \in P
    BY <1>3, <1>5, <1>8
  <2>3. SUBSET (1..n) \subseteq P
    <3> HIDE DEF P
    <3>1. QED
      BY <1>1, <2>1, <2>2, PartsFromBelow
  <2>4. QED
    BY <2>3
<1>10. QED
  <2> HIDE DEF n, T, parts, step
  <2>1. parts[1..n] \in T
    BY <1>9
  <2>2. QED
    BY <1>2, <2>1 DEF T

\* What is handed to a sink is a list of events.
LEMMA HandedEvents ==
  ASSUME NEW batch \in Batches
  PROVE  IsSeq(Handed(batch)) /\ \A i \in DOMAIN Handed(batch) : IsEvent(Handed(batch)[i])
<1> DEFINE n == Len(batch)
           out(i) == Through(Chain, batch[i])
           U == {out(i) : i \in 1..n} \ {Null}
           T == Seq(U)
           Step(x, i) == IF out(i) = Null THEN x ELSE Append(x, out(i))
           step == [i \in 1..n |-> [x \in T |-> Step(x, i)]]
           Eq(g) == g = [s \in SUBSET (1..n) |->
                            IF s = {} THEN <<>> ELSE Step(g[s \ {Max(s)}], Max(s))]
           parts == CHOOSE g : Eq(g)
<1>1. n \in Nat /\ DOMAIN batch = 1..n /\ \A i \in 1..n : IsEvent(batch[i])
  BY SinksAssumption, SeqDomain DEF IsSeq
<1>2. Handed(batch) = parts[1..n]
  BY <1>1 DEF Handed, FoldLeft, MapThenFoldSet
<1>3. \A i \in 1..n : \A x \in T : Step(x, i) \in T
  <2>1. SUFFICES ASSUME NEW i \in 1..n, NEW x \in T, out(i) # Null
                 PROVE  Append(x, out(i)) \in T
    BY DEF Step
  <2>2. out(i) \in U
    BY <2>1
  <2> HIDE DEF U, out
  <2>3. QED
    BY <2>1, <2>2
<1>4. <<>> \in T
  <2> HIDE DEF U
  <2>1. QED
    OBVIOUS
<1>5. \A s \in SUBSET (1..n) : s # {} => Max(s) \in 1..n /\ s \ {Max(s)} \in SUBSET (1..n)
  BY <1>1, MaxOfPart
<1>6. PICK f : Folds(f, n, T, <<>>, step)
  <2>1. step \in [1..n -> [T -> T]]
    <3> HIDE DEF T, n, Step
    <3>1. QED
      BY <1>3
  <2> HIDE DEF step, T, n
  <2>2. QED
    BY <1>1, <1>4, <2>1, FoldExists
<1>7. Eq(f)
  <2> HIDE DEF n, T, Step
  <2>1. ASSUME NEW s \in SUBSET (1..n), s # {}
        PROVE  f[s] = Step(f[s \ {Max(s)}], Max(s))
    <3>1. f[s] = step[Max(s)][f[s \ {Max(s)}]]
      BY <1>6, <2>1 DEF Folds
    <3>2. Max(s) \in 1..n /\ f[s \ {Max(s)}] \in T
      BY <1>5, <1>6, <2>1 DEF Folds
    <3>3. QED
      BY <3>1, <3>2
  <2>2. f[{}] = <<>> /\ f = [s \in SUBSET (1..n) |-> f[s]]
    BY <1>6 DEF Folds
  <2> HIDE DEF step
  <2>3. QED
    BY <2>1, <2>2
<1>8. Eq(parts)
  <2> HIDE DEF Eq
  <2>1. QED
    BY <1>7
<1>9. SUBSET (1..n) \subseteq {s \in SUBSET (1..n) : parts[s] \in T}
  <2> DEFINE P == {s \in SUBSET (1..n) : parts[s] \in T}
  <2> HIDE DEF n, T, parts, step, Step
  <2>1. {} \in P
    BY <1>4, <1>8
  <2>2. \A s \in SUBSET (1..n) : s # {} /\ s \ {Max(s)} \in P => s \in P
    BY <1>3, <1>5, <1>8
  <2>3. SUBSET (1..n) \subseteq P
    <3> HIDE DEF P
    <3>1. QED
      BY <1>1, <2>1, <2>2, PartsFromBelow
  <2>4. QED
    BY <2>3
<1>10. Handed(batch) \in Seq(U)
  <2> HIDE DEF n, T, parts, step
  <2>1. parts[1..n] \in T
    BY <1>9
  <2>2. QED
    BY <1>2, <2>1 DEF T
<1>11. \A e \in U : IsEvent(e)
  <2>1. SUFFICES ASSUME NEW i \in 1..n, out(i) # Null
                 PROVE  IsEvent(out(i))
    OBVIOUS
  <2>2. out(i) \in UnderNames(batch[i])
    BY <1>1, <2>1, ThroughTo
  <2>3. QED
    BY <1>1, <2>2, UnderIsEvent
<1>12. QED
  <2> HIDE DEF U
  <2>1. \A i \in DOMAIN Handed(batch) : Handed(batch)[i] \in U
    BY <1>10
  <2>2. IsSeq(Handed(batch))
    BY <1>10, SeqIsSeq
  <2>3. QED
    BY <1>11, <2>1, <2>2

-----------------------------------------------------------------------------
(* Batches of events, read back.                                            *)

LEMMA OpReadsBack ==
  ASSUME NEW op \in DOMAIN OpText
  PROVE  OpText[op] # Null /\ op # Null /\ OpFrom(OpText[op]) = op
<1>1. OpText[op] # Null /\ op # Null
  BY SinksAssumption
<1>2. ASSUME NEW other \in DOMAIN OpText, OpText[other] = OpText[op]
      PROVE  other = op
  BY <1>2 DEF OpText
<1>3. {o \in DOMAIN OpText : OpText[o] = OpText[op]} = {op}
  BY <1>2
<1>4. OpFrom(OpText[op]) = CHOOSE o \in {op} : TRUE
  BY <1>3 DEF OpFrom
<1>5. QED
  BY <1>1, <1>4

LEMMA ExtractText ==
  ASSUME NEW batch, NEW name \in DOMAIN batch, NEW j, batch[name].type = "utf8"
  PROVE  /\ Extract(batch, name, "utf8", j) = OrElse(batch[name].values[j], "")
         /\ Extract(batch, name, "int64", j) = Null
<1>1. PICK c, text, number, empty :
        c = batch[name] /\ text = "utf8" /\ number = "int64" /\ empty = ""
  OBVIOUS
<1>2. text # number
  BY <1>1
<1>3. RawValue(c, j) = OrElse(c.values[j], empty)
  BY <1>1, Zenon DEF RawValue, OrElse
<1>4. Extract(batch, name, text, j) = RawValue(c, j) /\ Extract(batch, name, number, j) = Null
  BY <1>1, <1>2, Zenon DEF Extract
<1>5. QED
  BY <1>1, <1>3, <1>4, Zenon

LEMMA ExtractNumber ==
  ASSUME NEW batch, NEW name \in DOMAIN batch, NEW j, batch[name].type = "int64"
  PROVE  Extract(batch, name, "int64", j) = OrElse(batch[name].values[j], 0)
<1>1. PICK c, text, number : c = batch[name] /\ text = "utf8" /\ number = "int64"
  OBVIOUS
<1>2. text # number
  BY <1>1
<1>3. RawValue(c, j) = OrElse(c.values[j], 0)
  BY <1>1, <1>2, Zenon DEF RawValue, OrElse
<1>4. Extract(batch, name, number, j) = RawValue(c, j)
  BY <1>1, Zenon DEF Extract
<1>5. QED
  BY <1>1, <1>3, <1>4, Zenon

\* A row that has these texts in these columns is this event.
RowHas(batch, j, e, lsn, tx, ts) ==
  /\ Extract(batch, "op", "utf8", j) = OrElse(OpText[e.op], "")
  /\ Extract(batch, "db", "utf8", j) = OrElse(e.source.db, "")
  /\ Extract(batch, "schema", "utf8", j) = OrElse(e.source.schema, "")
  /\ Extract(batch, "table", "utf8", j) = OrElse(e.source.table, "")
  /\ Extract(batch, "connector", "utf8", j) = OrElse(e.source.connector, "")
  /\ Extract(batch, "lsn", "int64", j) = lsn
  /\ Extract(batch, "txId", "int64", j) = tx
  /\ Extract(batch, "ts_ms", "int64", j) = ts

\* What such a row is read back as.
ReadAs(e, lsn, tx, ts) ==
  EventOf(e.op, Null, Null,
          [connector |-> e.source.connector, db |-> e.source.db,
           schema |-> OrElse(e.source.schema, ""), table |-> e.source.table,
           snapshot |-> "false", lsn |-> lsn, tx |-> tx], ts)

LEMMA RowReadsBack ==
  ASSUME NEW batch, NEW j, NEW e, IsEvent(e), NEW lsn, NEW tx, NEW ts,
         RowHas(batch, j, e, lsn, tx, ts)
  PROVE  RowEvent(batch, j) = ReadAs(e, lsn, tx, ts)
<1>1. /\ OpText[e.op] # Null /\ e.op # Null /\ OpFrom(OpText[e.op]) = e.op
      /\ e.source.db # Null /\ e.source.table # Null /\ e.source.connector # Null
  BY OpReadsBack DEF IsEvent
<1>2. PICK empty : empty = ""
  OBVIOUS
<1>3. /\ OrElse(OpText[e.op], empty) = OpText[e.op] /\ OrElse(e.op, "read") = e.op
      /\ OrElse(e.source.db, empty) = e.source.db
      /\ OrElse(e.source.table, empty) = e.source.table
      /\ OrElse(e.source.connector, empty) = e.source.connector
  BY <1>1, Zenon DEF OrElse
<1>4. DefaultSource.snapshot = "false"
  BY DEF DefaultSource, NewSource
<1>5. QED
  BY <1>1, <1>2, <1>3, <1>4, Zenon DEF RowEvent, RowHas, ReadAs

\* What OpenLakeSink stores.
LEMMA LakeReadsBack ==
  ASSUME NEW events, IsSeq(events), \A i \in DOMAIN events : IsEvent(events[i])
  PROVE  BatchToEvents(LakeBatch(events), Len(events)) =
           [j \in DOMAIN events |-> Plain(events[j], LAMBDA v : OrElse(v, 0),
                                          LAMBDA v : OrElse(v, ""))]
<1> DEFINE batch == LakeBatch(events)
<1>1. ASSUME NEW j \in DOMAIN events
      PROVE  RowEvent(batch, j) = Plain(events[j], LAMBDA v : OrElse(v, 0),
                                        LAMBDA v : OrElse(v, ""))
  <2> DEFINE e == events[j]
  <2>1. \A name \in {"op", "db", "schema", "table", "connector", "lsn", "txId", "ts_ms"} :
           name \in DOMAIN batch
    BY DEF LakeBatch
  <2>2. /\ batch["op"].type = "utf8" /\ batch["op"].values[j] = OpText[e.op]
        /\ batch["db"].type = "utf8" /\ batch["db"].values[j] = e.source.db
        /\ batch["schema"].type = "utf8" /\ batch["schema"].values[j] = e.source.schema
        /\ batch["table"].type = "utf8" /\ batch["table"].values[j] = e.source.table
        /\ batch["connector"].type = "utf8" /\ batch["connector"].values[j] = e.source.connector
        /\ batch["lsn"].type = "int64" /\ batch["lsn"].values[j] = e.source.lsn
        /\ batch["txId"].type = "int64" /\ batch["txId"].values[j] = e.source.tx
        /\ batch["ts_ms"].type = "int64" /\ batch["ts_ms"].values[j] = e.ts
    BY DEF LakeBatch, Column
  <2>3. IsEvent(e)
    OBVIOUS
  <2> HIDE DEF batch, e
  <2>4. RowHas(batch, j, e, OrElse(e.source.lsn, 0), OrElse(e.source.tx, 0), OrElse(e.ts, 0))
    <3>1. \A name \in DOMAIN batch : batch[name].type = "utf8" =>
            Extract(batch, name, "utf8", j) = OrElse(batch[name].values[j], "")
      BY ExtractText
    <3>2. \A name \in DOMAIN batch : batch[name].type = "int64" =>
            Extract(batch, name, "int64", j) = OrElse(batch[name].values[j], 0)
      BY ExtractNumber
    <3>3. QED
      BY <2>1, <2>2, <3>1, <3>2, Zenon DEF RowHas
  <2>5. RowEvent(batch, j) =
          ReadAs(e, OrElse(e.source.lsn, 0), OrElse(e.source.tx, 0), OrElse(e.ts, 0))
    BY <2>3, <2>4, RowReadsBack
  <2>6. RowEvent(batch, j) = Plain(e, LAMBDA v : OrElse(v, 0), LAMBDA v : OrElse(v, ""))
    BY <2>5, Zenon DEF Plain, ReadAs
  <2>7. QED
    BY <2>6 DEF e
<1>2. QED
  <2> HIDE DEF batch
  <2>1. BatchToEvents(batch, Len(events)) = [j \in DOMAIN events |-> RowEvent(batch, j)]
    BY SeqDomain DEF BatchToEvents
  <2>2. QED
    BY <1>1, <2>1 DEF batch

\* What BatchConverter makes of the same events.
LEMMA ConverterReadsBack ==
  ASSUME NEW events, IsSeq(events), events # <<>>,
         \A i \in DOMAIN events : IsEvent(events[i])
  PROVE  LET made == EventsToBatch(events, AllText)
         IN  /\ made.ok
             /\ BatchToEvents(made.batch, Len(events)) =
                  [j \in DOMAIN events |-> Plain(events[j], LAMBDA v : Null,
                                                 LAMBDA v : OrElse(v, ""))]
<1> DEFINE batch == [name \in DOMAIN AllText |->
                       Column("utf8", events, LAMBDA e : Cell(name, e))]
<1>1. EventsToBatch(events, AllText) = [ok |-> TRUE, batch |-> batch]
  <2>1. \A name \in DOMAIN AllText : AllText[name].type = "utf8" /\ AllText[name].nullable
    BY DEF AllText
  <2> HIDE DEF batch
  <2>2. QED
    BY <2>1 DEF EventsToBatch, batch
<1>2. ASSUME NEW j \in DOMAIN events
      PROVE  RowEvent(batch, j) = Plain(events[j], LAMBDA v : Null, LAMBDA v : OrElse(v, ""))
  <2> DEFINE e == events[j]
  <2>1. \A name \in {"op", "db", "schema", "table", "connector", "lsn", "txId", "ts_ms"} :
           name \in DOMAIN AllText
    BY DEF AllText
  <2>2. \A name \in DOMAIN AllText :
           /\ name \in DOMAIN batch
           /\ batch[name].type = "utf8" /\ batch[name].values[j] = Cell(name, e)
    BY DEF Column
  <2>3. /\ Cell("op", e) = OpText[e.op] /\ Cell("db", e) = e.source.db
        /\ Cell("schema", e) = e.source.schema /\ Cell("table", e) = e.source.table
        /\ Cell("connector", e) = e.source.connector
    BY DEF Cell
  <2>4. IsEvent(e)
    OBVIOUS
  <2> HIDE DEF batch, e
  <2>5. RowHas(batch, j, e, Null, Null, Null)
    <3>1. \A name \in DOMAIN batch : batch[name].type = "utf8" =>
            /\ Extract(batch, name, "utf8", j) = OrElse(batch[name].values[j], "")
            /\ Extract(batch, name, "int64", j) = Null
      BY ExtractText
    <3>2. QED
      BY <2>1, <2>2, <2>3, <3>1, Zenon DEF RowHas
  <2>6. RowEvent(batch, j) = ReadAs(e, Null, Null, Null)
    BY <2>4, <2>5, RowReadsBack
  <2>7. RowEvent(batch, j) = Plain(e, LAMBDA v : Null, LAMBDA v : OrElse(v, ""))
    BY <2>6, Zenon DEF Plain, ReadAs
  <2>8. QED
    BY <2>7 DEF e
<1>3. QED
  <2> HIDE DEF batch
  <2>1. BatchToEvents(batch, Len(events)) = [j \in DOMAIN events |-> RowEvent(batch, j)]
    BY SeqDomain DEF BatchToEvents
  <2>2. BatchToEvents(batch, Len(events)) =
          [j \in DOMAIN events |-> Plain(events[j], LAMBDA v : Null, LAMBDA v : OrElse(v, ""))]
    BY <1>2, <2>1
  <2>3. EventsToBatch(events, AllText).ok /\ EventsToBatch(events, AllText).batch = batch
    BY <1>1
  <2>4. QED
    BY <2>2, <2>3, Zenon

-----------------------------------------------------------------------------
(* What is in the store.                                                    *)

\* Every row of the store holds the events of its call.
Faithful ==
  \A id \in DOMAIN store : \A i \in DOMAIN store[id] :
    store[id][i] = Row(store[id][i].call, writes[store[id][i].call].events)

LEMMA FaithfulKept ==
  ASSUME Beliefs, Faithful, WritesKept,
         \A id \in DOMAIN store' : \A i \in DOMAIN store'[id] :
            \/ /\ id \in DOMAIN store /\ i \in DOMAIN store[id]
               /\ store'[id][i] = store[id][i]
            \/ \E n \in DOMAIN writes : store'[id][i] = Row(n, writes[n].events)
  PROVE  Faithful'
<1> SUFFICES ASSUME NEW id \in DOMAIN store', NEW i \in DOMAIN store'[id]
             PROVE  store'[id][i] = Row(store'[id][i].call, writes'[store'[id][i].call].events)
  BY DEF Faithful
<1>1. CASE /\ id \in DOMAIN store /\ i \in DOMAIN store[id]
           /\ store'[id][i] = store[id][i]
  <2>1. store[id][i].call \in DOMAIN writes
    BY <1>1 DEF Beliefs, Kept
  <2>2. QED
    BY <1>1, <2>1 DEF Faithful, WritesKept
<1>2. ASSUME NEW n \in DOMAIN writes, store'[id][i] = Row(n, writes[n].events)
      PROVE  store'[id][i] = Row(store'[id][i].call, writes'[store'[id][i].call].events)
  <2>1. store'[id][i].call = n
    BY <1>2 DEF Row
  <2>2. writes'[n].events = writes[n].events
    BY DEF WritesKept
  <2>3. QED
    BY <1>2, <2>1, <2>2
<1>3. QED
  BY <1>1, <1>2

LEMMA FaithfulNext == Inv /\ Beliefs /\ Faithful /\ [Next]_vars => Faithful'
<1> SUFFICES ASSUME Inv, Beliefs, Faithful, [Next]_vars
             PROVE  Faithful'
  OBVIOUS
<1>0. writes' = writes => WritesKept
  BY DEF WritesKept
<1>1. ASSUME NEW s \in RestSinks, RestWrite(s)
      PROVE  Faithful'
  <2>1. PICK batch \in Batches, first \in {"idle", "create", "commit"} :
          Enter(s, batch, first) /\ store' = store
    BY <1>1 DEF RestWrite
  <2>2. WritesKept
    BY <2>1, SinkKinds, Entered DEF Inv
  <2>3. QED
    BY <2>1, <2>2, FaithfulKept
<1>2. ASSUME NEW s \in RestSinks, TableAnswered(s)
      PROVE  Faithful'
  <2>1. writes' = writes /\ store' = store
    BY <1>2 DEF TableAnswered
  <2>2. QED
    BY <1>0, <2>1, FaithfulKept
<1>3. ASSUME NEW s \in RestSinks, CommitAnswered(s) \/ RestFails(s)
      PROVE  Faithful'
  <2>1. PICK result \in {"ok", "err"} :
          stage[s] # "idle" /\ Return(s, result) /\ store' = store
    BY <1>3 DEF CommitAnswered, RestFails
  <2>2. WritesKept
    BY <2>1, SinkKinds, Returned DEF Inv
  <2>3. QED
    BY <2>1, <2>2, FaithfulKept
<1>4. CASE CatalogServes \/ RequestLost \/ TableDropped \/ UNCHANGED vars
  <2>1. writes' = writes /\ store' = store
    BY <1>4 DEF CatalogServes, RequestLost, TableDropped
  <2>2. QED
    BY <1>0, <2>1, FaithfulKept
<1>5. CASE Forget
  <2>1. PICK gone \in DOMAIN store :
          writes' = writes /\ store' = [other \in DOMAIN store \ {gone} |-> store[other]]
    BY <1>5 DEF Forget
  <2>2. \A id \in DOMAIN store' : id \in DOMAIN store /\ store'[id] = store[id]
    BY <2>1
  <2>3. QED
    BY <1>0, <2>1, <2>2, FaithfulKept
<1>6. ASSUME NEW s \in LakeSinks, LakeWrite(s)
      PROVE  Faithful'
  <2>1. PICK batch \in Batches :
          /\ Enter(s, batch, "append")
          /\ \/ store' = store
             \/ EnsureTable(s, TableKey(Handed(batch)[1]))
    BY <1>6 DEF LakeWrite
  <2>2. WritesKept
    BY <2>1, LakeKinds, Entered DEF Inv
  <2>3. ASSUME NEW id \in DOMAIN store', NEW i \in DOMAIN store'[id]
        PROVE  id \in DOMAIN store /\ i \in DOMAIN store[id] /\ store'[id][i] = store[id][i]
    <3>1. PICK key : store' = store \/ Register(key)
      BY <2>1 DEF EnsureTable
    <3>2. store' = store \/ store' = [other \in DOMAIN store \cup {key} |->
                                        IF other = key THEN <<>> ELSE store[other]]
      BY <3>1 DEF Register
    <3>3. DOMAIN <<>> = {}
      OBVIOUS
    <3>4. QED
      BY <2>3, <3>2, <3>3
  <2>4. QED
    BY <2>2, <2>3, FaithfulKept
<1>7. ASSUME NEW s \in LakeSinks, LakeAppend(s)
      PROVE  Faithful'
  <2> DEFINE key == Key(s)
             row == Row(call[s], writes[call[s]].events)
  <2>1. PICK result \in {"ok", "err"} :
          /\ Return(s, result)
          /\ \/ store' = store
             \/ /\ key \in DOMAIN store
                /\ store' = [store EXCEPT ![key] = Append(@, row)]
    BY <1>7 DEF LakeAppend, Row
  <2>2. stage[s] # "idle" /\ s \in AllSinks /\ call[s] \in DOMAIN writes
    <3>1. stage[s] = "append" /\ s \in AllSinks
      BY <1>7, LakeKinds DEF LakeAppend
    <3>2. QED
      BY <3>1 DEF Inv, Shape
  <2>3. WritesKept
    BY <2>1, <2>2, Returned DEF Inv
  <2>4. ASSUME NEW id \in DOMAIN store', NEW i \in DOMAIN store'[id]
        PROVE  \/ /\ id \in DOMAIN store /\ i \in DOMAIN store[id]
                  /\ store'[id][i] = store[id][i]
               \/ store'[id][i] = row
    <3> HIDE DEF key, row
    <3>1. CASE store' = store
      BY <2>4, <3>1
    <3>2. CASE /\ key \in DOMAIN store
               /\ store' = [store EXCEPT ![key] = Append(@, row)]
      <4>1. store[key] \in Seq(Rows)
        BY <3>2 DEF Beliefs, Kept
      <4>2. /\ DOMAIN store' = DOMAIN store /\ store'[key] = Append(store[key], row)
            /\ id # key => store'[id] = store[id]
        BY <2>4, <3>2
      <4>3. CASE id # key
        BY <2>4, <4>2, <4>3
      <4>4. CASE id = key
        <5>1. i \in DOMAIN Append(store[key], row)
          BY <2>4, <4>2, <4>4
        <5>2. \/ i \in DOMAIN store[key] /\ Append(store[key], row)[i] = store[key][i]
              \/ Append(store[key], row)[i] = row
          BY <4>1, <5>1
        <5>3. QED
          BY <3>2, <4>2, <4>4, <5>2
      <4>5. QED
        BY <4>3, <4>4
    <3>3. QED
      BY <2>1, <3>1, <3>2
  <2>5. QED
    BY <2>2, <2>3, <2>4, FaithfulKept
<1>8. QED
  BY <1>1, <1>2, <1>3, <1>4, <1>5, <1>6, <1>7 DEF Next

\* Whoever reads what OpenLakeSink stored, or a batch BatchConverter made, gets the
\* events of the write back, one by one and in order, but for the images, the phase and
\* what was absent; BatchConverter's own batches lose the times and the positions, too
\* (OpenLakeSink::events_to_batch and BatchConverter::batch_to_events).
THEOREM StoredReadsBack == Spec => []BatchesReadBack
<1>1. Init => Faithful
  BY DEF Init, Faithful
<1>2. Inv /\ Beliefs /\ Faithful => BatchesReadBack
  <2> SUFFICES ASSUME Inv, Beliefs, Faithful
               PROVE  BatchesReadBack
    OBVIOUS
  <2>1. ASSUME NEW n \in DOMAIN writes
        PROVE  /\ IsSeq(writes[n].events)
               /\ \A i \in DOMAIN writes[n].events : IsEvent(writes[n].events[i])
    <3>1. writes[n] \in WriteSet
      BY DEF Inv, Shape
    <3>2. PICK batch \in Batches : writes[n].events = Handed(batch)
      BY <3>1 DEF WriteSet, EventLists
    <3>3. QED
      BY <3>2, HandedEvents
  <2>2. StoreReadsBack
    <3>1. SUFFICES ASSUME NEW id \in DOMAIN store, NEW i \in DOMAIN store[id]
                   PROVE  LET entry == store[id][i]
                              events == writes[entry.call].events
                          IN  BatchToEvents(entry.batch, entry.rows) =
                                [j \in DOMAIN events |->
                                   Plain(events[j], LAMBDA v : OrElse(v, 0),
                                         LAMBDA v : OrElse(v, ""))]
      BY DEF StoreReadsBack
    <3>2. PICK entry, events : entry = store[id][i] /\ events = writes[entry.call].events
      OBVIOUS
    <3>3. entry.call \in DOMAIN writes /\ entry = Row(entry.call, events)
      BY <3>2 DEF Beliefs, Kept, Faithful
    <3>4. entry.batch = LakeBatch(events) /\ entry.rows = Len(events)
      BY <3>3 DEF Row
    <3>5. BatchToEvents(LakeBatch(events), Len(events)) =
            [j \in DOMAIN events |-> Plain(events[j], LAMBDA v : OrElse(v, 0),
                                           LAMBDA v : OrElse(v, ""))]
      BY <2>1, <3>2, <3>3, LakeReadsBack
    <3>6. QED
      BY <3>2, <3>4, <3>5
  <2>3. ConverterForgets
    BY <2>1, ConverterReadsBack DEF ConverterForgets
  <2>4. QED
    BY <2>2, <2>3 DEF BatchesReadBack
<1>3. QED
  BY <1>1, <1>2, InvInit, InvNext, BeliefsInit, BeliefsNext, FaithfulNext, PTL DEF Spec

=============================================================================
