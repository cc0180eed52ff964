---------------------------- MODULE Publication ----------------------------
(***************************************************************************)
(* How a board is published: the collections of aggregate.collect_json,    *)
(* the kept bodies of snapshot.Snapshot and the clear a save makes, and    *)
(* the revisions stream.StreamRegistry hands to each connected page. What  *)
(* the stores hold is a version number, one more with every save; a body   *)
(* is the version its collection read.                                     *)
(***************************************************************************)
EXTENDS Naturals, FiniteSets

CONSTANTS Readers,     \* request threads of /api/data
          Variants,    \* response variants (show_all or not)
          Main,        \* the variant a stream greets its page with
          Clients,     \* stream connections, each made once
          MaxClients,  \* stream_max_clients
          MaxWrites,   \* bound: saves
          MaxGets      \* bound: requests

ASSUME PublicationAssumption ==
  /\ Main \in Variants /\ "nobody" \notin Readers
  /\ IsFiniteSet(Clients) /\ MaxClients \in Nat
  /\ MaxWrites \in Nat /\ MaxGets \in Nat

VARIABLES
  version,    \* what the stores hold
  saving,     \* saves made whose clear is still to come
  cleared,    \* history: the newest save whose clear has run
  entries,    \* Snapshot._entries
  counter,    \* Snapshot._counter
  generation, \* Snapshot._generation
  holder,     \* who holds collect_memo_lock
  get,        \* each reader's request
  offering,   \* the clients the announcement has yet to reach
  client,     \* each stream connection
  gets

vars == <<version, saving, cleared, entries, counter, generation, holder, get,
          offering, client, gets>>

None == [rev |-> 0, ver |-> 0, fresh |-> FALSE]
Nobody == "nobody"
Entry == [rev: Nat, ver: Nat, fresh: BOOLEAN]
GetState == [at: {"idle", "look", "take", "lock", "relook", "retake", "generation",
                  "collect", "publish", "announce", "offer", "replied"},
             key: Variants, floor: Nat, gen: Nat, ver: Nat, rev: Nat]
ClientState == [at: {"off", "greet", "loop", "gone"}, mail: Nat, last: Nat]
Connected == {c \in Clients : client[c].at \in {"greet", "loop"}}

\* Every variable has its type, and no more pages stream than the cap admits.
TypeOK ==
  /\ version \in Nat /\ saving \subseteq Nat /\ cleared \in Nat
  /\ entries \in [Variants -> Entry]
  /\ counter \in Nat /\ generation \in Nat /\ gets \in Nat
  /\ holder \in Readers \cup {Nobody}
  /\ get \in [Readers -> GetState]
  /\ offering \subseteq Clients
  /\ client \in [Clients -> ClientState]
  /\ Cardinality(Connected) <= MaxClients

Init ==
  /\ version = 0 /\ saving = {} /\ cleared = 0
  /\ entries = [k \in Variants |-> None]
  /\ counter = 0 /\ generation = 0 /\ gets = 0
  /\ holder = Nobody
  /\ get = [r \in Readers |-> [at |-> "idle", key |-> Main, floor |-> 0, gen |-> 0,
                               ver |-> 0, rev |-> 0]]
  /\ offering = {}
  /\ client = [c \in Clients |-> [at |-> "off", mail |-> 0, last |-> 0]]

-----------------------------------------------------------------------------
\* A route saves, then drops the published bodies, then replies.
Save ==
  /\ version < MaxWrites
  /\ version' = version + 1 /\ saving' = saving \cup {version + 1}
  /\ UNCHANGED <<cleared, entries, counter, generation, holder, get, offering, client, gets>>

Clear(v) ==
  /\ v \in saving
  /\ saving' = saving \ {v}
  /\ cleared' = IF v > cleared THEN v ELSE cleared
  /\ entries' = [k \in Variants |-> None]
  /\ generation' = generation + 1
  /\ UNCHANGED <<version, counter, holder, get, offering, client, gets>>

\* collect_memo_sec goes by.
Stale(k) ==
  /\ entries[k].fresh
  /\ entries' = [entries EXCEPT ![k].fresh = FALSE]
  /\ UNCHANGED <<version, saving, cleared, counter, generation, holder, get, offering,
                 client, gets>>

-----------------------------------------------------------------------------
In(r, stage) == get[r].at = stage
Moves(r, stage) == get' = [get EXCEPT ![r].at = stage]
Replies(r, ver, rev) == get' = [get EXCEPT ![r].at = "replied", ![r].ver = ver, ![r].rev = rev]
StoresKept == UNCHANGED <<version, saving, cleared, client>>

Get(r, k) ==
  /\ In(r, "idle") \/ In(r, "replied")
  /\ gets < MaxGets /\ gets' = gets + 1
  /\ get' = [get EXCEPT ![r].at = "look", ![r].key = k, ![r].floor = cleared]
  /\ UNCHANGED <<entries, counter, generation, holder, offering>> /\ StoresKept

\* _fresh_snapshot, once before the lock and once under it: the age in one hold
\* of the snapshot's lock, the body in another.
Look(r) ==
  /\ \/ In(r, "look") /\ Moves(r, IF entries[get[r].key].fresh THEN "take" ELSE "lock")
     \/ In(r, "relook") /\ Moves(r, IF entries[get[r].key].fresh THEN "retake" ELSE "generation")
  /\ UNCHANGED <<entries, counter, generation, holder, offering, gets>> /\ StoresKept

Take(r) ==
  /\ In(r, "take") \/ In(r, "retake")
  /\ LET e == entries[get[r].key] IN
     IF e.rev = 0
     THEN Moves(r, IF In(r, "take") THEN "lock" ELSE "generation") /\ UNCHANGED holder
     ELSE /\ Replies(r, e.ver, e.rev)
          /\ holder' = IF In(r, "retake") THEN Nobody ELSE holder
  /\ UNCHANGED <<entries, counter, generation, offering, gets>> /\ StoresKept

\* Slip: no lock across the collection.
SlipLock(r) ==
  /\ In(r, "lock")
  /\ holder' = r /\ Moves(r, "relook")
  /\ UNCHANGED <<entries, counter, generation, offering, gets>> /\ StoresKept

\* One collection at a time: the rest wait, and look again once they have the lock.
Lock(r) ==
  /\ In(r, "lock") /\ holder = Nobody
  /\ holder' = r /\ Moves(r, "relook")
  /\ UNCHANGED <<entries, counter, generation, offering, gets>> /\ StoresKept

\* Read before collecting: a clear from here on is one the collection may miss.
Generation(r) ==
  /\ In(r, "generation")
  /\ get' = [get EXCEPT ![r].at = "collect", ![r].gen = generation]
  /\ UNCHANGED <<entries, counter, generation, holder, offering, gets>> /\ StoresKept

Collect(r) ==
  /\ In(r, "collect")
  /\ get' = [get EXCEPT ![r].at = "publish", ![r].ver = version]
  /\ UNCHANGED <<entries, counter, generation, holder, offering, gets>> /\ StoresKept

\* The collection raised: the lock is released and the request has no body.
CollectFails(r) ==
  /\ In(r, "collect")
  /\ Moves(r, "idle")
  /\ holder' = Nobody
  /\ UNCHANGED <<entries, counter, generation, offering, gets>> /\ StoresKept

\* Slip: a body collected across a clear is kept over the drop.
SlipPublish(r) ==
  /\ In(r, "publish")
  /\ counter' = counter + 1
  /\ entries' = [entries EXCEPT ![get[r].key] =
                   [rev |-> counter + 1, ver |-> get[r].ver, fresh |-> TRUE]]
  /\ get' = [get EXCEPT ![r].at = "announce", ![r].rev = counter + 1]
  /\ UNCHANGED <<holder, generation, offering, gets>> /\ StoresKept

\* publish: the revision is minted whether or not the body is kept. A kept one is
\* announced; one that crossed a clear is answered to its own request alone.
Publish(r) ==
  /\ In(r, "publish")
  /\ counter' = counter + 1
  /\ IF get[r].gen = generation
     THEN /\ entries' = [entries EXCEPT ![get[r].key] =
                           [rev |-> counter + 1, ver |-> get[r].ver, fresh |-> TRUE]]
          /\ get' = [get EXCEPT ![r].at = "announce", ![r].rev = counter + 1]
          /\ UNCHANGED holder
     ELSE /\ Replies(r, get[r].ver, counter + 1)
          /\ holder' = Nobody /\ UNCHANGED entries
  /\ UNCHANGED <<generation, offering, gets>> /\ StoresKept

\* StreamRegistry.publish: the clients listed in one hold ...
List(r) ==
  /\ In(r, "announce")
  /\ offering' = Connected
  /\ Moves(r, "offer")
  /\ UNCHANGED <<entries, counter, generation, holder, gets>> /\ StoresKept

\* Slip: a mailbox that is full keeps what it holds.
SlipOffer(r, c) ==
  /\ In(r, "offer") /\ c \in offering
  /\ offering' = offering \ {c}
  /\ client' = [client EXCEPT ![c].mail = IF @ = 0 THEN get[r].rev ELSE @]
  /\ UNCHANGED <<version, saving, cleared, entries, counter, generation, holder, get, gets>>

\* ... and each mailbox filled outside it, the newest revision replacing the last.
Offer(r, c) ==
  /\ In(r, "offer") /\ c \in offering
  /\ offering' = offering \ {c}
  /\ client' = [client EXCEPT ![c].mail = get[r].rev]
  /\ UNCHANGED <<version, saving, cleared, entries, counter, generation, holder, get, gets>>

Announced(r) ==
  /\ In(r, "offer") /\ offering = {}
  /\ Moves(r, "replied")
  /\ holder' = Nobody
  /\ UNCHANGED <<entries, counter, generation, offering, gets>> /\ StoresKept

-----------------------------------------------------------------------------
Streams(c, state) ==
  /\ client' = [client EXCEPT ![c] = state]
  /\ UNCHANGED <<version, saving, cleared, entries, counter, generation, holder, get,
                 offering, gets>>

\* Slip: one too many.
SlipConnect(c) ==
  /\ client[c].at = "off" /\ Cardinality(Connected) <= MaxClients
  /\ Streams(c, [client[c] EXCEPT !.at = "greet"])

\* register, refused at the cap.
Connect(c) ==
  /\ client[c].at = "off" /\ Cardinality(Connected) < MaxClients
  /\ Streams(c, [client[c] EXCEPT !.at = "greet"])

\* The page is told of the body there is, when there is one, then the loop begins.
Greet(c) ==
  /\ client[c].at = "greet"
  /\ LET e == entries[Main] IN
     Streams(c, [client[c] EXCEPT !.at = "loop", !.last = IF e.rev = 0 THEN @ ELSE e.rev])

\* wait() empties the mailbox and the revision is written.
Emit(c) ==
  /\ client[c].at = "loop" /\ client[c].mail > 0
  /\ Streams(c, [client[c] EXCEPT !.mail = 0, !.last = client[c].mail])

\* The peer is gone or a write failed: released.
Leave(c) ==
  /\ c \in Connected
  /\ Streams(c, [at |-> "gone", mail |-> 0, last |-> 0])

\* close_all: the stop drops every stream.
CloseAll ==
  /\ Connected # {}
  /\ client' = [c \in Clients |->
       IF c \in Connected THEN [at |-> "gone", mail |-> 0, last |-> 0] ELSE client[c]]
  /\ UNCHANGED <<version, saving, cleared, entries, counter, generation, holder, get,
                 offering, gets>>

Collector(r) ==
  \/ Look(r) \/ Take(r) \/ Lock(r) \/ Generation(r) \/ Collect(r) \/ CollectFails(r)
  \/ Publish(r) \/ List(r) \/ Announced(r) \/ \E c \in Clients : Offer(r, c)

Next ==
  \/ Save \/ \E v \in saving : Clear(v)
  \/ \E k \in Variants : Stale(k)
  \/ \E r \in Readers : Collector(r) \/ \E k \in Variants : Get(r, k)
  \/ \E c \in Clients : Connect(c) \/ Greet(c) \/ Emit(c) \/ Leave(c)
  \/ CloseAll

Spec == Init /\ [][Next]_vars
-----------------------------------------------------------------------------
\* A page reads its own save: an answer never shows the stores as they were before
\* a clear that had run when the request was made (Snapshot.publish, DRC-4760).
ReadYourWrites == \A r \in Readers : In(r, "replied") => get[r].ver >= get[r].floor

\* Every body a client was handed is ordered by its revision: a later one never
\* shows older stores, whichever variant or request it answered.
RevisionsOrdered ==
  \A r, q \in Readers :
    In(r, "replied") /\ In(q, "replied") /\ get[r].rev < get[q].rev => get[r].ver <= get[q].ver

\* A stream with nothing in its mailbox has sent a revision no older than the body
\* its page would be served, unless the announcement is still on its way.
StreamCurrent ==
  \A c \in Clients :
    client[c].at = "loop" /\ client[c].mail = 0 =>
      \/ client[c].last >= entries[Main].rev
      \/ \E r \in Readers : In(r, "announce") \/ (In(r, "offer") /\ c \in offering)
=============================================================================
