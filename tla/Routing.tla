------------------------------- MODULE Routing -------------------------------
(***************************************************************************)
(* The way of a message through LogForwarder.Handle (log/log.go): the data *)
(* of its container, from the cache of container/container.go or from      *)
(* docker, then every backend's sendMessage, which puts it on channels     *)
(* without ever blocking, and the goroutines at their other end.  Handle   *)
(* is called by several goroutines at once: those of the syslog server and *)
(* one for each file monitor.                                              *)
(*                                                                         *)
(* The addresses of a syslog backend share a pool of buffers: a message is *)
(* put together in one buffer, copied for every address but the last, and  *)
(* each goroutine gives back the buffers it has written.  Backends come in *)
(* any order and any number; if syslog is named twice, the two pools are   *)
(* one here, which only lets more happen.                                  *)
(*                                                                         *)
(* External: docker, sync.Pool, the LRU cache and its lock.                *)
(***************************************************************************)
EXTENDS Naturals, Sequences, Functions

CONSTANTS
  Handler,    \* goroutines that call Handle
  Msg,        \* bound: messages under way at a time
  Key,        \* what a message may name its container by: an id or a name
  Names,      \* the containers a key may name; an id names only one
  AppNames,   \* the values a container's environment gives TSURU_APPNAME
  CacheSize,  \* entries of containerCache
  Route,      \* the channels Handle sends a message to, in its order: of each
              \* backend of LOG_BACKENDS, by kind and number, one channel of
              \* LOG_*_BUFFER_SIZE messages, or one for each syslog address
  Buffer      \* bound: buffers

None == "none"
NoBuf == 0
NoMsg == 0

ASSUME RoutingAssumption ==
  /\ Route \in Seq([kind : {"syslog", "tsuru", "gelf"}, backend : Nat, size : Nat])
  /\ CacheSize \in Nat \ {0}
  /\ Buffer \subseteq Nat \ {NoBuf} /\ Msg \subseteq Nat \ {NoMsg}

Target == DOMAIN Route
Syslogs == {t \in Target : Route[t].kind = "syslog"}

\* i == lenSyslogs - 1: the next channel, if any, is another backend's.
LastOfBackend(t) == t + 1 \in Target => Route[t + 1] # Route[t]

Cont == UNION {Names[k] : k \in Key}

\* contData.TsuruApp: the last value counts, and an empty one is none.
TsuruApp(c) == AppNames[c] # <<>> /\ AppNames[c][Len(AppNames[c])] # ""

VARIABLES
  pc,      \* where each call of Handle is: "idle", "inspect", "add", "send"
  msg, key, data,  \* its message, the container's key and its data
  pos,     \* the next target
  buffer,  \* the buffer the message was put together in
  cache,   \* containerCache, the most recently used entry first
  chan,    \* the channel of each target
  taken,   \* what its goroutine took from it: none or one
  pool,    \* what bufferPool.Get may return: buffers given back, and new ones
  text     \* the message in each buffer

handleVars == <<pc, msg, key, data, pos, buffer>>
vars == <<handleVars, cache, chan, taken, pool, text>>

Entry == [key : Key, cont : Cont]
Item == [msg : Msg, key : Key, cont : Cont, buf : Buffer \cup {NoBuf}]

TypeOK ==
  /\ pc \in [Handler -> {"idle", "inspect", "add", "send"}]
  /\ msg \in [Handler -> Msg \cup {NoMsg}] /\ key \in [Handler -> Key \cup {None}]
  /\ data \in [Handler -> Cont \cup {None}]
  /\ pos \in [Handler -> 1 .. Len(Route) + 1] /\ buffer \in [Handler -> Buffer \cup {NoBuf}]
  /\ cache \in Seq(Entry)
  /\ chan \in [Target -> Seq(Item)] /\ taken \in [Target -> Seq(Item)]
  /\ pool \subseteq Buffer /\ text \in [Buffer -> Msg \cup {NoMsg}]

Init ==
  /\ pc = [h \in Handler |-> "idle"]
  /\ msg = [h \in Handler |-> NoMsg] /\ key = [h \in Handler |-> None]
  /\ data = [h \in Handler |-> None]
  /\ pos = [h \in Handler |-> 1] /\ buffer = [h \in Handler |-> NoBuf]
  /\ cache = <<>>
  /\ chan = [t \in Target |-> <<>>] /\ taken = [t \in Target |-> <<>>]
  /\ pool = Buffer /\ text = [b \in Buffer |-> NoMsg]
-----------------------------------------------------------------------------
\* What the channels and their goroutines hold.
Items(t) == Range(chan[t]) \cup Range(taken[t])
Held == UNION {Items(t) : t \in Target}
InUse == {e.buf : e \in Held} \cup Range(buffer)
UnderWay == {e.msg : e \in Held} \cup Range(msg)

\* bufferPool.Get: any buffer of the pool somebody still holds, should there
\* be one, or one nobody holds; those do not differ.
Gets(b) == b \in pool /\ (b \in InUse \/ \A c \in pool \ InUse : b <= c)

\* The pool and the buffers after a step that left `given' in the pool and
\* these texts: a buffer nobody holds is collected, and is as good as the new
\* one Get would make.
Pool(given, texts) ==
  /\ pool' = given \cup (Buffer \ InUse')
  /\ text' = [b \in Buffer |-> IF b \in InUse' THEN texts[b] ELSE NoMsg]

\* lru.Cache: Get moves the entry to the front ...
Cached(k) == \E i \in DOMAIN cache : cache[i].key = k

Place(k) == CHOOSE i \in DOMAIN cache : cache[i].key = k
Lookup(k) == cache[Place(k)]
Without(i) == SubSeq(cache, 1, i - 1) \o SubSeq(cache, i + 1, Len(cache))
Others(k) == IF Cached(k) THEN Without(Place(k)) ELSE cache
Touch(k) == <<Lookup(k)>> \o Others(k)

\* ... and Add replaces an entry with the same key, or makes room by dropping
\* the least recently used one.
Add(k, c) ==
  LET all == <<[key |-> k, cont |-> c]>> \o Others(k)
  IN  IF Len(all) > CacheSize THEN SubSeq(all, 1, CacheSize) ELSE all

\* Handle is called, and getContainer looks in the cache.
Receive(h, m, k) ==
  /\ pc[h] = "idle" /\ m \in Msg \ UnderWay /\ \A n \in Msg \ UnderWay : m <= n
  /\ msg' = [msg EXCEPT ![h] = m] /\ key' = [key EXCEPT ![h] = k]
  /\ IF Cached(k)
     THEN /\ pc' = [pc EXCEPT ![h] = "send"] /\ data' = [data EXCEPT ![h] = Lookup(k).cont]
          /\ cache' = Touch(k)
     ELSE /\ pc' = [pc EXCEPT ![h] = "inspect"] /\ UNCHANGED <<data, cache>>
  /\ UNCHANGED <<pos, buffer, chan, taken, pool, text>>

\* Mutant of InspectOK: the answer is filled into one contData all calls share.
InspectOKShared(h) ==
  /\ pc[h] = "inspect" /\ pc' = [pc EXCEPT ![h] = "add"]
  /\ \E c \in Names[key[h]] :
       data' = [g \in Handler |-> IF g = h \/ pc[g] = "add" THEN c ELSE data[g]]
  /\ UNCHANGED <<msg, key, pos, buffer, cache, chan, taken, pool, text>>

\* InspectContainer answers with the container that has the key now; a name
\* may have passed to another container since the last answer ...
InspectOK(h) ==
  /\ pc[h] = "inspect" /\ pc' = [pc EXCEPT ![h] = "add"]
  /\ \E c \in Names[key[h]] : data' = [data EXCEPT ![h] = c]
  /\ UNCHANGED <<msg, key, pos, buffer, cache, chan, taken, pool, text>>

Done(h) ==
  /\ pc' = [pc EXCEPT ![h] = "idle"]
  /\ msg' = [msg EXCEPT ![h] = NoMsg] /\ key' = [key EXCEPT ![h] = None]
  /\ data' = [data EXCEPT ![h] = None]
  /\ pos' = [pos EXCEPT ![h] = 1] /\ buffer' = [buffer EXCEPT ![h] = NoBuf]

\* ... or an error, because docker does not know the key or for any other
\* reason: the message is ignored.
InspectError(h) ==
  /\ pc[h] = "inspect" /\ Done(h)
  /\ UNCHANGED <<cache, chan, taken, pool, text>>

\* What was inspected is cached, whatever happened meanwhile.
AddToCache(h) ==
  /\ pc[h] = "add" /\ pc' = [pc EXCEPT ![h] = "send"]
  /\ cache' = Add(key[h], data[h])
  /\ UNCHANGED <<msg, key, data, pos, buffer, chan, taken, pool, text>>
-----------------------------------------------------------------------------
\* Mutant of Offer: the send waits for room.
OfferBlocks(t, e) ==
  \/ /\ Len(chan[t]) < Route[t].size
     /\ chan' = [chan EXCEPT ![t] = Append(@, e)] /\ UNCHANGED taken
  \/ /\ Route[t].size = 0 /\ taken[t] = <<>>
     /\ taken' = [taken EXCEPT ![t] = <<e>>] /\ UNCHANGED chan

\* A send that does not block: there is room; or the channel has no buffer and
\* its goroutine, in its select, takes the item at once; or it is dropped, the
\* channel being full or, without a buffer, the goroutine not in its select.
Offer(t, e) ==
  \/ /\ Len(chan[t]) < Route[t].size
     /\ chan' = [chan EXCEPT ![t] = Append(@, e)] /\ UNCHANGED taken
  \/ /\ Route[t].size = 0 /\ taken[t] = <<>>
     /\ taken' = [taken EXCEPT ![t] = <<e>>] /\ UNCHANGED chan
  \/ Len(chan[t]) >= Route[t].size /\ UNCHANGED <<chan, taken>>

ItemOf(h, b) == [msg |-> msg[h], key |-> key[h], cont |-> data[h], buf |-> b]

\* syslogBackend.sendMessage: put the message together ...
Format(h) ==
  /\ pc[h] = "send" /\ pos[h] \in Syslogs /\ buffer[h] = NoBuf
  /\ \E b \in Buffer :
       /\ Gets(b) /\ buffer' = [buffer EXCEPT ![h] = b]
       /\ UNCHANGED <<pc, msg, key, data, pos, cache, chan, taken>>
       /\ Pool(pool \ {b}, [text EXCEPT ![b] = msg[h]])

Advance(h) == pos' = [pos EXCEPT ![h] = @ + 1] /\ UNCHANGED <<pc, msg, key, data, cache>>

\* Mutant of SendCopy: the buffer itself is sent to every address.
SendCopyShared(h) ==
  /\ pc[h] = "send" /\ buffer[h] # NoBuf /\ ~LastOfBackend(pos[h])
  /\ Offer(pos[h], ItemOf(h, buffer[h]))
  /\ Advance(h) /\ UNCHANGED buffer
  /\ Pool(pool, text)

\* ... send a copy of it to every address but the last ...
SendCopy(h) ==
  /\ pc[h] = "send" /\ buffer[h] # NoBuf /\ ~LastOfBackend(pos[h])
  /\ \E b \in Buffer :
       /\ Gets(b) /\ Offer(pos[h], ItemOf(h, b))
       /\ Advance(h) /\ UNCHANGED buffer
       /\ Pool(pool \ {b}, [text EXCEPT ![b] = text[buffer[h]]])

\* ... and the buffer itself to the last.
SendOriginal(h) ==
  /\ pc[h] = "send" /\ buffer[h] # NoBuf /\ LastOfBackend(pos[h])
  /\ Offer(pos[h], ItemOf(h, buffer[h]))
  /\ Advance(h) /\ buffer' = [buffer EXCEPT ![h] = NoBuf]
  /\ Pool(pool, text)

\* sendMessage of the gelf backend, and of the tsuru backend if the container
\* belongs to an application: what they send is not shared.
SendOther(h) ==
  /\ pc[h] = "send" /\ pos[h] \in Target \ Syslogs
  /\ IF Route[pos[h]].kind = "tsuru" /\ ~TsuruApp(data[h])
     THEN UNCHANGED <<chan, taken>>
     ELSE Offer(pos[h], ItemOf(h, NoBuf))
  /\ Advance(h)
  /\ UNCHANGED <<buffer, pool, text>>

\* The message went to every backend, of which there may be none.
Return(h) ==
  /\ pc[h] = "send" /\ pos[h] \notin Target /\ Done(h)
  /\ UNCHANGED <<cache, chan, taken, pool, text>>
-----------------------------------------------------------------------------
\* The goroutine of a channel takes an item ...
Take(t) ==
  /\ taken[t] = <<>> /\ chan[t] # <<>>
  /\ taken' = [taken EXCEPT ![t] = <<Head(chan[t])>>]
  /\ chan' = [chan EXCEPT ![t] = Tail(@)]
  /\ UNCHANGED <<handleVars, cache, pool, text>>

\* ... splitParts writes parts, each in a buffer of its own that it gives
\* back, and ends the message when one fails ...
WritePart(t) ==
  /\ t \in Syslogs /\ taken[t] # <<>>
  /\ \E b \in Buffer, failed \in BOOLEAN :
       /\ Gets(b) /\ taken' = IF failed THEN [taken EXCEPT ![t] = <<>>] ELSE taken
       /\ UNCHANGED <<handleVars, cache, chan>>
       /\ Pool(pool \cup {b}, [text EXCEPT ![b] = text[taken[t][1].buf]])

\* ... and writes the last part, or the whole message, from the buffer it
\* took, which it then gives back.
WriteLast(t) ==
  /\ t \in Syslogs /\ taken[t] # <<>> /\ taken' = [taken EXCEPT ![t] = <<>>]
  /\ UNCHANGED <<handleVars, cache, chan>>
  /\ Pool(pool \cup {taken[t][1].buf}, text)

\* The goroutines of the other backends process what they took.
Process(t) ==
  /\ t \in Target \ Syslogs /\ taken[t] # <<>> /\ taken' = [taken EXCEPT ![t] = <<>>]
  /\ UNCHANGED <<handleVars, cache, chan, pool, text>>

Handle(h) ==
  \/ InspectOK(h) \/ InspectError(h) \/ AddToCache(h)
  \/ Format(h) \/ SendCopy(h) \/ SendOriginal(h) \/ SendOther(h) \/ Return(h)

Next ==
  \/ \E h \in Handler :
       Handle(h) \/ \E m \in Msg, k \in Key : Receive(h, m, k)
  \/ \E t \in Target : Take(t) \/ WritePart(t) \/ WriteLast(t) \/ Process(t)

Spec == Init /\ [][Next]_vars

\* Handle's own steps are taken, docker's answers included (the client has
\* timeouts).  Nothing is assumed of the goroutines that empty the channels.
FairSpec == Spec /\ \A h \in Handler : WF_vars(Handle(h))
-----------------------------------------------------------------------------
\* A message is sent with the data of a container that had its key, never of
\* the container another call looked up meanwhile, and tsuru is sent messages
\* of applications only (log.go:219-231, container.go:111-153).
DataOfItsKey ==
  \A t \in Target : \A e \in Items(t) :
    e.cont \in Names[e.key] /\ (Route[t].kind = "tsuru" => TsuruApp(e.cont))

\* The buffer of a message on its way to an address still holds that message
\* when it is written: it is not in the pool, and neither another call of
\* Handle nor another address has it (syslogforwarder.go:115-142, 182-183, 205-212).
BuffersHold ==
  /\ \A t \in Syslogs : \A e \in Items(t) :
       /\ text[e.buf] = e.msg /\ e.buf \notin pool \cup Range(buffer)
       /\ \A u \in Syslogs \ {t} : \A f \in Items(u) : f.buf # e.buf
  /\ \A h \in Handler : buffer[h] # NoBuf => text[buffer[h]] = msg[h] /\ buffer[h] \notin pool

\* Handle returns although no goroutine ever empties a channel: a slow or
\* stopped backend holds up neither the others nor the syslog server
\* (log.go:224-231, syslogforwarder.go:141-154, gelfforwarder.go:75-84).
HandleReturns == \A h \in Handler : pc[h] # "idle" ~> pc[h] = "idle"
=============================================================================
