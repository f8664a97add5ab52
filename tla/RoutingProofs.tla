---------------------------- MODULE RoutingProofs ----------------------------
(***************************************************************************)
(* Proofs about the way of messages for any number of calls of Handle,     *)
(* addresses, containers and buffers, any backends in any order, and any   *)
(* size of the cache and of the channels, channels without a buffer too.   *)
(***************************************************************************)
EXTENDS Routing, TLAPS

-----------------------------------------------------------------------------
\* Entries and items with the data of their own key.
SoundEntry == {e \in Entry : e.cont \in Names[e.key]}
SoundItem(t) ==
  {e \in Item : /\ e.cont \in Names[e.key]
                /\ Route[t].kind = "tsuru" => TsuruApp(e.cont)
                /\ t \in Syslogs => e.buf \in Buffer}

\* What a call of Handle knows at each point.
HandleInv ==
  /\ pc \in [Handler -> {"idle", "inspect", "add", "send"}]
  /\ msg \in [Handler -> Msg \cup {NoMsg}] /\ key \in [Handler -> Key \cup {None}]
  /\ data \in [Handler -> Cont \cup {None}]
  /\ pos \in [Handler -> 1 .. Len(Route) + 1] /\ buffer \in [Handler -> Buffer \cup {NoBuf}]
  /\ \A h \in Handler : pc[h] # "idle" => msg[h] \in Msg /\ key[h] \in Key
  /\ \A h \in Handler : pc[h] \in {"add", "send"} => data[h] \in Names[key[h]]
  /\ \A h \in Handler : buffer[h] # NoBuf => pc[h] = "send" /\ pos[h] \in Syslogs

\* The cache and the channels hold sound data.
DataInv ==
  /\ cache \in Seq(SoundEntry)
  /\ chan \in [Target -> Seq(Item)] /\ taken \in [Target -> Seq(Item)]
  /\ \A t \in Target : chan[t] \in Seq(SoundItem(t)) /\ taken[t] \in Seq(SoundItem(t))
  /\ \A t \in Target : Len(taken[t]) <= 1

LEMMA RouteFacts ==
  /\ Len(Route) \in Nat /\ Target = 1 .. Len(Route) /\ Syslogs \subseteq Target
  /\ \A t \in Syslogs : Route[t].kind # "tsuru" /\ (~LastOfBackend(t) => t + 1 \in Syslogs)
  BY RoutingAssumption DEF Target, Syslogs, LastOfBackend

LEMMA NoneFacts == NoMsg \notin Msg /\ NoBuf \notin Buffer
  BY RoutingAssumption, Zenon
-----------------------------------------------------------------------------
\* What the cache does keeps its entries sound.
LEMMA LookupSound ==
  ASSUME cache \in Seq(SoundEntry), NEW k, Cached(k)
  PROVE  Place(k) \in 1 .. Len(cache) /\ Lookup(k) \in SoundEntry /\ Lookup(k).key = k
  BY DEF Cached, Lookup, Place

LEMMA OthersSound ==
  ASSUME cache \in Seq(SoundEntry), NEW k
  PROVE  Others(k) \in Seq(SoundEntry)
  <1>1. CASE Cached(k)
    <2>1. Place(k) \in 1 .. Len(cache)
      BY <1>1, LookupSound
    <2>2. \A i \in 1 .. Len(cache) : Without(i) \in Seq(SoundEntry)
      BY DEF Without
    <2> QED
      BY <1>1, <2>1, <2>2 DEF Others
  <1>2. CASE ~Cached(k)
    BY <1>2 DEF Others
  <1> QED
    BY <1>1, <1>2

LEMMA CacheSound ==
  ASSUME cache \in Seq(SoundEntry), NEW k \in Key
  PROVE  /\ Cached(k) => Touch(k) \in Seq(SoundEntry) /\ Lookup(k).cont \in Names[k]
         /\ \A c \in Names[k] : Add(k, c) \in Seq(SoundEntry)
  <1>1. Cached(k) => Touch(k) \in Seq(SoundEntry) /\ Lookup(k).cont \in Names[k]
    BY LookupSound, OthersSound DEF Touch, SoundEntry
  <1>2. ASSUME NEW c \in Names[k] PROVE Add(k, c) \in Seq(SoundEntry)
    <2> DEFINE e == [key |-> k, cont |-> c]
    <2> DEFINE all == <<e>> \o Others(k)
    <2>1. e \in SoundEntry
      BY DEF SoundEntry, Entry, Cont
    <2> HIDE DEF e
    <2>2. all \in Seq(SoundEntry) /\ Len(all) >= 1
      BY <2>1, OthersSound
    <2> HIDE DEF all
    <2>3. Len(all) > CacheSize => SubSeq(all, 1, CacheSize) \in Seq(SoundEntry)
      BY <2>2, RoutingAssumption
    <2> QED
      BY <2>2, <2>3 DEF Add, all, e
  <1> QED
    BY <1>1, <1>2

-----------------------------------------------------------------------------
\* An item is offered to a channel: it is appended, handed over or dropped.
LEMMA OfferFacts ==
  ASSUME DataInv, NEW t \in Target, NEW e \in SoundItem(t), Offer(t, e)
  PROVE  /\ cache' = cache => DataInv'
         /\ \A u \in Target \ {t} : chan'[u] = chan[u] /\ taken'[u] = taken[u]
         /\ \/ chan'[t] = chan[t] /\ taken'[t] = taken[t]
            \/ chan'[t] = Append(chan[t], e) /\ taken'[t] = taken[t]
            \/ chan'[t] = chan[t] /\ taken[t] = <<>> /\ taken'[t] = <<e>>
  <1>1. CASE UNCHANGED <<chan, taken>>
    BY <1>1 DEF DataInv
  <1>2. e \in Item /\ chan[t] \in Seq(Item) /\ chan[t] \in Seq(SoundItem(t))
    BY DEF SoundItem, DataInv
  <1>3. CASE chan' = [chan EXCEPT ![t] = Append(chan[t], e)] /\ taken' = taken
    <2>1. Append(chan[t], e) \in Seq(Item) /\ Append(chan[t], e) \in Seq(SoundItem(t))
      BY <1>2
    <2> QED
      BY <1>3, <2>1 DEF DataInv
  <1>4. CASE taken[t] = <<>> /\ taken' = [taken EXCEPT ![t] = <<e>>] /\ chan' = chan
    <2>1. <<e>> \in Seq(Item) /\ <<e>> \in Seq(SoundItem(t)) /\ Len(<<e>>) = 1
      BY <1>2
    <2> QED
      BY <1>4, <2>1 DEF DataInv
  <1> QED
    BY <1>1, <1>3, <1>4 DEF Offer

\* What a call sends is sound.
LEMMA ItemSound ==
  ASSUME HandleInv, NEW h \in Handler, pc[h] = "send", NEW t \in Target,
         NEW b \in Buffer \cup {NoBuf}, t \in Syslogs => b \in Buffer,
         Route[t].kind = "tsuru" => TsuruApp(data[h])
  PROVE  ItemOf(h, b) \in SoundItem(t) /\ ItemOf(h, b).buf = b /\ ItemOf(h, b).msg = msg[h]
  <1>1. msg[h] \in Msg /\ key[h] \in Key /\ data[h] \in Names[key[h]] /\ data[h] \in Cont
    BY DEF HandleInv, Cont
  <1> QED
    BY <1>1 DEF ItemOf, SoundItem, Item

LEMMA HandleStep == HandleInv /\ DataInv /\ [Next]_vars => HandleInv'
  <1> SUFFICES ASSUME HandleInv, DataInv, [Next]_vars PROVE HandleInv'
    OBVIOUS
  <1> USE RouteFacts, NoneFacts
  <1>0. ASSUME NEW h \in Handler, Done(h) PROVE HandleInv'
    BY <1>0 DEF Done, HandleInv
  <1>1. ASSUME NEW h \in Handler, NEW m \in Msg, NEW k \in Key, Receive(h, m, k) PROVE HandleInv'
    <2>1. CASE Cached(k)
      <3>1. Lookup(k).cont \in Names[k] /\ Lookup(k).cont \in Cont
        BY <2>1, CacheSound DEF DataInv, Cont
      <3> QED
        BY <1>1, <2>1, <3>1 DEF Receive, HandleInv
    <2>2. CASE ~Cached(k)
      BY <1>1, <2>2 DEF Receive, HandleInv
    <2> QED
      BY <2>1, <2>2
  <1>2. ASSUME NEW h \in Handler, InspectOK(h) PROVE HandleInv'
    <2>1. PICK c \in Names[key[h]] : data' = [data EXCEPT ![h] = c]
      BY <1>2, Zenon DEF InspectOK
    <2>2. key[h] \in Key /\ c \in Cont
      BY <1>2, <2>1 DEF InspectOK, HandleInv, Cont
    <2> QED
      BY <1>2, <2>1, <2>2 DEF InspectOK, HandleInv
  <1>3. ASSUME NEW h \in Handler, AddToCache(h) PROVE HandleInv'
    BY <1>3 DEF AddToCache, HandleInv
  <1>4. ASSUME NEW h \in Handler, Format(h) PROVE HandleInv'
    BY <1>4 DEF Format, HandleInv
  <1>5. ASSUME NEW h \in Handler, Advance(h), pos[h] \in Target
        PROVE  /\ pos' \in [Handler -> 1 .. Len(Route) + 1] /\ pos'[h] = pos[h] + 1
               /\ \A g \in Handler \ {h} : pos'[g] = pos[g]
    BY <1>5 DEF Advance, HandleInv
  <1>6. ASSUME NEW h \in Handler, SendCopy(h) PROVE HandleInv'
    <2>1. /\ pos[h] \in Target /\ pos[h] + 1 \in Syslogs /\ Advance(h)
          /\ UNCHANGED <<pc, msg, key, data, buffer>>
      BY <1>6 DEF SendCopy, Advance, HandleInv
    <2> QED
      BY <1>5, <2>1, Zenon DEF HandleInv
  <1>7. ASSUME NEW h \in Handler, SendOriginal(h) \/ SendOther(h) PROVE HandleInv'
    <2>1. /\ pos[h] \in Target /\ Advance(h) /\ UNCHANGED <<pc, msg, key, data>>
          /\ buffer' = [buffer EXCEPT ![h] = NoBuf]
      BY <1>7 DEF SendOriginal, SendOther, Advance, HandleInv
    <2> QED
      BY <1>5, <2>1 DEF HandleInv
  <1>8. CASE UNCHANGED handleVars
    BY <1>8 DEF handleVars, HandleInv
  <1>9. \A t \in Target : Take(t) \/ WritePart(t) \/ WriteLast(t) \/ Process(t) => UNCHANGED handleVars
    BY Zenon DEF Take, WritePart, WriteLast, Process
  <1>10. UNCHANGED vars => UNCHANGED handleVars
    BY DEF vars
  <1>11. \A h \in Handler : InspectError(h) \/ Return(h) => Done(h)
    BY DEF InspectError, Return
  <1> QED
    BY <1>0, <1>1, <1>2, <1>3, <1>4, <1>6, <1>7, <1>8, <1>9, <1>10, <1>11 DEF Next, Handle

\* Everything that is put on a channel, or in the cache, is sound.
LEMMA DataStep == HandleInv /\ DataInv /\ [Next]_vars => DataInv'
  <1> SUFFICES ASSUME HandleInv, DataInv, [Next]_vars PROVE DataInv'
    OBVIOUS
  <1>1. ASSUME NEW h \in Handler, NEW m \in Msg, NEW k \in Key, Receive(h, m, k) PROVE DataInv'
    <2>1. cache' \in Seq(SoundEntry)
      BY <1>1, CacheSound DEF Receive, DataInv
    <2> QED
      BY <1>1, <2>1 DEF Receive, DataInv
  <1>2. ASSUME NEW h \in Handler, AddToCache(h) PROVE DataInv'
    <2>1. key[h] \in Key /\ data[h] \in Names[key[h]]
      BY <1>2 DEF AddToCache, HandleInv
    <2>2. cache' \in Seq(SoundEntry)
      BY <1>2, <2>1, CacheSound DEF AddToCache, DataInv
    <2> QED
      BY <1>2, <2>2 DEF AddToCache, DataInv
  <1>4. ASSUME NEW h \in Handler, SendCopy(h) PROVE DataInv'
    <2>1. pc[h] = "send" /\ pos[h] \in Syslogs /\ pos[h] \in Target /\ Route[pos[h]].kind # "tsuru"
      BY <1>4, RouteFacts DEF SendCopy, HandleInv
    <2>2. PICK b \in Buffer : Offer(pos[h], ItemOf(h, b)) /\ cache' = cache
      BY <1>4 DEF SendCopy, Advance
    <2> QED
      BY <2>1, <2>2, ItemSound, OfferFacts
  <1>5. ASSUME NEW h \in Handler, SendOriginal(h) PROVE DataInv'
    <2>1. /\ pc[h] = "send" /\ pos[h] \in Syslogs /\ pos[h] \in Target /\ Route[pos[h]].kind # "tsuru"
          /\ buffer[h] \in Buffer /\ Offer(pos[h], ItemOf(h, buffer[h])) /\ cache' = cache
      BY <1>5, RouteFacts DEF SendOriginal, Advance, HandleInv
    <2> QED
      BY <2>1, ItemSound, OfferFacts
  <1>6. ASSUME NEW h \in Handler, SendOther(h) PROVE DataInv'
    <2>1. pc[h] = "send" /\ pos[h] \in Target \ Syslogs /\ cache' = cache
      BY <1>6 DEF SendOther, Advance
    <2>2. CASE UNCHANGED <<chan, taken>>
      BY <2>1, <2>2 DEF DataInv
    <2>3. CASE ~UNCHANGED <<chan, taken>>
      <3>1. Offer(pos[h], ItemOf(h, NoBuf)) /\ (Route[pos[h]].kind = "tsuru" => TsuruApp(data[h]))
        BY <1>6, <2>3 DEF SendOther
      <3> QED
        BY <2>1, <3>1, ItemSound, OfferFacts
    <2> QED
      BY <2>2, <2>3
  <1>7. ASSUME NEW t \in Target, Take(t) PROVE DataInv'
    <2>1. /\ chan[t] \in Seq(Item) /\ chan[t] \in Seq(SoundItem(t)) /\ chan[t] # <<>>
          /\ taken' = [taken EXCEPT ![t] = <<Head(chan[t])>>] /\ chan' = [chan EXCEPT ![t] = Tail(chan[t])]
          /\ cache' = cache
      BY <1>7 DEF Take, DataInv
    <2>2. /\ Tail(chan[t]) \in Seq(Item) /\ Tail(chan[t]) \in Seq(SoundItem(t))
          /\ <<Head(chan[t])>> \in Seq(Item) /\ <<Head(chan[t])>> \in Seq(SoundItem(t))
          /\ Len(<<Head(chan[t])>>) = 1
      BY <2>1
    <2> QED
      BY <2>1, <2>2 DEF DataInv
  <1>8. ASSUME NEW t \in Target, WritePart(t) \/ WriteLast(t) \/ Process(t) PROVE DataInv'
    <2>1. taken' = taken \/ taken' = [taken EXCEPT ![t] = <<>>]
      BY <1>8, Zenon DEF WritePart, WriteLast, Process
    <2>2. UNCHANGED <<cache, chan>>
      BY <1>8, Zenon DEF WritePart, WriteLast, Process
    <2>3. CASE taken' = taken
      BY <2>2, <2>3 DEF DataInv
    <2>4. CASE taken' = [taken EXCEPT ![t] = <<>>]
      <3>1. \A u \in Target : taken'[u] = taken[u] \/ taken'[u] = <<>>
        BY <2>4 DEF DataInv
      <3>2. <<>> \in Seq(Item) /\ Len(<<>>) = 0 /\ \A u : <<>> \in Seq(SoundItem(u))
        OBVIOUS
      <3>3. taken' \in [Target -> Seq(Item)]
        BY <2>4, <3>2 DEF DataInv
      <3> QED
        BY <2>2, <3>1, <3>2, <3>3 DEF DataInv
    <2> QED
      BY <2>1, <2>3, <2>4
  <1>10. CASE UNCHANGED <<cache, chan, taken>>
    BY <1>10 DEF DataInv
  <1>11. \A h \in Handler : InspectOK(h) \/ InspectError(h) \/ Format(h) \/ Return(h) =>
           UNCHANGED <<cache, chan, taken>>
    BY Zenon DEF InspectOK, InspectError, Format, Return
  <1>12. UNCHANGED vars => UNCHANGED <<cache, chan, taken>>
    BY DEF vars
  <1> QED
    BY <1>1, <1>2, <1>4, <1>5, <1>6, <1>7, <1>8, <1>10, <1>11, <1>12 DEF Next, Handle
-----------------------------------------------------------------------------
\* The items on their way to address t: place 0 is the goroutine's, the others
\* are the channel's.
Places(t) == {i \in 0 .. Len(chan[t]) : i = 0 => taken[t] # <<>>}
ItemAt(t, i) == IF i = 0 THEN taken[t][1] ELSE chan[t][i]

\* Every buffer on its way is out of the pool and holds its message ...
OutOfPool ==
  /\ \A t \in Syslogs : \A i \in Places(t) :
       ItemAt(t, i).buf \notin pool /\ text[ItemAt(t, i).buf] = ItemAt(t, i).msg
  /\ \A h \in Handler : buffer[h] # NoBuf => buffer[h] \notin pool /\ text[buffer[h]] = msg[h]

\* ... and is in one place only.
OnePlace ==
  /\ \A t, u \in Syslogs : \A i \in Places(t), j \in Places(u) :
       ItemAt(t, i).buf = ItemAt(u, j).buf => t = u /\ i = j
  /\ \A h \in Handler : \A t \in Syslogs : \A i \in Places(t) : ItemAt(t, i).buf # buffer[h]
  /\ \A g, h \in Handler : buffer[g] = buffer[h] /\ buffer[g] # NoBuf => g = h

PoolInv == pool \subseteq Buffer /\ text \in [Buffer -> Msg \cup {NoMsg}]

Inv == HandleInv /\ DataInv /\ PoolInv /\ OutOfPool /\ OnePlace

LEMMA InvInit == Init => Inv
  <1> SUFFICES ASSUME Init PROVE Inv
    OBVIOUS
  <1>1. HandleInv
    BY RouteFacts DEF Init, HandleInv
  <1>2. \A t \in Target : chan[t] = <<>> /\ taken[t] = <<>>
    BY DEF Init
  <1>3. <<>> \in Seq(Item) /\ Len(<<>>) = 0 /\ <<>> \in Seq(SoundEntry)
        /\ \A u : <<>> \in Seq(SoundItem(u))
    OBVIOUS
  <1>4. chan \in [Target -> Seq(Item)] /\ taken \in [Target -> Seq(Item)] /\ cache \in Seq(SoundEntry)
    BY <1>3 DEF Init
  <1>5. DataInv
    BY <1>2, <1>3, <1>4 DEF DataInv
  <1>6. \A t \in Syslogs : Places(t) = {}
    BY <1>2, RouteFacts DEF Places
  <1>7. PoolInv /\ OutOfPool /\ OnePlace
    BY <1>6 DEF Init, PoolInv, OutOfPool, OnePlace
  <1> QED
    BY <1>1, <1>5, <1>7 DEF Inv

\* What is at a place is an item with a buffer.
LEMMA PlaceFacts ==
  ASSUME DataInv, NEW t \in Syslogs
  PROVE  /\ Len(chan[t]) \in Nat
         /\ \A i \in Places(t) : ItemAt(t, i) \in Items(t) /\ ItemAt(t, i).buf \in Buffer
                                /\ ItemAt(t, i).msg \in Msg
  <1>1. chan[t] \in Seq(SoundItem(t)) /\ taken[t] \in Seq(SoundItem(t)) /\ t \in Target
    BY RouteFacts DEF DataInv
  <1>2. \A e \in SoundItem(t) : e.buf \in Buffer /\ e.msg \in Msg
    BY DEF SoundItem, Item
  <1>3. \A i \in Places(t) : ItemAt(t, i) \in SoundItem(t) /\ ItemAt(t, i) \in Items(t)
    BY <1>1 DEF Places, ItemAt, Items, Range
  <1> QED
    BY <1>1, <1>2, <1>3

\* The same of the next state, where every buffer at a place, and every
\* buffer of a call, is in use.
LEMMA PlaceFactsNext ==
  ASSUME DataInv', HandleInv'
  PROVE  /\ \A t \in Syslogs : Len(chan'[t]) \in Nat /\ \A i \in Places(t)' :
              ItemAt(t, i)'.buf \in InUse' \cap Buffer /\ ItemAt(t, i)'.msg \in Msg
         /\ \A h \in Handler : buffer'[h] \in InUse'
  <1>1. ASSUME NEW t \in Syslogs
        PROVE  Len(chan'[t]) \in Nat /\ \A i \in Places(t)' :
                 ItemAt(t, i)'.buf \in InUse' \cap Buffer /\ ItemAt(t, i)'.msg \in Msg
    <2>1. chan'[t] \in Seq(SoundItem(t)) /\ taken'[t] \in Seq(SoundItem(t)) /\ t \in Target
      BY RouteFacts DEF DataInv
    <2>2. \A e \in SoundItem(t) : e.buf \in Buffer /\ e.msg \in Msg
      BY DEF SoundItem, Item
    <2>3. \A i \in Places(t)' : ItemAt(t, i)' \in SoundItem(t) /\ ItemAt(t, i)' \in Items(t)'
      BY <2>1 DEF Places, ItemAt, Items, Range
    <2>4. \A e \in Items(t)' : e.buf \in InUse'
      BY <2>1 DEF InUse, Held
    <2> QED
      BY <2>1, <2>2, <2>3, <2>4
  <1>2. \A h \in Handler : buffer'[h] \in InUse'
    BY DEF HandleInv, InUse, Range
  <1> QED
    BY <1>1, <1>2

\* After a step that leaves `given' in the pool and these texts, a buffer in
\* use that was not given has the text it was left with.
LEMMA PoolFacts ==
  ASSUME NEW given \in SUBSET Buffer, NEW texts \in [Buffer -> Msg \cup {NoMsg}], Pool(given, texts)
  PROVE  /\ PoolInv'
         /\ \A b \in InUse' \cap Buffer : b \notin given => b \notin pool' /\ text'[b] = texts[b]
  BY DEF Pool, PoolInv

\* The places of an address a step does not touch.
LEMMA SamePlaces ==
  ASSUME NEW t, chan'[t] = chan[t], taken'[t] = taken[t]
  PROVE  Places(t)' = Places(t) /\ \A i : ItemAt(t, i)' = ItemAt(t, i)
  BY DEF Places, ItemAt

\* Steps that touch no address's items and no buffer.
LEMMA CalmStep ==
  ASSUME Inv, UNCHANGED <<buffer, pool, text>>,
         \A t \in Syslogs : chan'[t] = chan[t] /\ taken'[t] = taken[t],
         \A h \in Handler : buffer[h] # NoBuf => msg'[h] = msg[h]
  PROVE  PoolInv' /\ OutOfPool' /\ OnePlace'
  <1>1. \A t \in Syslogs : Places(t)' = Places(t) /\ \A i : ItemAt(t, i)' = ItemAt(t, i)
    BY SamePlaces
  <1>2. PoolInv'
    BY DEF Inv, PoolInv
  <1>3. OutOfPool'
    BY <1>1 DEF Inv, OutOfPool
  <1>4. OnePlace'
    BY <1>1 DEF Inv, OnePlace
  <1> QED
    BY <1>2, <1>3, <1>4

\* A message is put together in a buffer of the pool.
LEMMA FormatStep ==
  ASSUME Inv, HandleInv', DataInv', NEW h \in Handler, Format(h)
  PROVE  PoolInv' /\ OutOfPool' /\ OnePlace'
  <1> USE NoneFacts DEF Inv
  <1>1. PICK b \in Buffer :
          /\ b \in pool /\ buffer' = [buffer EXCEPT ![h] = b]
          /\ Pool(pool \ {b}, [text EXCEPT ![b] = msg[h]])
    BY Zenon DEF Format, Gets
  <1>2. UNCHANGED <<msg, chan, taken>> /\ msg[h] \in Msg
    BY DEF Format, HandleInv
  <1> DEFINE texts == [text EXCEPT ![b] = msg[h]]
  <1>3. /\ pool \ {b} \in SUBSET Buffer /\ texts \in [Buffer -> Msg \cup {NoMsg}]
        /\ texts[b] = msg[h] /\ \A c \in Buffer \ {b} : texts[c] = text[c]
    BY <1>2 DEF PoolInv
  <1> HIDE DEF texts
  <1>4. PoolInv' /\ \A c \in InUse' \cap Buffer : c \notin pool \ {b} => c \notin pool' /\ text'[c] = texts[c]
    BY <1>1, <1>3, PoolFacts, Zenon DEF texts
  <1>5. \A t \in Syslogs : Places(t)' = Places(t) /\ \A i : ItemAt(t, i)' = ItemAt(t, i)
    BY <1>2, SamePlaces
  <1>6. buffer'[h] = b /\ \A g \in Handler \ {h} : buffer'[g] = buffer[g]
    BY <1>1 DEF HandleInv
  <1>7. \A g \in Handler : buffer'[g] \in Buffer \cup {NoBuf}
    BY DEF HandleInv
  <1>8. OutOfPool'
    BY <1>1, <1>2, <1>3, <1>4, <1>5, <1>6, <1>7, PlaceFactsNext DEF OutOfPool
  <1>9. OnePlace'
    BY <1>1, <1>5, <1>6 DEF OutOfPool, OnePlace
  <1> QED
    BY <1>4, <1>8, <1>9

\* An address is offered an item with a buffer nobody else has.
LEMMA OfferPlaces ==
  ASSUME DataInv, NEW t \in Syslogs, NEW e \in SoundItem(t), Offer(t, e)
  PROVE  /\ \A u \in Syslogs \ {t} : Places(u)' = Places(u) /\ \A i : ItemAt(u, i)' = ItemAt(u, i)
         /\ \E p : \A i \in Places(t)' : \/ i \in Places(t) /\ ItemAt(t, i)' = ItemAt(t, i)
                                         \/ i = p /\ ItemAt(t, i)' = e
  <1>1. t \in Target /\ Syslogs \subseteq Target
    BY RouteFacts
  <1>2. \A u \in Syslogs \ {t} : chan'[u] = chan[u] /\ taken'[u] = taken[u]
    BY <1>1, OfferFacts
  <1>3. \A u \in Syslogs \ {t} : Places(u)' = Places(u) /\ \A i : ItemAt(u, i)' = ItemAt(u, i)
    BY <1>2, SamePlaces
  <1>4. chan[t] \in Seq(SoundItem(t))
    BY <1>1 DEF DataInv
  <1> DEFINE New(p) == \A i \in Places(t)' : \/ i \in Places(t) /\ ItemAt(t, i)' = ItemAt(t, i)
                                             \/ i = p /\ ItemAt(t, i)' = e
  <1>5. chan'[t] = chan[t] /\ taken'[t] = taken[t] => New(0)
    BY SamePlaces
  <1>6. chan'[t] = Append(chan[t], e) /\ taken'[t] = taken[t] => New(Len(chan[t]) + 1)
    <2> SUFFICES ASSUME chan'[t] = Append(chan[t], e), taken'[t] = taken[t], NEW i \in Places(t)'
                 PROVE  \/ i \in Places(t) /\ ItemAt(t, i)' = ItemAt(t, i)
                        \/ i = Len(chan[t]) + 1 /\ ItemAt(t, i)' = e
      OBVIOUS
    <2>1. /\ Len(chan[t]) \in Nat /\ Len(chan'[t]) = Len(chan[t]) + 1 /\ chan'[t][Len(chan[t]) + 1] = e
          /\ \A k \in 1 .. Len(chan[t]) : chan'[t][k] = chan[t][k]
      BY <1>4
    <2>2. i \in 0 .. Len(chan[t]) + 1 /\ (i = 0 => taken[t] # <<>>)
      BY <2>1 DEF Places
    <2> QED
      BY <2>1, <2>2 DEF Places, ItemAt
  <1>7. chan'[t] = chan[t] /\ taken'[t] = <<e>> => New(0)
    BY DEF Places, ItemAt
  <1>8. \E p : New(p)
    <2>1. \/ chan'[t] = chan[t] /\ taken'[t] = taken[t]
          \/ chan'[t] = Append(chan[t], e) /\ taken'[t] = taken[t]
          \/ chan'[t] = chan[t] /\ taken'[t] = <<e>>
      BY <1>1, OfferFacts
    <2> HIDE DEF New
    <2> QED
      BY <1>5, <1>6, <1>7, <2>1
  <1> QED
    BY <1>3, <1>8

\* A copy for an address, in a buffer of the pool.
LEMMA SendCopyStep ==
  ASSUME Inv, HandleInv', DataInv', NEW h \in Handler, SendCopy(h)
  PROVE  PoolInv' /\ OutOfPool' /\ OnePlace'
  <1> USE NoneFacts DEF Inv
  <1>1. PICK b \in Buffer :
          /\ b \in pool /\ Offer(pos[h], ItemOf(h, b))
          /\ Pool(pool \ {b}, [text EXCEPT ![b] = text[buffer[h]]])
    BY Zenon DEF SendCopy, Gets
  <1>2. pc[h] = "send" /\ pos[h] \in Syslogs /\ pos[h] \in Target /\ Route[pos[h]].kind # "tsuru"
        /\ buffer[h] \in Buffer /\ text[buffer[h]] = msg[h] /\ msg[h] \in Msg
    BY RouteFacts DEF SendCopy, HandleInv, OutOfPool
  <1>3. UNCHANGED <<msg, buffer>>
    BY DEF SendCopy, Advance
  <1> DEFINE texts == [text EXCEPT ![b] = text[buffer[h]]]
  <1> DEFINE e == ItemOf(h, b)
  <1>4. /\ pool \ {b} \in SUBSET Buffer /\ texts \in [Buffer -> Msg \cup {NoMsg}]
        /\ texts[b] = msg[h] /\ \A c \in Buffer \ {b} : texts[c] = text[c]
    BY <1>2 DEF PoolInv
  <1>5. e \in SoundItem(pos[h]) /\ e.buf = b /\ e.msg = msg[h]
    BY <1>2, ItemSound
  <1> HIDE DEF texts, e
  <1>6. PoolInv' /\ \A c \in InUse' \cap Buffer : c \notin pool \ {b} => c \notin pool' /\ text'[c] = texts[c]
    <2>1. Pool(pool \ {b}, texts)
      BY <1>1 DEF texts
    <2> QED
      BY <1>4, <2>1, PoolFacts
  <1>7. PICK t \in Syslogs : t = pos[h] /\ Offer(t, e) /\ e \in SoundItem(t)
    BY <1>1, <1>2, <1>5 DEF e
  <1>7a. PICK x \in SoundItem(t) : x = e
    BY <1>7
  <1>7b. /\ \A u \in Syslogs \ {t} : Places(u)' = Places(u) /\ \A i : ItemAt(u, i)' = ItemAt(u, i)
        /\ \E p : \A i \in Places(t)' : \/ i \in Places(t) /\ ItemAt(t, i)' = ItemAt(t, i)
                                        \/ i = p /\ ItemAt(t, i)' = x
    BY <1>1, <1>7, <1>7a, OfferPlaces
  <1>7c. PICK p : \A i \in Places(t)' : \/ i \in Places(t) /\ ItemAt(t, i)' = ItemAt(t, i)
                                        \/ i = p /\ ItemAt(t, i)' = x
    BY <1>7b
  <1>8. \A u \in Syslogs : \A i \in Places(u)' :
          \/ i \in Places(u) /\ ItemAt(u, i)' = ItemAt(u, i)
          \/ /\ u = t /\ i = p
             /\ ItemAt(u, i)'.buf = b /\ ItemAt(u, i)'.msg = msg[h]
    BY <1>5, <1>7a, <1>7b, <1>7c
  <1>9. \A g \in Handler : buffer'[g] \in Buffer \cup {NoBuf}
    BY DEF HandleInv
  <1>10. OutOfPool'
    BY <1>1, <1>3, <1>4, <1>6, <1>8, <1>9, PlaceFactsNext DEF OutOfPool
  <1>11. OnePlace'
    <2>1. \A u, v \in Syslogs : \A i \in Places(u)', j \in Places(v)' :
            ItemAt(u, i)'.buf = ItemAt(v, j)'.buf => u = v /\ i = j
      BY <1>1, <1>8 DEF OutOfPool, OnePlace
    <2>2. \A g \in Handler : \A u \in Syslogs : \A i \in Places(u)' : ItemAt(u, i)'.buf # buffer'[g]
      BY <1>1, <1>3, <1>8 DEF OutOfPool, OnePlace
    <2>3. \A f, g \in Handler : buffer'[f] = buffer'[g] /\ buffer'[f] # NoBuf => f = g
      BY <1>3 DEF OnePlace
    <2> QED
      BY <2>1, <2>2, <2>3 DEF OnePlace
  <1> QED
    BY <1>6, <1>10, <1>11

\* The buffer itself for the last address: it changes hands.
LEMMA SendOriginalStep ==
  ASSUME Inv, HandleInv', DataInv', NEW h \in Handler, SendOriginal(h)
  PROVE  PoolInv' /\ OutOfPool' /\ OnePlace'
  <1> USE NoneFacts DEF Inv
  <1>1. /\ Offer(pos[h], ItemOf(h, buffer[h])) /\ Pool(pool, text)
        /\ buffer' = [buffer EXCEPT ![h] = NoBuf] /\ msg' = msg
    BY DEF SendOriginal, Advance
  <1>2. pc[h] = "send" /\ pos[h] \in Syslogs /\ pos[h] \in Target /\ Route[pos[h]].kind # "tsuru"
        /\ buffer[h] \in Buffer /\ text[buffer[h]] = msg[h] /\ msg[h] \in Msg
    BY RouteFacts DEF SendOriginal, HandleInv, OutOfPool
  <1>3. buffer'[h] = NoBuf /\ \A g \in Handler \ {h} : buffer'[g] = buffer[g] /\ msg'[g] = msg[g]
    BY <1>1 DEF HandleInv
  <1> DEFINE e == ItemOf(h, buffer[h])
  <1>5. e \in SoundItem(pos[h]) /\ e.buf = buffer[h] /\ e.msg = msg[h]
    BY <1>2, ItemSound
  <1> HIDE DEF e
  <1>6. PoolInv' /\ \A c \in InUse' \cap Buffer : c \notin pool => c \notin pool' /\ text'[c] = text[c]
    BY <1>1, PoolFacts DEF PoolInv
  <1>7. PICK t \in Syslogs : t = pos[h] /\ Offer(t, e) /\ e \in SoundItem(t)
    BY <1>1, <1>2, <1>5 DEF e
  <1>7a. PICK x \in SoundItem(t) : x = e
    BY <1>7
  <1>7b. /\ \A u \in Syslogs \ {t} : Places(u)' = Places(u) /\ \A i : ItemAt(u, i)' = ItemAt(u, i)
        /\ \E p : \A i \in Places(t)' : \/ i \in Places(t) /\ ItemAt(t, i)' = ItemAt(t, i)
                                        \/ i = p /\ ItemAt(t, i)' = x
    BY <1>1, <1>7, <1>7a, OfferPlaces
  <1>7c. PICK p : \A i \in Places(t)' : \/ i \in Places(t) /\ ItemAt(t, i)' = ItemAt(t, i)
                                        \/ i = p /\ ItemAt(t, i)' = x
    BY <1>7b
  <1>8. \A u \in Syslogs : \A i \in Places(u)' :
          \/ i \in Places(u) /\ ItemAt(u, i)' = ItemAt(u, i)
          \/ /\ u = t /\ i = p
             /\ ItemAt(u, i)'.buf = buffer[h] /\ ItemAt(u, i)'.msg = msg[h]
    BY <1>5, <1>7a, <1>7b, <1>7c
  <1>9. \A g \in Handler : buffer'[g] \in Buffer \cup {NoBuf}
    BY DEF HandleInv
  <1>10. OutOfPool'
    BY <1>2, <1>3, <1>6, <1>8, <1>9, PlaceFactsNext DEF OutOfPool
  <1>11. OnePlace'
    <2>1. \A u, v \in Syslogs : \A i \in Places(u)', j \in Places(v)' :
            ItemAt(u, i)'.buf = ItemAt(v, j)'.buf => u = v /\ i = j
      BY <1>8 DEF OnePlace
    <2>2. \A g \in Handler : \A u \in Syslogs : \A i \in Places(u)' : ItemAt(u, i)'.buf # buffer'[g]
      BY <1>2, <1>3, <1>8, <1>9, PlaceFactsNext DEF OnePlace
    <2>3. \A f, g \in Handler : buffer'[f] = buffer'[g] /\ buffer'[f] # NoBuf => f = g
      BY <1>3 DEF OnePlace
    <2> QED
      BY <2>1, <2>2, <2>3 DEF OnePlace
  <1> QED
    BY <1>6, <1>10, <1>11

\* The goroutine of an address takes the first item of its channel.
LEMMA TakeStep ==
  ASSUME Inv, NEW t \in Syslogs, Take(t)
  PROVE  PoolInv' /\ OutOfPool' /\ OnePlace'
  <1> USE DEF Inv
  <1>1. /\ t \in Target /\ chan[t] \in Seq(SoundItem(t)) /\ chan[t] # <<>>
        /\ taken'[t] = <<Head(chan[t])>> /\ chan'[t] = Tail(chan[t]) /\ taken[t] = <<>>
        /\ \A u \in Syslogs \ {t} : chan'[u] = chan[u] /\ taken'[u] = taken[u]
    BY RouteFacts DEF Take, DataInv
  <1>2. UNCHANGED <<msg, buffer, pool, text>>
    BY DEF Take, handleVars
  <1>3. /\ Len(chan[t]) \in Nat \ {0} /\ Len(chan'[t]) = Len(chan[t]) - 1
        /\ taken'[t][1] = chan[t][1]
        /\ \A i \in 1 .. Len(chan[t]) - 1 : chan'[t][i] = chan[t][i + 1]
    BY <1>1
  <1>4. \A i \in Places(t)' : i \in Nat /\ i + 1 \in Places(t) /\ ItemAt(t, i)' = ItemAt(t, i + 1)
    BY <1>3 DEF Places, ItemAt
  <1>5. \A u \in Syslogs \ {t} : Places(u)' = Places(u) /\ \A i : ItemAt(u, i)' = ItemAt(u, i)
    BY <1>1, SamePlaces
  <1>6. PoolInv'
    BY <1>2 DEF PoolInv
  <1>7. OutOfPool'
    <2>1. \A u \in Syslogs : \A i \in Places(u)' :
            ItemAt(u, i)'.buf \notin pool /\ text[ItemAt(u, i)'.buf] = ItemAt(u, i)'.msg
      BY <1>4, <1>5 DEF OutOfPool
    <2> QED
      BY <1>2, <2>1 DEF OutOfPool
  <1>8. OnePlace'
    <2>1. \A u, v \in Syslogs : \A i \in Places(u)', j \in Places(v)' :
            ItemAt(u, i)'.buf = ItemAt(v, j)'.buf => u = v /\ i = j
      BY <1>4, <1>5 DEF OnePlace
    <2>2. \A h \in Handler : \A u \in Syslogs : \A i \in Places(u)' : ItemAt(u, i)'.buf # buffer[h]
      BY <1>4, <1>5 DEF OnePlace
    <2> QED
      BY <1>2, <2>1, <2>2 DEF OnePlace
  <1> QED
    BY <1>6, <1>7, <1>8

LEMMA StillOnePlace ==
  ASSUME OnePlace, UNCHANGED buffer,
         \A u \in Syslogs : \A i \in Places(u)' : i \in Places(u) /\ ItemAt(u, i)' = ItemAt(u, i)
  PROVE  OnePlace'
  <1>1. \A u, v \in Syslogs : \A i \in Places(u)', j \in Places(v)' :
          ItemAt(u, i)'.buf = ItemAt(v, j)'.buf => u = v /\ i = j
    BY DEF OnePlace
  <1>2. \A h \in Handler : \A u \in Syslogs : \A i \in Places(u)' : ItemAt(u, i)'.buf # buffer[h]
    BY DEF OnePlace
  <1>3. \A g, h \in Handler : buffer[g] = buffer[h] /\ buffer[g] # NoBuf => g = h
    BY DEF OnePlace
  <1> QED
    BY <1>1, <1>2, <1>3 DEF OnePlace

\* A step of the goroutine that leaves items where they were, or ends with
\* the one it has, and gives back no buffer of an item that stays.
LEMMA WriteStep ==
  ASSUME Inv, HandleInv', DataInv', UNCHANGED <<handleVars, chan>>,
         NEW t \in Syslogs, taken' = taken \/ taken' = [taken EXCEPT ![t] = <<>>],
         NEW given \in SUBSET Buffer, NEW texts \in [Buffer -> Msg \cup {NoMsg}],
         Pool(given, texts),
         \A u \in Syslogs : \A i \in Places(u)' :
           ItemAt(u, i).buf \notin given /\ texts[ItemAt(u, i).buf] = text[ItemAt(u, i).buf],
         \A h \in Handler : buffer[h] # NoBuf => buffer[h] \notin given /\ texts[buffer[h]] = text[buffer[h]]
  PROVE  PoolInv' /\ OutOfPool' /\ OnePlace'
  <1> USE NoneFacts DEF Inv
  <1>1. PoolInv' /\ \A b \in InUse' \cap Buffer : b \notin given => b \notin pool' /\ text'[b] = texts[b]
    BY PoolFacts
  <1>2. \A u \in Syslogs : taken'[u] = taken[u] \/ taken'[u] = <<>>
    BY RouteFacts DEF DataInv
  <1>3. \A u \in Syslogs : \A i \in Places(u)' : i \in Places(u) /\ ItemAt(u, i)' = ItemAt(u, i)
    BY <1>2 DEF Places, ItemAt
  <1>4. UNCHANGED <<msg, buffer>>
    BY DEF handleVars
  <1>5. OutOfPool'
    <2>1. ASSUME NEW u \in Syslogs, NEW i \in Places(u)'
          PROVE  ItemAt(u, i)'.buf \notin pool' /\ text'[ItemAt(u, i)'.buf] = ItemAt(u, i)'.msg
      <3>1. ItemAt(u, i)'.buf \in InUse' \cap Buffer
        BY PlaceFactsNext
      <3>2. text[ItemAt(u, i).buf] = ItemAt(u, i).msg
        BY <1>3 DEF OutOfPool
      <3> QED
        BY <1>1, <1>3, <3>1, <3>2
    <2>2. ASSUME NEW h \in Handler, buffer'[h] # NoBuf
          PROVE  buffer'[h] \notin pool' /\ text'[buffer'[h]] = msg'[h]
      <3>1. buffer'[h] \in InUse' \cap Buffer
        BY <2>2, PlaceFactsNext DEF HandleInv
      <3>2. text[buffer[h]] = msg[h]
        BY <1>4, <2>2 DEF OutOfPool
      <3> QED
        BY <1>1, <1>4, <2>2, <3>1, <3>2
    <2> QED
      BY <2>1, <2>2 DEF OutOfPool
  <1>6. OnePlace'
    BY <1>3, <1>4, StillOnePlace
  <1> QED
    BY <1>1, <1>5, <1>6

LEMMA TakenPlace ==
  ASSUME DataInv, NEW t \in Syslogs, taken[t] # <<>>
  PROVE  0 \in Places(t) /\ taken[t][1] = ItemAt(t, 0)
  <1>1. Len(chan[t]) \in Nat
    BY PlaceFacts
  <1>2. 0 \in 0 .. Len(chan[t])
    BY <1>1
  <1> QED
    BY <1>2 DEF Places, ItemAt

LEMMA WritePartStep ==
  ASSUME Inv, HandleInv', DataInv', NEW t \in Syslogs, WritePart(t)
  PROVE  PoolInv' /\ OutOfPool' /\ OnePlace'
  <1> USE NoneFacts DEF Inv
  <1>1. PICK b \in Buffer :
          /\ b \in pool /\ (taken' = taken \/ taken' = [taken EXCEPT ![t] = <<>>])
          /\ Pool(pool \cup {b}, [text EXCEPT ![b] = text[taken[t][1].buf]])
    BY Zenon DEF WritePart, Gets
  <1>2. UNCHANGED <<handleVars, chan>> /\ taken[t] # <<>>
    BY DEF WritePart
  <1>3. 0 \in Places(t) /\ taken[t][1] = ItemAt(t, 0)
    BY <1>2, TakenPlace
  <1>4. taken[t][1].buf \in Buffer
    BY <1>3, PlaceFacts
  <1>5. PICK c \in Msg \cup {NoMsg} : c = text[taken[t][1].buf]
    BY <1>4 DEF PoolInv
  <1>6. PICK given \in SUBSET Buffer : given = pool
    BY DEF PoolInv
  <1>7. PICK texts \in [Buffer -> Msg \cup {NoMsg}] : texts = [text EXCEPT ![b] = c]
    BY Zenon DEF PoolInv
  <1>8. Pool(given, texts)
    <2>1. pool \cup {b} = given
      BY <1>1, <1>6
    <2> QED
      BY <1>1, <1>5, <1>7, <2>1, Zenon
  <1>9. \A d \in Buffer \ given : texts[d] = text[d]
    BY <1>1, <1>6, <1>7 DEF PoolInv
  <1>10. \A u \in Syslogs : \A i \in Places(u)' : i \in Places(u)
    BY <1>1, <1>2, RouteFacts DEF Places, DataInv
  <1>11. \A u \in Syslogs : \A i \in Places(u)' :
           ItemAt(u, i).buf \notin given /\ texts[ItemAt(u, i).buf] = text[ItemAt(u, i).buf]
    BY <1>6, <1>9, <1>10, PlaceFacts DEF OutOfPool
  <1>12. \A h \in Handler : buffer[h] # NoBuf => buffer[h] \notin given /\ texts[buffer[h]] = text[buffer[h]]
    BY <1>6, <1>9 DEF OutOfPool, HandleInv
  <1> QED
    BY <1>1, <1>2, <1>8, <1>11, <1>12, WriteStep

\* The buffer that is given back was in no other place.
LEMMA WriteLastStep ==
  ASSUME Inv, HandleInv', DataInv', NEW t \in Syslogs, WriteLast(t)
  PROVE  PoolInv' /\ OutOfPool' /\ OnePlace'
  <1> USE NoneFacts DEF Inv
  <1>1. /\ UNCHANGED <<handleVars, chan>> /\ taken[t] # <<>> /\ taken' = [taken EXCEPT ![t] = <<>>]
        /\ Pool(pool \cup {taken[t][1].buf}, text)
    BY DEF WriteLast
  <1>2. 0 \in Places(t) /\ taken[t][1] = ItemAt(t, 0)
    BY <1>1, TakenPlace
  <1>3. ItemAt(t, 0).buf \in Buffer
    BY <1>2, PlaceFacts
  <1>4. PICK given \in SUBSET Buffer : given = pool \cup {ItemAt(t, 0).buf}
    BY <1>3, Zenon DEF PoolInv
  <1>5. PICK texts \in [Buffer -> Msg \cup {NoMsg}] : texts = text
    BY DEF PoolInv
  <1>6. Pool(given, texts)
    BY <1>1, <1>2, <1>4, <1>5
  <1>7. \A u \in Syslogs : \A i \in Places(u)' : i \in Places(u) /\ ~(u = t /\ i = 0)
    <2>1. taken'[t] = <<>> /\ \A u \in Syslogs \ {t} : taken'[u] = taken[u]
      BY <1>1, RouteFacts DEF DataInv
    <2> QED
      BY <1>1, <2>1 DEF Places
  <1>8. \A u \in Syslogs : \A i \in Places(u)' :
          ItemAt(u, i).buf \notin given /\ texts[ItemAt(u, i).buf] = text[ItemAt(u, i).buf]
    BY <1>2, <1>4, <1>5, <1>7 DEF OutOfPool, OnePlace
  <1>9. \A h \in Handler : buffer[h] # NoBuf => buffer[h] \notin given /\ texts[buffer[h]] = text[buffer[h]]
    BY <1>2, <1>4, <1>5 DEF OutOfPool, OnePlace
  <1> QED
    BY <1>1, <1>6, <1>8, <1>9, WriteStep, Zenon

LEMMA InvNext == Inv /\ [Next]_vars => Inv'
  <1> SUFFICES ASSUME Inv, [Next]_vars PROVE Inv'
    OBVIOUS
  <1> DEFINE Rest == PoolInv' /\ OutOfPool' /\ OnePlace'
  <1>1. HandleInv' /\ DataInv'
    BY HandleStep, DataStep DEF Inv
  <1> SUFFICES Rest
    BY <1>1 DEF Inv
  <1>2. ASSUME NEW h \in Handler,
               InspectOK(h) \/ InspectError(h) \/ AddToCache(h) \/ Return(h)
               \/ \E m \in Msg, k \in Key : Receive(h, m, k)
        PROVE  Rest
    <2>1. buffer[h] = NoBuf
      BY <1>2, RouteFacts DEF InspectOK, InspectError, AddToCache, Return, Receive, Inv, HandleInv
    <2>2. UNCHANGED <<chan, taken, buffer, pool, text>>
      BY <1>2, <2>1 DEF InspectOK, InspectError, Return, Done, AddToCache, Receive, Inv, HandleInv
    <2>3. \A g \in Handler \ {h} : msg'[g] = msg[g]
      BY <1>2 DEF InspectOK, InspectError, Return, Done, AddToCache, Receive, Inv, HandleInv
    <2> QED
      BY <2>1, <2>2, <2>3, CalmStep
  <1>3. ASSUME NEW h \in Handler, SendOther(h) PROVE Rest
    <2>1. pos[h] \in Target \ Syslogs /\ UNCHANGED <<msg, buffer, pool, text>>
      BY <1>3 DEF SendOther, Advance
    <2>2. \A t \in Syslogs : chan'[t] = chan[t] /\ taken'[t] = taken[t]
      BY <1>3, <2>1, RouteFacts DEF SendOther, Offer, Inv, DataInv
    <2> QED
      BY <2>1, <2>2, CalmStep
  <1>4. ASSUME NEW t \in Target \ Syslogs, Take(t) \/ Process(t) PROVE Rest
    <2>1. UNCHANGED <<msg, buffer, pool, text>>
      BY <1>4 DEF Take, Process, handleVars
    <2>2. \A u \in Syslogs : chan'[u] = chan[u] /\ taken'[u] = taken[u]
      BY <1>4, RouteFacts, Zenon DEF Take, Process, Inv, DataInv
    <2> QED
      BY <2>1, <2>2, CalmStep
  <1>5. ASSUME NEW t \in Syslogs, Take(t) PROVE Rest
    BY <1>5, TakeStep
  <1>6. ASSUME NEW t \in Target, WritePart(t) \/ WriteLast(t) PROVE Rest
    <2>1. t \in Syslogs
      BY <1>6, Zenon DEF WritePart, WriteLast
    <2> QED
      BY <1>1, <1>6, <2>1, WritePartStep, WriteLastStep
  <1>7. ASSUME NEW h \in Handler, Format(h) \/ SendCopy(h) \/ SendOriginal(h) PROVE Rest
    BY <1>1, <1>7, FormatStep, SendCopyStep, SendOriginalStep
  <1>8. CASE UNCHANGED vars
    <2>1. UNCHANGED <<msg, buffer, chan, taken, pool, text>>
      BY <1>8 DEF vars, handleVars
    <2> QED
      BY <2>1, CalmStep
  <1>9. \A t \in Target : Process(t) => t \notin Syslogs
    BY DEF Process
  <1> HIDE DEF Rest
  <1> QED
    BY <1>2, <1>3, <1>4, <1>5, <1>6, <1>7, <1>8, <1>9 DEF Next, Handle
-----------------------------------------------------------------------------
\* Messages are sent with the data of a container that had their key, and to
\* tsuru only those of applications, whatever the cache evicts and whichever
\* calls of Handle interleave (log.go:219-231, container.go:111-153).
THEOREM OwnData == Spec => []DataOfItsKey
  <1>1. Inv => DataOfItsKey
    <2> SUFFICES ASSUME Inv, NEW t \in Target, NEW e \in Items(t)
                 PROVE  e.cont \in Names[e.key] /\ (Route[t].kind = "tsuru" => TsuruApp(e.cont))
      BY DEF DataOfItsKey
    <2>1. chan[t] \in Seq(SoundItem(t)) /\ taken[t] \in Seq(SoundItem(t))
      BY DEF Inv, DataInv
    <2>2. e \in SoundItem(t)
      BY <2>1 DEF Items, Range
    <2> QED
      BY <2>2 DEF SoundItem
  <1> QED
    BY <1>1, InvInit, InvNext, PTL DEF Spec

\* A buffer on its way to an address keeps its message until it is written:
\* it is in one place only and not in the pool, although every goroutine
\* takes buffers from the pool and gives them back
\* (syslogforwarder.go:115-142, 182-183, 205-212).
THEOREM BuffersKept == Spec => []BuffersHold
  <1>1. Inv => BuffersHold
    <2> SUFFICES ASSUME Inv PROVE BuffersHold
      OBVIOUS
    <2>1. ASSUME NEW t \in Syslogs, NEW e \in Items(t)
          PROVE  \E i \in Places(t) : e = ItemAt(t, i)
      <3>1. t \in Target /\ chan[t] \in Seq(SoundItem(t)) /\ taken[t] \in Seq(SoundItem(t)) /\ Len(taken[t]) <= 1
        BY RouteFacts DEF Inv, DataInv
      <3>2. CASE e \in Range(chan[t])
        <4>1. PICK i \in 1 .. Len(chan[t]) : e = chan[t][i]
          BY <3>1, <3>2 DEF Range
        <4>2. i \in Places(t) /\ e = ItemAt(t, i)
          BY <3>1, <4>1 DEF Places, ItemAt
        <4> QED
          BY <4>2
      <3>3. CASE e \in Range(taken[t])
        <4>1. e = taken[t][1] /\ taken[t] # <<>>
          BY <3>1, <3>3 DEF Range
        <4>2. 0 \in Places(t) /\ e = ItemAt(t, 0)
          BY <3>1, <4>1 DEF Places, ItemAt
        <4> QED
          BY <4>2
      <3> QED
        BY <2>1, <3>2, <3>3 DEF Items
    <2>2. \A t \in Syslogs : \A e \in Items(t) :
            text[e.buf] = e.msg /\ e.buf \notin pool /\ \A h \in Handler : e.buf # buffer[h]
      BY <2>1 DEF Inv, OutOfPool, OnePlace
    <2>3. \A t \in Syslogs : \A e \in Items(t) : e.buf \notin Range(buffer)
      BY <2>2 DEF Range, Inv, HandleInv
    <2>4. \A t, u \in Syslogs : \A e \in Items(t), f \in Items(u) : t # u => f.buf # e.buf
      BY <2>1 DEF Inv, OnePlace
    <2>5. \A h \in Handler : buffer[h] # NoBuf => text[buffer[h]] = msg[h] /\ buffer[h] \notin pool
      BY DEF Inv, OutOfPool
    <2> QED
      BY <2>2, <2>3, <2>4, <2>5 DEF BuffersHold
  <1> QED
    BY <1>1, InvInit, InvNext, PTL DEF Spec
=============================================================================
