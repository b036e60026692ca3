------------------------ MODULE FilterServiceProofs ------------------------
(***************************************************************************)
(* Theorems about FilterService, for any number of requests, participants, *)
(* events and filters.                                                     *)
(***************************************************************************)
EXTENDS FilterService, TLAPS

----------------------------------------------------------------------------
(* Types.  Filters that are known anywhere have been created, and a request *)
(* that works on a filter or an event has one.                             *)

Known  == Maybe(1..made)
Labels == {"idle", "create", "build", "put", "remove", "release",
           "listen", "note", "lookup", "unlisten", "forget"}
EventLabels == {"listen", "note", "lookup", "unlisten", "forget"}

MapTyped ==
    /\ participantsPipes \in [Keys -> Known]
    /\ writers \subseteq Requests
    /\ seen \in [Requests -> [Keys -> Known]]

PipesTyped ==
    /\ made \in 0..MaxFilters
    /\ pipelines \subseteq 1..made /\ failed \subseteq 1..made

EventsTyped ==
    /\ listener \in [Filters -> [Events -> Maybe(Listeners)]]
    /\ active \in [Filters -> [Events -> SUBSET Listeners]]
    /\ listened \in 0..MaxListeners

\* What a request at a label has set.
Has(label, k, e, f) ==
    /\ label # "idle" => k # Nil
    /\ label \notin {"idle", "create"} => f # Nil
    /\ label \in EventLabels => e # Nil

LocalsTyped ==
    /\ request \in [Requests -> Labels]
    /\ key \in [Requests -> Maybe(Keys)]
    /\ event \in [Requests -> Maybe(Events)]
    /\ options \in [Requests -> Known]
    /\ found \in [Requests -> Maybe(Listeners)]
    /\ \A r \in Requests : Has(request[r], key[r], event[r], options[r])

TInv == /\ MapTyped /\ PipesTyped /\ EventsTyped /\ LocalsTyped
        /\ apart \in BOOLEAN /\ calm \in BOOLEAN

LEMMA InvTyped == TInv => TypeOK
<1> SUFFICES ASSUME TInv PROVE TypeOK
  OBVIOUS
<1>1. Known \subseteq Maybe(Filters)
  BY BoundAssumption DEF TInv, PipesTyped, Known, Maybe, Filters
<1> QED
  BY <1>1 DEF TInv, MapTyped, PipesTyped, EventsTyped, LocalsTyped, Labels, TypeOK

LEMMA InitTyped == Init => TInv
<1> SUFFICES ASSUME Init PROVE TInv
  OBVIOUS
<1> USE BoundAssumption
<1>1. apart \in BOOLEAN /\ calm \in BOOLEAN
  BY Zenon DEF Init
<1>2. MapTyped /\ PipesTyped /\ EventsTyped
  BY DEF Init, MapTyped, PipesTyped, EventsTyped, Empty, Known, Maybe
<1>3. LocalsTyped
  BY DEF Init, LocalsTyped, Labels, EventLabels, Known, Maybe, Has
<1> QED
  BY <1>1, <1>2, <1>3 DEF TInv

\* The histories are Booleans after every step.
LEMMA HistoriesTyped ==
    ASSUME TypeOK, [Next]_vars
    PROVE  apart' \in BOOLEAN /\ calm' \in BOOLEAN
<1>1. CASE UNCHANGED <<apart, calm>>
  BY <1>1, Zenon DEF TypeOK
<1>2. ASSUME NEW r \in Requests, Step(r) PROVE apart' \in BOOLEAN /\ calm' \in BOOLEAN
  <2>1. CASE BeginWrite(r)
    BY <2>1, Zenon DEF BeginWrite, TypeOK
  <2>2. ASSUME NEW k \in Keys, AddFilter(r, k) PROVE apart' \in BOOLEAN /\ calm' \in BOOLEAN
    BY <2>2, Zenon DEF AddFilter, Arrives, TypeOK
  <2>3. ASSUME NEW k \in Keys, RemoveFilter(r, k) PROVE apart' \in BOOLEAN /\ calm' \in BOOLEAN
    BY <2>3, Zenon DEF RemoveFilter, Arrives, TypeOK
  <2>4. ASSUME NEW k \in Keys, NEW e \in Events, 
               SubscribeFilterEvent(r, k, e) \/ UnsubscribeFilterEvent(r, k, e)
        PROVE  apart' \in BOOLEAN /\ calm' \in BOOLEAN
    BY <2>4, Zenon DEF SubscribeFilterEvent, UnsubscribeFilterEvent, Arrives, TypeOK
  <2>5. CASE CreateMediaPipeline(r) \/ CreateFilter(r)
    BY <2>5, <1>1 DEF CreateMediaPipeline, CreateFilter, Answered, map
  <2>6. CASE Put(r) \/ Remove(r) \/ Release(r)
    BY <2>6, <1>1 DEF Put, Remove, Release, EndWrite, Answered, map
  <2>7. CASE Listen(r) \/ AddListener(r) \/ GetListener(r) \/ Unlisten(r) \/ RemoveListener(r)
    BY <2>7, <1>1 DEF Listen, AddListener, GetListener, Unlisten, RemoveListener, Answered, map
  <2> QED
    BY <1>2, <2>1, <2>2, <2>3, <2>4, <2>5, <2>6, <2>7 DEF Step
<1> QED
  BY <1>1, <1>2 DEF Next, vars, map

\* A request goes on with other local variables.
LEMMA LocalsKeep ==
    ASSUME LocalsTyped, PipesTyped, made' \in Nat, made <= made',
           NEW r \in Requests, NEW label \in Labels,
           NEW k \in Maybe(Keys), NEW e \in Maybe(Events),
           NEW f \in Maybe(1..made'), NEW x \in Maybe(Listeners),
           Has(label, k, e, f),
           request' = [request EXCEPT ![r] = label],
           key' = [key EXCEPT ![r] = k], event' = [event EXCEPT ![r] = e],
           options' = [options EXCEPT ![r] = f], found' = [found EXCEPT ![r] = x]
    PROVE  LocalsTyped'
<1>1. made \in Nat /\ 1..made \subseteq 1..(made')
  BY BoundAssumption DEF PipesTyped
<1>2. options' \in [Requests -> Known']
  BY <1>1 DEF LocalsTyped, Known, Maybe
<1>3. /\ request' \in [Requests -> Labels] /\ key' \in [Requests -> Maybe(Keys)]
      /\ event' \in [Requests -> Maybe(Events)] /\ found' \in [Requests -> Maybe(Listeners)]
  BY DEF LocalsTyped
<1>4. ASSUME NEW q \in Requests PROVE Has(request'[q], key'[q], event'[q], options'[q])
  BY DEF LocalsTyped
<1> QED
  BY <1>2, <1>3, <1>4 DEF LocalsTyped

\* It goes on with the ones it has.
LEMMA GoesTyped ==
    ASSUME LocalsTyped, PipesTyped, NEW r \in Requests, NEW from, NEW to \in Labels,
           Goes(r, from, to), UNCHANGED <<locals, made>>,
           Has(to, key[r], event[r], options[r])
    PROVE  LocalsTyped'
<1>1. made' \in Nat /\ made <= made'
  BY BoundAssumption DEF PipesTyped
<1>2. /\ key[r] \in Maybe(Keys) /\ event[r] \in Maybe(Events)
      /\ options[r] \in Maybe(1..made') /\ found[r] \in Maybe(Listeners)
  BY DEF LocalsTyped, Known, locals
<1>3. /\ key' = [key EXCEPT ![r] = key[r]] /\ event' = [event EXCEPT ![r] = event[r]]
      /\ options' = [options EXCEPT ![r] = options[r]] /\ found' = [found EXCEPT ![r] = found[r]]
  BY DEF LocalsTyped, locals
<1> QED
  BY <1>1, <1>2, <1>3, LocalsKeep DEF Goes

\* It has been given a listener.
LEMMA FoundTyped ==
    ASSUME LocalsTyped, NEW r \in Requests, NEW from, NEW to \in Labels,
           NEW x \in Maybe(Listeners), Goes(r, from, to),
           found' = [found EXCEPT ![r] = x], UNCHANGED <<key, event, options, made>>,
           Has(to, key[r], event[r], options[r])
    PROVE  LocalsTyped'
<1>1. request' \in [Requests -> Labels] /\ found' \in [Requests -> Maybe(Listeners)]
  BY DEF LocalsTyped, Goes
<1>2. ASSUME NEW q \in Requests PROVE Has(request'[q], key'[q], event'[q], options'[q])
  BY DEF LocalsTyped, Goes
<1> QED
  BY <1>1, <1>2 DEF LocalsTyped, Known

LEMMA AnsweredTyped ==
    ASSUME LocalsTyped, PipesTyped, NEW r \in Requests, NEW from,
           Answered(r, from), UNCHANGED made
    PROVE  LocalsTyped'
<1>1. made' \in Nat /\ made <= made'
  BY BoundAssumption DEF PipesTyped
<1>2. "idle" \in Labels /\ Has("idle", Nil, Nil, Nil)
  BY DEF Labels, Has, EventLabels
<1> QED
  BY <1>1, <1>2, LocalsKeep DEF Answered, Goes, Maybe

LEMMA ArrivesTyped ==
    ASSUME MapTyped, LocalsTyped, PipesTyped, NEW r \in Requests, NEW k \in Keys,
           NEW e \in Maybe(Events), NEW label \in {"create", "remove", "listen", "lookup"},
           Arrives(r, k, label), event' = [event EXCEPT ![r] = e],
           label # "create" => participantsPipes[k] # Nil,
           label \in {"listen", "lookup"} => e # Nil
    PROVE  LocalsTyped'
<1>1. made' \in Nat /\ made <= made'
  BY BoundAssumption DEF PipesTyped, Arrives, pipes
<1>2. participantsPipes[k] \in Maybe(1..made')
  BY DEF MapTyped, Known, Arrives, pipes
<1>3. label \in Labels /\ k \in Maybe(Keys) /\ found[r] \in Maybe(Listeners)
  BY DEF Labels, Maybe, LocalsTyped
<1>4. found' = [found EXCEPT ![r] = found[r]]
  BY DEF LocalsTyped, Arrives
<1>5. Has(label, k, e, participantsPipes[k])
  BY NilAssumption DEF Has, EventLabels
<1> QED
  BY <1>1, <1>2, <1>3, <1>4, <1>5, LocalsKeep DEF Arrives, Goes

\* A write of the map ends.
LEMMA EndWriteTyped ==
    ASSUME MapTyped, NEW r, NEW value \in Known, EndWrite(r, value), UNCHANGED made
    PROVE  MapTyped'
<1>1. PICK table \in {participantsPipes, seen[r]} :
         participantsPipes' = [table EXCEPT ![key[r]] = value]
  BY DEF EndWrite
<1>2. r \in Requests /\ table \in [Keys -> Known]
  BY <1>1 DEF EndWrite, MapTyped
<1>3. participantsPipes' \in [Keys -> Known]
  BY <1>1, <1>2
<1>4. Empty \in [Keys -> Known]
  BY DEF Empty, Known, Maybe
<1> QED
  BY <1>3, <1>4 DEF EndWrite, MapTyped, Known

\* The requests about filters.
LEMMA FiltersTyped ==
    ASSUME TInv, NEW r \in Requests,
           \/ \E k \in Keys : AddFilter(r, k) \/ RemoveFilter(r, k)
           \/ BeginWrite(r) \/ CreateMediaPipeline(r) \/ CreateFilter(r)
           \/ Put(r) \/ Remove(r) \/ Release(r)
    PROVE  MapTyped' /\ PipesTyped' /\ EventsTyped' /\ LocalsTyped'
<1> USE DEF TInv
<1>0. /\ request[r] # "idle" => key[r] # Nil
      /\ request[r] \notin {"idle", "create"} => options[r] # Nil
      /\ options[r] \in Known /\ event[r] \in Maybe(Events)
      /\ event' = event => event' = [event EXCEPT ![r] = event[r]]
  BY DEF LocalsTyped, Has
<1>1. ASSUME NEW k \in Keys, AddFilter(r, k) \/ RemoveFilter(r, k)
      PROVE  MapTyped' /\ PipesTyped' /\ EventsTyped' /\ LocalsTyped'
  <2>1. UNCHANGED <<participantsPipes, writers, seen, events, pipes, event>>
    BY <1>1 DEF AddFilter, RemoveFilter, Arrives
  <2>2. LocalsTyped'
    BY <1>0, <1>1, <2>1, ArrivesTyped DEF AddFilter, RemoveFilter
  <2> QED
    BY <2>1, <2>2 DEF MapTyped, PipesTyped, EventsTyped, events, pipes, Known
<1>2. CASE BeginWrite(r)
  <2>1. UNCHANGED <<participantsPipes, events, pipes, locals, request>>
    BY <1>2 DEF BeginWrite
  <2>2. MapTyped'
    BY <1>2, <2>1 DEF BeginWrite, MapTyped, pipes, Known
  <2> QED
    BY <2>1, <2>2 DEF PipesTyped, EventsTyped, LocalsTyped, events, pipes, locals, Known
<1>3. CASE CreateMediaPipeline(r)
  <2>1. UNCHANGED <<map, events, failed>>
    BY <1>3 DEF CreateMediaPipeline
  <2>2. CASE Answered(r, "create") /\ UNCHANGED <<made, pipelines>>
    BY <2>1, <2>2, AnsweredTyped DEF MapTyped, PipesTyped, EventsTyped, events, map, Known
  <2>3. CASE /\ made < MaxFilters /\ Goes(r, "create", "build")
             /\ made' = made + 1 /\ pipelines' = pipelines \cup {made + 1}
             /\ options' = [options EXCEPT ![r] = made + 1]
             /\ UNCHANGED <<key, event, found>>
    <3>1. made \in Nat /\ made' \in Nat /\ made <= made' /\ made' \in 0..MaxFilters
          /\ 1..made \subseteq 1..(made') /\ made + 1 \in 1..(made')
      BY <2>3, BoundAssumption DEF PipesTyped
    <3>2. PipesTyped'
      BY <2>1, <2>3, <3>1 DEF PipesTyped
    <3>3. MapTyped' /\ EventsTyped'
      BY <2>1, <3>1 DEF MapTyped, EventsTyped, map, events, Known, Maybe
    <3>4. "build" \in Labels /\ Has("build", key[r], event[r], made + 1)
      BY <1>0, <2>3, <3>1, NilAssumption DEF Labels, Has, EventLabels, Goes
    <3>5. /\ key' = [key EXCEPT ![r] = key[r]] /\ event' = [event EXCEPT ![r] = event[r]]
          /\ found' = [found EXCEPT ![r] = found[r]]
          /\ key[r] \in Maybe(Keys) /\ found[r] \in Maybe(Listeners)
          /\ made + 1 \in Maybe(1..(made'))
      BY <2>3, <3>1 DEF LocalsTyped, Maybe
    <3> QED
      BY <1>0, <2>3, <3>1, <3>2, <3>3, <3>4, <3>5, LocalsKeep DEF Goes
  <2> QED
    BY <1>3, <2>2, <2>3 DEF CreateMediaPipeline
<1>4. CASE CreateFilter(r)
  <2>1. UNCHANGED <<map, events, made, pipelines>> /\ request[r] = "build"
    BY <1>4 DEF CreateFilter, Goes, Answered
  <2>2. CASE Goes(r, "build", "put") /\ UNCHANGED <<failed, locals>>
    <3>1. "put" \in Labels /\ Has("put", key[r], event[r], options[r])
      BY <1>0, <2>1 DEF Labels, Has, EventLabels
    <3> QED
      BY <2>1, <2>2, <3>1, GoesTyped DEF MapTyped, PipesTyped, EventsTyped, events, map, Known
  <2>3. CASE Answered(r, "build") /\ failed' = failed \cup {options[r]}
    <3>1. options[r] \in 1..made
      BY <1>0, <2>1 DEF Known, Maybe
    <3> QED
      BY <2>1, <2>3, <3>1, AnsweredTyped DEF MapTyped, PipesTyped, EventsTyped, events, map, Known
  <2> QED
    BY <1>4, <2>2, <2>3 DEF CreateFilter
<1>5. CASE Put(r)
  BY <1>0, <1>5, EndWriteTyped, AnsweredTyped
     DEF Put, EndWrite, PipesTyped, EventsTyped, events, pipes
<1>6. CASE Remove(r)
  <2>1. "release" \in Labels /\ Has("release", key[r], event[r], options[r]) /\ Nil \in Known
    BY <1>0, <1>6 DEF Labels, Has, EventLabels, Remove, Goes, Known, Maybe
  <2> QED
    BY <1>6, <2>1, EndWriteTyped, GoesTyped
       DEF Remove, EndWrite, PipesTyped, EventsTyped, events, pipes
<1>7. CASE Release(r)
  <2>1. UNCHANGED <<map, listener, listened, made>> /\ Answered(r, "release")
    BY <1>7 DEF Release
  <2>2. options[r] \in 1..made
    BY <1>0, <2>1 DEF Answered, Goes, Known, Maybe
  <2>3. PipesTyped'
    BY <1>7, <2>1, <2>2 DEF Release, PipesTyped
  <2>4. EventsTyped'
    BY <1>7, <2>1 DEF Release, EventsTyped
  <2> QED
    BY <2>1, <2>3, <2>4, AnsweredTyped DEF MapTyped, map, Known
<1> QED
  BY <1>1, <1>2, <1>3, <1>4, <1>5, <1>6, <1>7

\* And those about their events.
LEMMA ListenersTyped ==
    ASSUME TInv, NEW r \in Requests,
           \/ \E k \in Keys, e \in Events :
                 SubscribeFilterEvent(r, k, e) \/ UnsubscribeFilterEvent(r, k, e)
           \/ Listen(r) \/ AddListener(r) \/ GetListener(r) \/ Unlisten(r) \/ RemoveListener(r)
    PROVE  MapTyped' /\ PipesTyped' /\ EventsTyped' /\ LocalsTyped'
<1> USE DEF TInv
<1>0. /\ request[r] # "idle" => key[r] # Nil
      /\ request[r] \notin {"idle", "create"} => options[r] # Nil /\ options[r] \in Filters
      /\ request[r] \in EventLabels => event[r] # Nil /\ event[r] \in Events
      /\ options[r] \in Known /\ event[r] \in Maybe(Events) /\ found[r] \in Maybe(Listeners)
  BY BoundAssumption DEF LocalsTyped, Has, Known, Maybe, PipesTyped, Filters
<1>1. ASSUME NEW k \in Keys, NEW e \in Events,
             SubscribeFilterEvent(r, k, e) \/ UnsubscribeFilterEvent(r, k, e)
      PROVE  MapTyped' /\ PipesTyped' /\ EventsTyped' /\ LocalsTyped'
  <2>1. UNCHANGED <<participantsPipes, writers, seen, events, pipes>>
    BY <1>1 DEF SubscribeFilterEvent, UnsubscribeFilterEvent, Arrives
  <2>2. e \in Maybe(Events) /\ e # Nil
    BY NilAssumption DEF Maybe
  <2>3. LocalsTyped'
    BY <1>1, <2>2, ArrivesTyped DEF SubscribeFilterEvent, UnsubscribeFilterEvent
  <2> QED
    BY <2>1, <2>3 DEF MapTyped, PipesTyped, EventsTyped, events, pipes, Known
<1>2. CASE Listen(r)
  <2>1. UNCHANGED <<map, pipes, listener>>
    BY <1>2 DEF Listen
  <2>2. MapTyped' /\ PipesTyped'
    BY <2>1 DEF MapTyped, PipesTyped, map, pipes, Known
  <2>3. CASE Answered(r, "listen") /\ UNCHANGED <<listened, active>>
    BY <2>1, <2>2, <2>3, AnsweredTyped DEF EventsTyped, pipes
  <2>4. CASE /\ Goes(r, "listen", "note") /\ listened < MaxListeners
             /\ listened' = listened + 1
             /\ active' = [active EXCEPT ![options[r]][event[r]] = Heard(r) \cup {listened'}]
             /\ found' = [found EXCEPT ![r] = listened']
             /\ UNCHANGED <<key, event, options>>
    <3>1. listened' \in Listeners /\ listened' \in 0..MaxListeners
      BY <2>4, BoundAssumption DEF EventsTyped, Listeners
    <3>2. active' \in [Filters -> [Events -> SUBSET Listeners]]
      <4>1. Heard(r) \cup {listened'} \in SUBSET Listeners
        BY <1>0, <2>4, <3>1 DEF EventsTyped, Heard, Goes, EventLabels
      <4> QED
        BY <2>4, <4>1 DEF EventsTyped
    <3>3. "note" \in Labels /\ Has("note", key[r], event[r], options[r])
      BY <1>0, <2>4 DEF Labels, Has, EventLabels, Goes
    <3>4. LocalsTyped'
      <4>1. listened' \in Maybe(Listeners) /\ UNCHANGED made
        BY <2>1, <3>1 DEF Maybe, pipes
      <4> QED
        BY <2>4, <3>3, <4>1, FoundTyped
    <3> QED
      BY <2>1, <2>2, <3>1, <3>2, <3>4 DEF EventsTyped
  <2> QED
    BY <1>2, <2>3, <2>4 DEF Listen
<1>3. CASE AddListener(r)
  <2>1. UNCHANGED <<map, pipes, active, listened>> /\ Answered(r, "note")
    BY <1>3 DEF AddListener
  <2>2. listener' \in [Filters -> [Events -> Maybe(Listeners)]]
    BY <1>0, <1>3 DEF AddListener, EventsTyped
  <2> QED
    BY <2>1, <2>2, AnsweredTyped DEF MapTyped, PipesTyped, EventsTyped, map, pipes, Known
<1>4. CASE GetListener(r)
  <2>1. UNCHANGED <<map, events, pipes, key, event, options>> /\ Goes(r, "lookup", "unlisten")
    BY <1>4 DEF GetListener
  <2>2. listener[options[r]][event[r]] \in Maybe(Listeners)
    BY <1>0, <2>1 DEF Goes, EventsTyped, EventLabels
  <2>3. "unlisten" \in Labels /\ Has("unlisten", key[r], event[r], options[r])
    BY <1>0, <2>1 DEF Labels, Has, EventLabels, Goes
  <2>4. LocalsTyped'
    <3> DEFINE x == listener[options[r]][event[r]]
    <3>1. found' = [found EXCEPT ![r] = x] /\ UNCHANGED made
      BY <1>4 DEF GetListener, pipes
    <3> HIDE DEF x
    <3> QED
      BY <2>1, <2>2, <2>3, <3>1, FoundTyped DEF x
  <2> QED
    BY <2>1, <2>4 DEF MapTyped, PipesTyped, EventsTyped, map, pipes, events, Known
<1>5. CASE Unlisten(r)
  <2>1. UNCHANGED <<map, pipes, listener, listened>>
    BY <1>5 DEF Unlisten
  <2>2. MapTyped' /\ PipesTyped'
    BY <2>1 DEF MapTyped, PipesTyped, map, pipes, Known
  <2>3. CASE Answered(r, "unlisten") /\ UNCHANGED active
    BY <2>1, <2>2, <2>3, AnsweredTyped DEF EventsTyped, pipes
  <2>4. CASE /\ Goes(r, "unlisten", "forget") /\ UNCHANGED locals
             /\ active' = [active EXCEPT ![options[r]][event[r]] = Heard(r) \ {found[r]}]
    <3>1. "forget" \in Labels /\ Has("forget", key[r], event[r], options[r])
      BY <1>0, <2>4 DEF Labels, Has, EventLabels, Goes
    <3>2. active' \in [Filters -> [Events -> SUBSET Listeners]]
      <4>1. Heard(r) \ {found[r]} \in SUBSET Listeners
        BY <1>0, <2>4 DEF EventsTyped, Heard, Goes, EventLabels
      <4> QED
        BY <2>4, <4>1 DEF EventsTyped
    <3> QED
      BY <2>1, <2>2, <2>4, <3>1, <3>2, GoesTyped DEF EventsTyped, pipes
  <2> QED
    BY <1>5, <2>3, <2>4 DEF Unlisten
<1>6. CASE RemoveListener(r)
  <2>1. UNCHANGED <<map, pipes, active, listened>> /\ Answered(r, "forget")
    BY <1>6 DEF RemoveListener
  <2>2. listener' \in [Filters -> [Events -> Maybe(Listeners)]]
    BY <1>6 DEF RemoveListener, EventsTyped, Maybe
  <2> QED
    BY <2>1, <2>2, AnsweredTyped DEF MapTyped, PipesTyped, EventsTyped, map, pipes, Known
<1> QED
  BY <1>1, <1>2, <1>3, <1>4, <1>5, <1>6

LEMMA StepTyped == TInv /\ [Next]_vars => TInv'
<1> SUFFICES ASSUME TInv, [Next]_vars PROVE TInv'
  OBVIOUS
<1>1. apart' \in BOOLEAN /\ calm' \in BOOLEAN
  BY InvTyped, HistoriesTyped
<1>2. CASE UNCHANGED vars
  BY <1>1, <1>2 DEF TInv, vars, map, pipes, events, locals, MapTyped, PipesTyped,
        EventsTyped, LocalsTyped, Known
<1>3. ASSUME NEW r \in Requests, Step(r)
      PROVE  MapTyped' /\ PipesTyped' /\ EventsTyped' /\ LocalsTyped'
  BY <1>3, FiltersTyped, ListenersTyped DEF Step
<1> QED
  BY <1>1, <1>2, <1>3 DEF TInv, Next

\* Every variable keeps its type, and whatever filter is known anywhere has been
\* created (the options of RestApiController.java).
THEOREM TypeCorrect == Spec => []TypeOK
<1>1. Spec => []TInv
  BY InitTyped, StepTyped, PTL DEF Spec
<1> QED
  BY <1>1, InvTyped, PTL

----------------------------------------------------------------------------
(* The map.  A filter is owned by the request that builds it until it is   *)
(* put, is mapped once, and is released after it has left the map.         *)

Owns(r)     == request[r] \in {"build", "put"}
Unmapped(f) == \A k \in Keys : participantsPipes[k] # f

\* No write has been disturbed.
WritesApart ==
    /\ \A p, q \in writers : p = q
    /\ \A q \in writers : seen[q] = participantsPipes

OwnedByOne ==
    \A r \in Requests : Owns(r) =>
        /\ options[r] \in pipelines /\ Unmapped(options[r])
        /\ \A q \in Requests : q # r => options[q] # options[r]

MappedOnce ==
    \A k, l \in Keys :
        participantsPipes[k] = participantsPipes[l] /\ participantsPipes[k] # Nil => k = l

\* A removal that finds its filter in the map finds it under its own key.
RemovedByKey ==
    \A r \in Requests, k \in Keys :
        request[r] = "remove" /\ participantsPipes[k] = options[r] => k = key[r]

ReleasedUnmapped ==
    \A r \in Requests : request[r] = "release" => Unmapped(options[r])

Live == \A k \in Keys : participantsPipes[k] \in Maybe(pipelines)

MapInv == /\ WritesApart /\ OwnedByOne /\ MappedOnce /\ RemovedByKey
          /\ ReleasedUnmapped /\ Live

\* What the steps need to know of the types.
LEMMA Facts ==
    ASSUME TInv
    PROVE  /\ pipelines \subseteq 1..made /\ made \in Nat /\ Nil \notin pipelines
           /\ made + 1 \notin 1..made /\ made + 1 # Nil
           /\ participantsPipes \in [Keys -> Known]
           /\ request \in [Requests -> Labels] /\ options \in [Requests -> Known]
           /\ key \in [Requests -> Maybe(Keys)]
           /\ \A r \in Requests : request[r] # "idle" => key[r] \in Keys
           /\ \A r \in Requests :
                 request[r] \notin {"idle", "create"} => options[r] \in 1..made
<1> USE DEF TInv
<1>1. pipelines \subseteq 1..made /\ made \in Nat
  BY BoundAssumption DEF PipesTyped
<1>2. \A r \in Requests : Has(request[r], key[r], event[r], options[r])
  BY DEF LocalsTyped
<1>3. Nil \notin pipelines /\ made + 1 \notin 1..made /\ made + 1 # Nil
  <2>1. Nil \notin Nat
    BY NilAssumption
  <2>2. made + 1 \in Nat /\ made + 1 \notin 1..made /\ 1..made \subseteq Nat
    BY <1>1
  <2> HIDE DEF TInv
  <2> QED
    BY <1>1, <2>1, <2>2, Zenon
<1>4. /\ \A r \in Requests : request[r] # "idle" => key[r] \in Keys
      /\ \A r \in Requests : request[r] \notin {"idle", "create"} => options[r] \in 1..made
  BY <1>2 DEF LocalsTyped, Has, Known, Maybe
<1>5. /\ participantsPipes \in [Keys -> Known]
      /\ request \in [Requests -> Labels] /\ options \in [Requests -> Known]
      /\ key \in [Requests -> Maybe(Keys)]
  BY DEF MapTyped, LocalsTyped
<1> QED
  BY <1>1, <1>3, <1>4, <1>5

\* A step that leaves the map and the pipelines alone, and after which no
\* request is at a label of the filters with other options.
LEMMA OthersKeep ==
    ASSUME TInv, MapInv, NEW r \in Requests,
           UNCHANGED <<participantsPipes, writers, seen, pipelines>>,
           \A q \in Requests : q # r =>
               request'[q] = request[q] /\ options'[q] = options[q] /\ key'[q] = key[q],
           \/ ~ Owns(r)' /\ \A q \in Requests : q # r => ~ Owns(q) \/ options'[r] # options[q]
           \/ Owns(r)' /\ Owns(r) /\ options'[r] = options[r],
           ~ (request'[r] \in {"remove", "release"})
    PROVE  MapInv'
<1>1. WritesApart' /\ MappedOnce' /\ Live'
  BY DEF MapInv, WritesApart, MappedOnce, Live, Maybe
<1>2. OwnedByOne'
  BY DEF MapInv, OwnedByOne, Owns, Unmapped
<1>3. RemovedByKey' /\ ReleasedUnmapped'
  BY DEF MapInv, RemovedByKey, ReleasedUnmapped, Unmapped
<1> QED
  BY <1>1, <1>2, <1>3 DEF MapInv

\* A request that arrives has found what the map has for its participant.
LEMMA ArrivesKeeps ==
    ASSUME TInv, MapInv, NEW r \in Requests, NEW k \in Keys, NEW label, Arrives(r, k, label),
           label \notin {"build", "put", "release"},
           label = "remove" => participantsPipes[k] # Nil
    PROVE  MapInv'
<1> USE Facts
<1>1. WritesApart' /\ MappedOnce' /\ Live'
  BY DEF Arrives, MapInv, WritesApart, MappedOnce, Live, Maybe, pipes
<1>2. OwnedByOne'
  BY DEF Arrives, Goes, MapInv, OwnedByOne, Owns, Unmapped, pipes
<1>3. RemovedByKey' /\ ReleasedUnmapped'
  BY DEF Arrives, Goes, MapInv, RemovedByKey, ReleasedUnmapped, Unmapped, MappedOnce, pipes
<1> QED
  BY <1>1, <1>2, <1>3 DEF MapInv

\* A request that is answered has nothing any more.
LEMMA AnsweredKeeps ==
    ASSUME TInv, MapInv, NEW r \in Requests, NEW from, Answered(r, from),
           UNCHANGED <<participantsPipes, writers, seen, pipelines>>
    PROVE  MapInv'
<1>1. \A q \in Requests : q # r =>
          request'[q] = request[q] /\ options'[q] = options[q] /\ key'[q] = key[q]
  BY Facts DEF Answered, Goes
<1>2. request'[r] = "idle" /\ options'[r] = Nil
  BY Facts DEF Answered, Goes
<1>3. \A q \in Requests : Owns(q) => options[q] # Nil
  BY Facts DEF MapInv, OwnedByOne
<1> QED
  BY <1>1, <1>2, <1>3, OthersKeep DEF Owns

\* An undisturbed write changes one entry.
LEMMA WriteChangesOne ==
    ASSUME TInv, MapInv, NEW r \in Requests, NEW value, EndWrite(r, value)
    PROVE  /\ participantsPipes' = [participantsPipes EXCEPT ![key[r]] = value]
           /\ WritesApart'
BY DEF EndWrite, MapInv, WritesApart

LEMMA MapKept ==
    ASSUME TInv, apart => MapInv, [Next]_vars, apart'
    PROVE  MapInv'
<1>1. CASE UNCHANGED vars
  <2>1. apart /\ MapInv
    BY <1>1 DEF vars, map
  <2> QED
    BY <1>1, <2>1 DEF vars, map, pipes, locals, MapInv, WritesApart, OwnedByOne, MappedOnce,
       RemovedByKey, ReleasedUnmapped, Live, Owns, Unmapped
<1>2. ASSUME NEW r \in Requests, Step(r) PROVE MapInv'
  <2>1. ASSUME NEW k \in Keys, AddFilter(r, k) PROVE MapInv'
    BY <2>1, ArrivesKeeps DEF AddFilter
  <2>2. ASSUME NEW k \in Keys, RemoveFilter(r, k) PROVE MapInv'
    BY <2>2, ArrivesKeeps DEF RemoveFilter
  <2>3. ASSUME NEW k \in Keys, NEW e \in Events,
               SubscribeFilterEvent(r, k, e) \/ UnsubscribeFilterEvent(r, k, e)
        PROVE  MapInv'
    BY <2>3, ArrivesKeeps DEF SubscribeFilterEvent, UnsubscribeFilterEvent
  <2>4. CASE BeginWrite(r)
    <3>1. apart /\ writers = {}
      BY <2>4, Zenon DEF BeginWrite
    <3>2. MapInv /\ UNCHANGED <<participantsPipes, pipes, locals, request>>
      BY <2>4, <3>1 DEF BeginWrite
    <3>3. WritesApart'
      BY <2>4, <3>1 DEF BeginWrite, WritesApart, TInv, MapTyped
    <3> QED
      BY <3>2, <3>3 DEF MapInv, OwnedByOne, MappedOnce, RemovedByKey, ReleasedUnmapped,
         Live, Owns, Unmapped, pipes, locals
  <2>5. CASE CreateMediaPipeline(r)
    <3>1. UNCHANGED <<map, events, failed>> /\ apart /\ MapInv
      BY <2>5 DEF CreateMediaPipeline, map
    <3>2. CASE Answered(r, "create") /\ UNCHANGED <<made, pipelines>>
      BY <3>1, <3>2, AnsweredKeeps DEF map
    <3>3. CASE /\ Goes(r, "create", "build") /\ pipelines' = pipelines \cup {made + 1}
               /\ options' = [options EXCEPT ![r] = made + 1]
               /\ UNCHANGED <<key, event, found>>
      <4>1. WritesApart' /\ MappedOnce' /\ Live'
        BY <3>1, <3>3 DEF MapInv, WritesApart, MappedOnce, Live, Maybe, map
      <4>2. OwnedByOne'
        BY <3>1, <3>3, Facts DEF MapInv, OwnedByOne, Owns, Unmapped, Goes, map, Known, Maybe
      <4>3. RemovedByKey' /\ ReleasedUnmapped'
        BY <3>1, <3>3, Facts DEF MapInv, RemovedByKey, ReleasedUnmapped, Unmapped, Goes, map
      <4> QED
        BY <4>1, <4>2, <4>3 DEF MapInv
    <3> QED
      BY <2>5, <3>2, <3>3 DEF CreateMediaPipeline
  <2>6. CASE CreateFilter(r)
    <3>1. UNCHANGED <<map, pipelines>> /\ apart /\ MapInv
      BY <2>6 DEF CreateFilter, map
    <3>2. CASE Goes(r, "build", "put") /\ UNCHANGED locals
      BY <3>1, <3>2, OthersKeep, Facts DEF Goes, Owns, locals, map
    <3>3. CASE Answered(r, "build")
      BY <3>1, <3>3, AnsweredKeeps DEF map
    <3> QED
      BY <2>6, <3>2, <3>3 DEF CreateFilter
  <2>7. CASE Put(r)
    <3>1. UNCHANGED <<apart, pipes>> /\ apart /\ MapInv /\ Answered(r, "put") /\ request[r] = "put"
      BY <2>7 DEF Put, EndWrite, Answered, Goes
    <3>2. /\ participantsPipes' = [participantsPipes EXCEPT ![key[r]] = options[r]]
          /\ WritesApart'
      BY <2>7, <3>1, WriteChangesOne DEF Put
    <3>3. /\ options[r] \in pipelines /\ Unmapped(options[r]) /\ options[r] # Nil
          /\ \A q \in Requests : q # r => options[q] # options[r]
      BY <3>1, Facts DEF MapInv, OwnedByOne, Owns
    <3>4. /\ \A q \in Requests : q # r =>
                request'[q] = request[q] /\ options'[q] = options[q] /\ key'[q] = key[q]
          /\ request'[r] = "idle" /\ options'[r] = Nil
      BY <3>1, Facts DEF Answered, Goes
    <3>5. \A k \in Keys : \/ participantsPipes'[k] = participantsPipes[k]
                          \/ k = key[r] /\ participantsPipes'[k] = options[r]
      BY <3>2, Facts
    <3>6. MappedOnce' /\ Live'
      BY <3>1, <3>3, <3>5 DEF MapInv, MappedOnce, Live, Maybe, Unmapped, pipes
    <3>7. OwnedByOne'
      BY <3>1, <3>3, <3>4, <3>5, Facts DEF MapInv, OwnedByOne, Owns, Unmapped, pipes
    <3>8. RemovedByKey' /\ ReleasedUnmapped'
      BY <3>1, <3>3, <3>4, <3>5 DEF MapInv, RemovedByKey, ReleasedUnmapped, Unmapped
    <3> QED
      BY <3>2, <3>6, <3>7, <3>8 DEF MapInv
  <2>8. CASE Remove(r)
    <3>1. /\ UNCHANGED <<apart, pipes, locals>> /\ apart /\ MapInv
          /\ Goes(r, "remove", "release")
      BY <2>8 DEF Remove, EndWrite
    <3>2. /\ participantsPipes' = [participantsPipes EXCEPT ![key[r]] = Nil]
          /\ WritesApart'
      BY <2>8, <3>1, WriteChangesOne DEF Remove
    <3>3. \A k \in Keys : \/ participantsPipes'[k] = participantsPipes[k] /\ k # key[r]
                          \/ k = key[r] /\ participantsPipes'[k] = Nil
      BY <3>2, Facts
    <3>4. request'[r] = "release" /\ options[r] # Nil
          /\ \A q \in Requests : q # r => request'[q] = request[q]
      BY <3>1, Facts, NilAssumption DEF Goes
    <3>5. MappedOnce' /\ Live'
      BY <3>1, <3>3 DEF MapInv, MappedOnce, Live, Maybe, pipes
    <3>6. OwnedByOne'
      BY <3>1, <3>3, <3>4, Facts DEF MapInv, OwnedByOne, Owns, Unmapped, pipes, locals
    <3>7. RemovedByKey' /\ ReleasedUnmapped'
      BY <3>1, <3>3, <3>4, Facts, NilAssumption
         DEF MapInv, RemovedByKey, ReleasedUnmapped, Unmapped, locals, Goes
    <3> QED
      BY <3>2, <3>5, <3>6, <3>7 DEF MapInv
  <2>9. CASE Release(r)
    <3>1. /\ UNCHANGED map /\ apart /\ MapInv /\ Answered(r, "release")
          /\ request[r] = "release" /\ pipelines \ {options[r]} \subseteq pipelines'
          /\ pipelines' \subseteq pipelines
      BY <2>9 DEF Release, map, Answered, Goes
    <3>2. /\ \A q \in Requests : q # r =>
                request'[q] = request[q] /\ options'[q] = options[q] /\ key'[q] = key[q]
          /\ request'[r] = "idle" /\ options'[r] = Nil
      BY <3>1, Facts DEF Answered, Goes
    <3>3. WritesApart' /\ MappedOnce' /\ Live'
      BY <3>1 DEF MapInv, WritesApart, MappedOnce, Live, Maybe, map, ReleasedUnmapped, Unmapped
    <3>4. OwnedByOne'
      BY <3>1, <3>2, Facts DEF MapInv, OwnedByOne, Owns, Unmapped, map
    <3>5. RemovedByKey' /\ ReleasedUnmapped'
      BY <3>1, <3>2 DEF MapInv, RemovedByKey, ReleasedUnmapped, Unmapped, map
    <3> QED
      BY <3>3, <3>4, <3>5 DEF MapInv
  <2>10. CASE Listen(r) \/ AddListener(r) \/ GetListener(r) \/ Unlisten(r) \/ RemoveListener(r)
    <3>1. UNCHANGED <<map, pipes>> /\ apart /\ MapInv
      BY <2>10 DEF Listen, AddListener, GetListener, Unlisten, RemoveListener, map
    <3>2. \/ \E from \in Labels : Answered(r, from)
          \/ /\ Goes(r, "listen", "note") \/ Goes(r, "lookup", "unlisten")
                  \/ Goes(r, "unlisten", "forget")
             /\ UNCHANGED <<key, options>>
      BY <2>10 DEF Listen, AddListener, GetListener, Unlisten, RemoveListener, locals, Labels
    <3>3. CASE \E from \in Labels : Answered(r, from)
      BY <3>1, <3>3, AnsweredKeeps DEF map, pipes
    <3>4. CASE /\ Goes(r, "listen", "note") \/ Goes(r, "lookup", "unlisten")
                    \/ Goes(r, "unlisten", "forget")
               /\ UNCHANGED <<key, options>>
      <4>1. ~ Owns(r)' /\ ~ (request'[r] \in {"remove", "release"})
        BY <3>4, Facts DEF Goes, Owns
      <4>2. \A q \in Requests : q # r =>
                request'[q] = request[q] /\ options'[q] = options[q] /\ key'[q] = key[q]
        BY <3>4, Facts DEF Goes
      <4>3. \A q \in Requests : q # r => ~ Owns(q) \/ options'[r] # options[q]
        BY <3>1, <3>4 DEF MapInv, OwnedByOne
      <4> QED
        BY <3>1, <4>1, <4>2, <4>3, OthersKeep DEF map, pipes
    <3> QED
      BY <3>2, <3>3, <3>4
  <2> QED
    BY <1>2, <2>1, <2>2, <2>3, <2>4, <2>5, <2>6, <2>7, <2>8, <2>9, <2>10 DEF Step
<1> QED
  BY <1>1, <1>2 DEF Next

LEMMA InitMapped == Init => TInv /\ MapInv
<1> SUFFICES ASSUME Init PROVE TInv /\ MapInv
  OBVIOUS
<1>1. \A k \in Keys : participantsPipes[k] = Nil
  BY DEF Init, Empty
<1> QED
  BY <1>1, InitTyped DEF Init, MapInv, WritesApart, OwnedByOne, MappedOnce, RemovedByKey,
     ReleasedUnmapped, Live, Owns, Maybe

\* As long as no access meets a write of the map, a filter in it has a pipeline,
\* however adds and removals interleave (RestApiController.java:361, the key goes
\* before the pipeline is released).
THEOREM MappedAlwaysLive == Spec => []MappedIsLive
<1>1. Init => TInv /\ (apart => MapInv)
  BY InitMapped
<1>2. TInv /\ (apart => MapInv) /\ [Next]_vars => (TInv /\ (apart => MapInv))'
  BY StepTyped, MapKept
<1>3. TInv /\ (apart => MapInv) => MappedIsLive
  BY DEF MappedIsLive, Mapped, MapInv, Live, Maybe
<1> QED
  BY <1>1, <1>2, <1>3, PTL DEF Spec

----------------------------------------------------------------------------
(* No pipeline is lost if the requests for a participant come one after the *)
(* other: then a request finds its participant as it was when it arrived.   *)

AloneWithKey ==
    \A r, q \in Requests : r # q /\ key[r] # Nil => key[r] # key[q]

AsFound ==
    \A r \in Requests :
        /\ request[r] \in {"create", "build", "put"} => participantsPipes[key[r]] = Nil
        /\ request[r] = "remove" => participantsPipes[key[r]] = options[r]

\* No filter in the map, or about to get there, has failed.
Sound == /\ \A k \in Keys : participantsPipes[k] \notin failed
         /\ \A r \in Requests : Owns(r) => options[r] \notin failed

\* A pipeline is mapped or in the hands of a request.
Held == \A f \in pipelines \ failed :
            Unmapped(f) => \E r \in Requests : /\ request[r] \in {"build", "put", "release"}
                                               /\ options[r] = f

CalmInv == AloneWithKey /\ AsFound /\ Sound /\ Held


\* A request arrives for a participant nobody else is asking about.
LEMMA ArrivesCalm ==
    ASSUME TInv, MapInv, CalmInv, NEW r \in Requests, NEW k \in Keys, NEW label,
           Arrives(r, k, label), label \in {"create", "remove", "listen", "lookup"}, calm',
           label = "create" => participantsPipes[k] = Nil
    PROVE  CalmInv'
<1>1. \A q \in Requests : key[q] # k
  BY Zenon DEF Arrives
<1>2. /\ UNCHANGED <<participantsPipes, pipes>> /\ request[r] = "idle"
      /\ request'[r] = label /\ key'[r] = k /\ options'[r] = participantsPipes[k]
      /\ \A q \in Requests : q # r =>
             request'[q] = request[q] /\ options'[q] = options[q] /\ key'[q] = key[q]
  BY Facts DEF Arrives, Goes
<1>3. AloneWithKey'
  BY <1>1, <1>2 DEF CalmInv, AloneWithKey
<1>4. AsFound'
  BY <1>2 DEF CalmInv, AsFound
<1>5. Sound' /\ Held'
  BY <1>2 DEF CalmInv, Sound, Held, Owns, Unmapped, pipes
<1> QED
  BY <1>3, <1>4, <1>5 DEF CalmInv

\* A request is answered and leaves the map as it is; the pipeline it had, if
\* any, was in the map, or has been released or has failed.
LEMMA AnsweredCalm ==
    ASSUME TInv, MapInv, CalmInv, NEW r \in Requests, NEW from, Answered(r, from),
           UNCHANGED participantsPipes, pipelines' \subseteq pipelines,
           \/ failed' = failed
           \/ failed' = failed \cup {options[r]} /\ request[r] \in {"build", "release"},
           request[r] \in {"build", "put", "release"} => options[r] \notin pipelines' \ failed'
    PROVE  CalmInv'
<1>1. /\ request[r] = from /\ request'[r] = "idle" /\ key'[r] = Nil /\ options'[r] = Nil
      /\ \A q \in Requests : q # r =>
             request'[q] = request[q] /\ options'[q] = options[q] /\ key'[q] = key[q]
  BY Facts DEF Answered, Goes
<1>2. AloneWithKey'
  BY <1>1 DEF CalmInv, AloneWithKey
<1>3. AsFound'
  BY <1>1 DEF CalmInv, AsFound
<1>4. Sound'
  <2>1. request[r] \in {"build", "release"} => Unmapped(options[r])
    BY DEF MapInv, OwnedByOne, ReleasedUnmapped, Owns
  <2>2. \A q \in Requests : q # r /\ Owns(q) => options[q] # options[r]
    BY DEF MapInv, OwnedByOne
  <2> QED
    BY <1>1, <2>1, <2>2 DEF CalmInv, Sound, Owns, Unmapped
<1>5. Held'
  BY <1>1 DEF CalmInv, Held, Unmapped
<1> QED
  BY <1>2, <1>3, <1>4, <1>5 DEF CalmInv

\* A request goes on with its key, its options and the map as they were, to a
\* label where it holds no less.
LEMMA GoesCalm ==
    ASSUME TInv, CalmInv, NEW r \in Requests, NEW from, NEW to, Goes(r, from, to),
           UNCHANGED <<participantsPipes, pipelines, failed, key, options>>,
           \/ from = "build" /\ to = "put"
           \/ {from, to} \subseteq EventLabels
    PROVE  CalmInv'
<1>1. /\ request[r] = from /\ request'[r] = to
      /\ \A q \in Requests : q # r => request'[q] = request[q]
  BY Facts DEF Goes
<1>2. AloneWithKey' /\ AsFound'
  BY <1>1 DEF CalmInv, AloneWithKey, AsFound, EventLabels
<1>3. Sound'
  BY <1>1 DEF CalmInv, Sound, Owns, EventLabels
<1>4. Held'
  BY <1>1 DEF CalmInv, Held, Unmapped, EventLabels
<1> QED
  BY <1>2, <1>3, <1>4 DEF CalmInv

LEMMA CalmKept ==
    ASSUME TInv, apart => MapInv, apart /\ calm => CalmInv, [Next]_vars, apart', calm'
    PROVE  CalmInv'
<1>1. CASE UNCHANGED vars
  <2>1. CalmInv
    BY <1>1 DEF vars, map
  <2> QED
    BY <1>1, <2>1 DEF vars, map, pipes, locals, CalmInv, AloneWithKey, AsFound, Sound,
       Held, Owns, Unmapped
<1>2. ASSUME NEW r \in Requests, Step(r) PROVE CalmInv'
  <2>1. ASSUME NEW k \in Keys, AddFilter(r, k) PROVE CalmInv'
    <3>1. apart /\ calm /\ participantsPipes[k] = Nil
      BY <2>1, Zenon DEF AddFilter, Arrives
    <3> QED
      BY <2>1, <3>1, ArrivesCalm DEF AddFilter
  <2>2. ASSUME NEW k \in Keys, RemoveFilter(r, k) PROVE CalmInv'
    <3>1. apart /\ calm
      BY <2>2, Zenon DEF RemoveFilter, Arrives
    <3> QED
      BY <2>2, <3>1, ArrivesCalm DEF RemoveFilter
  <2>3. ASSUME NEW k \in Keys, NEW e \in Events,
               SubscribeFilterEvent(r, k, e) \/ UnsubscribeFilterEvent(r, k, e)
        PROVE  CalmInv'
    <3>1. apart /\ calm
      BY <2>3, Zenon DEF SubscribeFilterEvent, UnsubscribeFilterEvent, Arrives
    <3> QED
      BY <2>3, <3>1, ArrivesCalm DEF SubscribeFilterEvent, UnsubscribeFilterEvent
  <2>4. CASE BeginWrite(r)
    <3>1. apart /\ calm
      BY <2>4, Zenon DEF BeginWrite
    <3>2. CalmInv /\ UNCHANGED <<participantsPipes, pipes, locals, request>>
      BY <2>4, <3>1 DEF BeginWrite
    <3> QED
      BY <3>2 DEF CalmInv, AloneWithKey, AsFound, Sound, Held, Owns, Unmapped, pipes, locals
  <2>5. CASE CreateMediaPipeline(r)
    <3>1. UNCHANGED <<map, failed>> /\ MapInv /\ CalmInv /\ request[r] = "create"
      BY <2>5 DEF CreateMediaPipeline, map, Answered, Goes
    <3>2. CASE Answered(r, "create") /\ UNCHANGED <<made, pipelines>>
      BY <3>1, <3>2, AnsweredCalm DEF map
    <3>3. CASE /\ Goes(r, "create", "build") /\ pipelines' = pipelines \cup {made + 1}
               /\ options' = [options EXCEPT ![r] = made + 1] /\ UNCHANGED key
      <4>1. /\ request'[r] = "build" /\ options'[r] = made + 1
            /\ \A q \in Requests : q # r => request'[q] = request[q] /\ options'[q] = options[q]
        BY <3>3, Facts DEF Goes
      <4>2. AloneWithKey' /\ AsFound'
        BY <3>1, <3>3, <4>1 DEF CalmInv, AloneWithKey, AsFound, map
      <4>3. Sound'
        <5>1. made + 1 \notin failed
          BY Facts DEF TInv, PipesTyped
        <5> QED
          BY <3>1, <4>1, <5>1 DEF CalmInv, Sound, Owns, map
      <4>4. Held'
        BY <3>1, <3>3, <4>1 DEF CalmInv, Held, Unmapped, map
      <4> QED
        BY <4>2, <4>3, <4>4 DEF CalmInv
    <3> QED
      BY <2>5, <3>2, <3>3 DEF CreateMediaPipeline
  <2>6. CASE CreateFilter(r)
    <3>1. UNCHANGED <<map, pipelines>> /\ MapInv /\ CalmInv /\ request[r] = "build"
      BY <2>6 DEF CreateFilter, map, Answered, Goes
    <3>2. CASE Goes(r, "build", "put") /\ UNCHANGED <<failed, locals>>
      BY <3>1, <3>2, GoesCalm DEF locals, map
    <3>3. CASE Answered(r, "build") /\ failed' = failed \cup {options[r]}
      BY <3>1, <3>3, AnsweredCalm DEF map
    <3> QED
      BY <2>6, <3>2, <3>3 DEF CreateFilter
  <2>7. CASE Put(r)
    <3>1. /\ UNCHANGED <<apart, pipes>> /\ MapInv /\ CalmInv
          /\ Answered(r, "put") /\ request[r] = "put"
      BY <2>7 DEF Put, EndWrite, Answered, Goes
    <3>2. participantsPipes' = [participantsPipes EXCEPT ![key[r]] = options[r]]
      BY <2>7, <3>1, WriteChangesOne DEF Put
    <3>3. /\ key[r] \in Keys /\ key[r] # Nil
          /\ participantsPipes[key[r]] = Nil /\ Nil \notin pipelines
      BY <3>1, Facts, NilAssumption DEF CalmInv, AsFound
    <3>4. /\ request'[r] = "idle" /\ key'[r] = Nil /\ options'[r] = Nil
          /\ \A q \in Requests : q # r =>
                 request'[q] = request[q] /\ options'[q] = options[q] /\ key'[q] = key[q]
      BY <3>1, Facts DEF Answered, Goes
    <3>5. /\ participantsPipes'[key[r]] = options[r]
          /\ \A k : k # key[r] => participantsPipes'[k] = participantsPipes[k]
      BY <3>2, <3>3, Facts
    <3>6. AloneWithKey' /\ AsFound'
      BY <3>1, <3>3, <3>4, <3>5 DEF CalmInv, AloneWithKey, AsFound
    <3>7. Sound'
      BY <3>1, <3>4, <3>5 DEF CalmInv, Sound, Owns, pipes
    <3>8. Held'
      BY <3>1, <3>3, <3>4, <3>5 DEF CalmInv, Held, Unmapped, pipes
    <3> QED
      BY <3>6, <3>7, <3>8 DEF CalmInv
  <2>8. CASE Remove(r)
    <3>1. /\ UNCHANGED <<apart, pipes, locals>> /\ MapInv /\ CalmInv
          /\ Goes(r, "remove", "release") /\ request[r] = "remove"
      BY <2>8 DEF Remove, EndWrite, Goes
    <3>2. participantsPipes' = [participantsPipes EXCEPT ![key[r]] = Nil]
      BY <2>8, <3>1, WriteChangesOne DEF Remove
    <3>3. /\ key[r] \in Keys /\ key[r] # Nil /\ Nil \notin pipelines
          /\ participantsPipes[key[r]] = options[r]
      BY <3>1, Facts, NilAssumption DEF CalmInv, AsFound
    <3>4. /\ request'[r] = "release"
          /\ \A q \in Requests : q # r => request'[q] = request[q]
      BY <3>1, Facts DEF Goes
    <3>5. /\ participantsPipes'[key[r]] = Nil
          /\ \A k : k # key[r] => participantsPipes'[k] = participantsPipes[k]
      BY <3>2, <3>3, Facts
    <3>6. AloneWithKey' /\ AsFound'
      BY <3>1, <3>3, <3>4, <3>5 DEF CalmInv, AloneWithKey, AsFound, locals
    <3>7. Sound'
      <4>1. Nil \notin failed
        <5>1. failed \subseteq 1..made
          BY DEF TInv, PipesTyped
        <5>2. Nil \notin Nat /\ 1..made \subseteq Nat
          BY NilAssumption
        <5> QED
          BY <5>1, <5>2, Zenon
      <4> QED
        BY <3>1, <3>4, <3>5, <4>1 DEF CalmInv, Sound, Owns, pipes, locals
    <3>8. Held'
      BY <3>1, <3>3, <3>4, <3>5 DEF CalmInv, Held, Unmapped, pipes, locals
    <3> QED
      BY <3>6, <3>7, <3>8 DEF CalmInv
  <2>9. CASE Release(r)
    <3>1. /\ UNCHANGED map /\ MapInv /\ CalmInv /\ Answered(r, "release")
          /\ request[r] = "release"
      BY <2>9 DEF Release, map, Answered, Goes
    <3>2. \/ pipelines' = pipelines \ {options[r]} /\ failed' = failed
          \/ pipelines' = pipelines /\ failed' = failed \cup {options[r]}
      BY <2>9 DEF Release
    <3> QED
      BY <3>1, <3>2, AnsweredCalm DEF map
  <2>10. CASE Listen(r) \/ AddListener(r) \/ GetListener(r) \/ Unlisten(r) \/ RemoveListener(r)
    <3>1. UNCHANGED <<map, pipes>> /\ MapInv /\ CalmInv
      BY <2>10 DEF Listen, AddListener, GetListener, Unlisten, RemoveListener, map, locals,
         Answered
    <3>2. \/ \E from \in EventLabels : Answered(r, from)
          \/ \E from, to \in EventLabels : Goes(r, from, to) /\ UNCHANGED <<key, options>>
      BY <2>10 DEF Listen, AddListener, GetListener, Unlisten, RemoveListener, locals,
         EventLabels
    <3>3. ASSUME NEW from \in EventLabels, Answered(r, from) PROVE CalmInv'
      <4>1. request[r] \notin {"build", "put", "release"}
        BY <3>3 DEF Answered, Goes, EventLabels
      <4> QED
        BY <3>1, <3>3, <4>1, AnsweredCalm DEF map, pipes
    <3>4. ASSUME NEW from \in EventLabels, NEW to \in EventLabels, Goes(r, from, to),
                 UNCHANGED <<key, options>>
          PROVE  CalmInv'
      BY <3>1, <3>4, GoesCalm DEF map, pipes
    <3> QED
      BY <3>2, <3>3, <3>4
  <2> QED
    BY <1>2, <2>1, <2>2, <2>3, <2>4, <2>5, <2>6, <2>7, <2>8, <2>9, <2>10 DEF Step
<1> QED
  BY <1>1, <1>2 DEF Next

\* If requests for a participant do not overlap, no pipeline is lost: when all
\* have been answered, those that are not released are the ones in the map,
\* except the failed ones (addFilter and removeFilter of
\* RestApiController.java).
THEOREM NothingLost == Spec => []NoLostPipeline
<1> DEFINE Inv == TInv /\ (apart => MapInv) /\ (apart /\ calm => CalmInv)
<1>1. Init => Inv
  <2> SUFFICES ASSUME Init PROVE TInv /\ MapInv /\ CalmInv
    OBVIOUS
  <2>1. TInv /\ MapInv
    BY InitMapped
  <2>2. CalmInv
    BY <2>1, Facts DEF Init, Empty, CalmInv, AloneWithKey, AsFound, Sound, Held, Owns
  <2> QED
    BY <2>1, <2>2
<1>2. Inv /\ [Next]_vars => Inv'
  BY StepTyped, MapKept, CalmKept
<1>3. Inv => NoLostPipeline
  <2> SUFFICES ASSUME TInv, MapInv, CalmInv, AtRest PROVE pipelines \ failed = Mapped
    BY DEF NoLostPipeline
  <2>1. Mapped \subseteq pipelines \ failed
    BY DEF Mapped, MapInv, Live, Maybe, CalmInv, Sound
  <2>2. \A f \in pipelines \ failed : f \in Mapped
    <3>1. \A f \in pipelines \ failed : ~ Unmapped(f)
      BY DEF AtRest, CalmInv, Held
    <3> QED
      BY <3>1, Facts DEF Unmapped, Mapped
  <2> QED
    BY <2>1, <2>2
<1> QED
  BY <1>1, <1>2, <1>3, PTL DEF Spec

----------------------------------------------------------------------------
(* Listeners.  One that is listed is active, or the request that has       *)
(* removed it is about to clear the entry; one that a request has just     *)
(* added is known to nobody else.                                          *)

Clearing(f, e) ==
    \E r \in Requests : request[r] = "forget" /\ options[r] = f /\ event[r] = e

Listed ==
    \A f \in pipelines, e \in Events :
        listener[f][e] \in Maybe(active[f][e]) \/ Clearing(f, e)

New(r) ==
    /\ found[r] \in 1..listened
    /\ options[r] \in pipelines => found[r] \in Heard(r)
    /\ \A f \in Filters, e \in Events : listener[f][e] # found[r]
    /\ \A q \in Requests : q # r => found[q] # found[r]

Added ==
    /\ \A r \in Requests : found[r] \in Maybe(1..listened)
    /\ \A f \in Filters, e \in Events : listener[f][e] \in Maybe(1..listened)
    /\ \A f \in Filters, e \in Events : f > made => listener[f][e] = Nil

ListInv == Listed /\ Added /\ \A r \in Requests : request[r] = "note" => New(r)

\* What the steps need to know of the types.
LEMMA EventFacts ==
    ASSUME TInv
    PROVE  /\ pipelines \subseteq Filters /\ pipelines \subseteq 1..made /\ made \in Nat
           /\ 1..made \subseteq Filters
           /\ listened \in Nat /\ Nil \notin Nat
           /\ listener \in [Filters -> [Events -> Maybe(Listeners)]]
           /\ active \in [Filters -> [Events -> SUBSET Listeners]]
           /\ request \in [Requests -> Labels] /\ options \in [Requests -> Known]
           /\ event \in [Requests -> Maybe(Events)] /\ key \in [Requests -> Maybe(Keys)]
           /\ found \in [Requests -> Maybe(Listeners)]
           /\ \A r \in Requests : request[r] \notin {"idle", "create"} =>
                 options[r] \in 1..made /\ options[r] \in Filters
           /\ \A r \in Requests : request[r] \in EventLabels => event[r] \in Events
<1> USE DEF TInv
<1>1. made \in Nat /\ made <= MaxFilters /\ MaxFilters \in Nat /\ listened \in Nat
  BY BoundAssumption DEF PipesTyped, EventsTyped
<1>2. 1..made \subseteq Filters /\ pipelines \subseteq 1..made
  BY <1>1 DEF PipesTyped, Filters
<1>3. Nil \notin Nat
  BY NilAssumption
<1>4. \A r \in Requests : Has(request[r], key[r], event[r], options[r])
  BY DEF LocalsTyped
<1>5. \A r \in Requests : request[r] \in EventLabels => event[r] \in Events
  BY <1>4 DEF LocalsTyped, Has, Maybe
<1>6. \A r \in Requests : request[r] \notin {"idle", "create"} =>
                 options[r] \in 1..made /\ options[r] \in Filters
  BY <1>2, <1>4 DEF LocalsTyped, Has, Known, Maybe
<1> QED
  BY <1>1, <1>2, <1>3, <1>5, <1>6 DEF EventsTyped, LocalsTyped

\* A step that leaves the listeners of the pipelines alone.
Leaves(r) ==
    /\ \A q \in Requests : q # r =>
           /\ request'[q] = request[q] /\ options'[q] = options[q]
           /\ event'[q] = event[q] /\ found'[q] = found[q]
    /\ \/ found'[r] \in {found[r], Nil}
       \/ \E f \in Filters, e \in Events : found'[r] = listener[f][e]
    /\ request[r] # "forget" /\ request'[r] # "note"
    /\ UNCHANGED <<listener, listened>>
    /\ \A f \in pipelines', e \in Events : active'[f][e] = active[f][e]
    /\ pipelines' \subseteq pipelines \cup {made + 1}
    /\ made' \in {made, made + 1}

LEMMA LeavesKeeps ==
    ASSUME TInv, TInv', ListInv, NEW r \in Requests, Leaves(r)
    PROVE  ListInv'
<1> USE DEF Leaves
<1>1. Added'
  <2>1. \A q \in Requests : found'[q] \in Maybe(1..listened)
    BY DEF ListInv, Added, Maybe
  <2>2. \A f \in Filters : f > made' => f > made
    BY EventFacts, BoundAssumption DEF Filters
  <2> QED
    BY <2>1, <2>2 DEF ListInv, Added
<1>2. Listed'
  <2> SUFFICES ASSUME NEW f \in pipelines', NEW e \in Events
               PROVE  listener'[f][e] \in Maybe(active'[f][e]) \/ Clearing(f, e)'
    BY DEF Listed
  <2>1. CASE f \in pipelines
    BY <2>1 DEF ListInv, Listed, Clearing
  <2>2. CASE f = made + 1
    <3>1. f \in Filters /\ f > made
      BY <2>2, EventFacts DEF TInv, PipesTyped, Filters
    <3> QED
      BY <3>1 DEF ListInv, Added, Maybe
  <2> QED
    BY <2>1, <2>2
<1>3. ASSUME NEW q \in Requests, request'[q] = "note" PROVE New(q)'
  <2>1. q # r /\ request[q] = "note" /\ New(q) /\ options[q] \in 1..made /\ event[q] \in Events
    BY <1>3, EventFacts DEF ListInv, EventLabels
  <2>2. found'[q] \in 1..listened' /\ found[q] # Nil
    BY <2>1, EventFacts DEF New
  <2>3. options'[q] \in pipelines' => found'[q] \in Heard(q)'
    <3>1. options[q] \in pipelines' => options[q] \in pipelines
      BY <2>1, EventFacts
    <3> QED
      BY <2>1, <3>1 DEF New, Heard
  <2>4. \A f \in Filters, e \in Events : listener'[f][e] # found'[q]
    BY <2>1 DEF New
  <2>5. \A x \in Requests : x # q => found'[x] # found'[q]
    BY <2>1, <2>2 DEF New
  <2> QED
    BY <2>2, <2>3, <2>4, <2>5 DEF New
<1> QED
  BY <1>1, <1>2, <1>3 DEF ListInv

\* What requests about filters do, and those about events that fail.
LEMMA AnsweredLeaves ==
    ASSUME TInv, NEW r \in Requests, NEW from, from # "forget", Answered(r, from),
           UNCHANGED <<listener, listened, made>>, pipelines' \subseteq pipelines,
           \A f \in pipelines', e \in Events : active'[f][e] = active[f][e]
    PROVE  Leaves(r)
BY EventFacts DEF Answered, Goes, Leaves

LEMMA ArrivesLeaves ==
    ASSUME TInv, NEW r \in Requests, NEW k, NEW label, NEW e, label \notin {"note"},
           Arrives(r, k, label), event' = [event EXCEPT ![r] = e]
    PROVE  Leaves(r)
BY EventFacts DEF Arrives, Goes, Leaves, events, pipes

LEMMA ListKept ==
    ASSUME TInv, TInv', ListInv, [Next]_vars
    PROVE  ListInv'
<1>1. CASE UNCHANGED vars
  BY <1>1 DEF vars, events, pipes, locals, ListInv, Listed, Clearing, Added, New, Heard
<1>2. ASSUME NEW r \in Requests, Step(r) PROVE ListInv'
  <2>1. ASSUME NEW k \in Keys, AddFilter(r, k) \/ RemoveFilter(r, k) PROVE Leaves(r)
    <3>1. event' = [event EXCEPT ![r] = event[r]]
      BY <2>1, EventFacts DEF AddFilter, RemoveFilter
    <3> QED
      BY <2>1, <3>1, ArrivesLeaves DEF AddFilter, RemoveFilter
  <2>2. ASSUME NEW k \in Keys, NEW e \in Events,
               SubscribeFilterEvent(r, k, e) \/ UnsubscribeFilterEvent(r, k, e)
        PROVE  Leaves(r)
    BY <2>2, ArrivesLeaves DEF SubscribeFilterEvent, UnsubscribeFilterEvent
  <2>3. ASSUME BeginWrite(r) PROVE Leaves(r)
    <3>1. /\ request[r] \in {"put", "remove"}
          /\ UNCHANGED <<listener, listened, active, made, pipelines,
                        request, found, options, event>>
      BY <2>3 DEF BeginWrite, events, pipes, locals
    <3>2. request[r] # "forget" /\ request'[r] # "note"
      BY <3>1
    <3>3. pipelines' \subseteq pipelines \cup {made + 1} /\ made' \in {made, made + 1}
      BY <3>1
    <3>4. \A f \in pipelines', e \in Events : active'[f][e] = active[f][e]
      BY <3>1
    <3> QED
      BY <3>1, <3>2, <3>3, <3>4 DEF Leaves
  <2>4. ASSUME CreateMediaPipeline(r) PROVE Leaves(r)
    <3>1. CASE Answered(r, "create") /\ UNCHANGED <<made, pipelines>>
      <4>1. UNCHANGED <<listener, listened, made, active, pipelines>>
        BY <2>4, <3>1 DEF CreateMediaPipeline, events
      <4>2. pipelines' \subseteq pipelines
        BY <4>1
      <4>3. \A f \in pipelines', e \in Events : active'[f][e] = active[f][e]
        BY <4>1
      <4> QED
        BY <3>1, <4>1, <4>2, <4>3, AnsweredLeaves
    <3>2. CASE /\ Goes(r, "create", "build")
               /\ made' = made + 1 /\ pipelines' = pipelines \cup {made + 1}
               /\ options' = [options EXCEPT ![r] = made + 1]
               /\ UNCHANGED <<key, event, found>>
      <4>1. UNCHANGED <<listener, listened, active, event, found>>
        BY <2>4, <3>2 DEF CreateMediaPipeline, events
      <4>2. \A f \in pipelines', e \in Events : active'[f][e] = active[f][e]
        BY <4>1
      <4>3. /\ request[r] = "create" /\ request'[r] = "build"
            /\ \A q \in Requests : q # r =>
                   request'[q] = request[q] /\ options'[q] = options[q]
        BY <3>2, EventFacts DEF Goes
      <4> QED
        BY <3>2, <4>1, <4>2, <4>3 DEF Leaves
    <3> QED
      BY <2>4, <3>1, <3>2 DEF CreateMediaPipeline
  <2>5. ASSUME CreateFilter(r) \/ Put(r) \/ Remove(r) PROVE Leaves(r)
    <3>1. UNCHANGED <<listener, listened, active, made, pipelines>>
      BY <2>5 DEF CreateFilter, Put, Remove, EndWrite, events, pipes
    <3>2. pipelines' \subseteq pipelines
      BY <3>1
    <3>3. \A f \in pipelines', e \in Events : active'[f][e] = active[f][e]
      BY <3>1
    <3>4. \/ \E from \in {"build", "put"} : Answered(r, from)
          \/ /\ UNCHANGED <<found, options, event>>
             /\ Goes(r, "build", "put") \/ Goes(r, "remove", "release")
      BY <2>5 DEF CreateFilter, Put, Remove, locals
    <3>5. CASE \E from \in {"build", "put"} : Answered(r, from)
      BY <3>1, <3>2, <3>3, <3>5, AnsweredLeaves
    <3>6. CASE /\ UNCHANGED <<found, options, event>>
               /\ Goes(r, "build", "put") \/ Goes(r, "remove", "release")
      <4>1. /\ request[r] # "forget" /\ request'[r] # "note"
            /\ \A q \in Requests : q # r => request'[q] = request[q]
        BY <3>6, EventFacts DEF Goes
      <4> QED
        BY <3>1, <3>2, <3>3, <3>6, <4>1 DEF Leaves
    <3> QED
      BY <3>4, <3>5, <3>6
  <2>6. ASSUME Release(r) PROVE Leaves(r)
    <3>1. Answered(r, "release") /\ UNCHANGED <<listener, listened, made>>
      BY <2>6 DEF Release
    <3>2. /\ pipelines' \subseteq pipelines
          /\ \A f \in pipelines', e \in Events : active'[f][e] = active[f][e]
      BY <2>6, EventFacts DEF Release
    <3> QED
      BY <3>1, <3>2, AnsweredLeaves
  <2>7. ASSUME GetListener(r) PROVE Leaves(r)
    <3>1. /\ request[r] = "lookup" /\ options[r] \in Filters /\ event[r] \in Events
      BY <2>7, EventFacts DEF GetListener, Goes, EventLabels
    <3> QED
      <4>1. UNCHANGED <<listener, listened, active, made, pipelines, options, event>>
        BY <2>7 DEF GetListener, events, pipes
      <4>2. \A f \in pipelines', e \in Events : active'[f][e] = active[f][e]
        BY <4>1
      <4>3. /\ request'[r] = "unlisten" /\ found'[r] = listener[options[r]][event[r]]
            /\ \A q \in Requests : q # r =>
                   request'[q] = request[q] /\ found'[q] = found[q]
        BY <2>7, EventFacts DEF GetListener, Goes
      <4> QED
        BY <3>1, <4>1, <4>2, <4>3 DEF Leaves
  <2>8. CASE Listen(r)
    <3>1. CASE Answered(r, "listen") /\ UNCHANGED <<listened, active>>
      <4>1. Leaves(r)
        BY <2>8, <3>1, AnsweredLeaves DEF Listen, pipes
      <4> QED
        BY <4>1, LeavesKeeps
    <3>2. CASE /\ Goes(r, "listen", "note") /\ listened' = listened + 1
               /\ active' = [active EXCEPT ![options[r]][event[r]] = Heard(r) \cup {listened'}]
               /\ found' = [found EXCEPT ![r] = listened']
               /\ UNCHANGED <<key, event, options>>
      <4>1. UNCHANGED <<pipes, listener>> /\ options[r] \in Filters /\ event[r] \in Events
        BY <2>8, <3>2, EventFacts DEF Listen, Goes, EventLabels
      <4>2. /\ active' \in [Filters -> [Events -> SUBSET Listeners]]
            /\ \A f \in Filters, e \in Events : active[f][e] \subseteq active'[f][e]
            /\ listened + 1 \in active'[options[r]][event[r]]
        BY <3>2, <4>1, EventFacts DEF Heard, TInv, EventsTyped
      <4>3. /\ request'[r] = "note" /\ found'[r] = listened + 1
            /\ \A q \in Requests : q # r => request'[q] = request[q] /\ found'[q] = found[q]
        BY <3>2, EventFacts DEF Goes
      <4>4. 1..listened \subseteq 1..listened' /\ listened + 1 \notin 1..listened
            /\ listened + 1 # Nil /\ listened + 1 \in 1..listened'
        <5>1. listened + 1 \in Nat /\ Nil \notin Nat
          BY EventFacts
        <5> QED
          BY <3>2, <5>1, EventFacts
      <4>5. Added'
        BY <3>2, <4>1, <4>3, <4>4 DEF ListInv, Added, Maybe, pipes
      <4>6. Listed'
        BY <3>2, <4>1, <4>2, <4>3, EventFacts DEF ListInv, Listed, Clearing, Maybe, pipes, Goes
      <4>7. New(r)'
        BY <3>2, <4>1, <4>2, <4>3, <4>4 DEF New, Heard, ListInv, Added, Maybe
      <4>8. ASSUME NEW q \in Requests, q # r, request[q] = "note" PROVE New(q)'
        <5>1. New(q) /\ options[q] \in Filters /\ event[q] \in Events
          BY <4>8, EventFacts DEF ListInv, EventLabels
        <5> QED
          BY <3>2, <4>1, <4>2, <4>3, <4>4, <4>8, <5>1 DEF New, Heard, pipes
      <4> QED
        BY <4>3, <4>5, <4>6, <4>7, <4>8 DEF ListInv
    <3> QED
      BY <2>8, <3>1, <3>2 DEF Listen
  <2>9. CASE AddListener(r)
    <3>1. /\ UNCHANGED <<pipes, active, listened>> /\ Answered(r, "note") /\ request[r] = "note"
          /\ listener' = [listener EXCEPT ![options[r]][event[r]] = found[r]]
      BY <2>9 DEF AddListener, Answered, Goes
    <3>2. New(r) /\ options[r] \in 1..made /\ options[r] \in Filters /\ event[r] \in Events
      BY <3>1, EventFacts DEF ListInv, EventLabels
    <3>3. \A f \in Filters, e \in Events :
              listener'[f][e] = IF f = options[r] /\ e = event[r] THEN found[r]
                                ELSE listener[f][e]
      BY <3>1, EventFacts
    <3>4. /\ request'[r] = "idle" /\ found'[r] = Nil
          /\ \A q \in Requests : q # r =>
                 /\ request'[q] = request[q] /\ options'[q] = options[q]
                 /\ event'[q] = event[q] /\ found'[q] = found[q]
      BY <3>1, EventFacts DEF Answered, Goes
    <3>5. Added'
      <4>1. \A f \in Filters : f > made => f # options[r]
        BY <3>2, EventFacts, BoundAssumption DEF Filters
      <4> QED
        BY <3>1, <3>2, <3>3, <3>4, <4>1 DEF ListInv, Added, Maybe, New, pipes
    <3>6. Listed'
      <4> SUFFICES ASSUME NEW f \in pipelines', NEW e \in Events
                   PROVE  listener'[f][e] \in Maybe(active'[f][e]) \/ Clearing(f, e)'
        BY DEF Listed
      <4>1. f \in pipelines /\ f \in Filters /\ active'[f][e] = active[f][e]
        BY <3>1, EventFacts DEF pipes
      <4>2. CASE f = options[r] /\ e = event[r]
        BY <3>2, <3>3, <4>1, <4>2 DEF New, Heard, Maybe
      <4>3. CASE ~(f = options[r] /\ e = event[r])
        <5>1. CASE Clearing(f, e)
          BY <3>1, <3>4, <5>1 DEF Clearing
        <5>2. CASE listener[f][e] \in Maybe(active[f][e])
          BY <3>3, <4>1, <4>3, <5>2
        <5> QED
          BY <4>1, <5>1, <5>2 DEF ListInv, Listed
      <4> QED
        BY <4>2, <4>3
    <3>7. ASSUME NEW q \in Requests, q # r, request[q] = "note" PROVE New(q)'
      <4>1. New(q) /\ found[q] # found[r] /\ found[q] # Nil
        BY <3>2, <3>7, EventFacts DEF ListInv, New
      <4> QED
        BY <3>1, <3>3, <3>4, <3>7, <4>1 DEF New, Heard, pipes
    <3> QED
      BY <3>4, <3>5, <3>6, <3>7 DEF ListInv
  <2>10. CASE Unlisten(r)
    <3>1. CASE Answered(r, "unlisten") /\ UNCHANGED active
      <4>1. Leaves(r)
        BY <2>10, <3>1, AnsweredLeaves DEF Unlisten, pipes
      <4> QED
        BY <4>1, LeavesKeeps
    <3>2. CASE /\ Goes(r, "unlisten", "forget") /\ found[r] \in Heard(r)
               /\ active' = [active EXCEPT ![options[r]][event[r]] = Heard(r) \ {found[r]}]
               /\ UNCHANGED locals
      <4>1. /\ UNCHANGED <<pipes, listener, listened>> /\ request[r] = "unlisten"
            /\ options[r] \in Filters /\ event[r] \in Events
        BY <2>10, <3>2, EventFacts DEF Unlisten, Goes, EventLabels
      <4>2. \A f \in Filters, e \in Events :
                active'[f][e] = IF f = options[r] /\ e = event[r]
                                THEN active[f][e] \ {found[r]} ELSE active[f][e]
        BY <3>2, <4>1, EventFacts DEF Heard
      <4>3. /\ request'[r] = "forget"
            /\ \A q \in Requests : q # r => request'[q] = request[q]
        BY <3>2, EventFacts DEF Goes
      <4>4. Added'
        BY <3>2, <4>1 DEF ListInv, Added, locals, pipes
      <4>5. Listed'
        <5> SUFFICES ASSUME NEW f \in pipelines', NEW e \in Events
                     PROVE  listener'[f][e] \in Maybe(active'[f][e]) \/ Clearing(f, e)'
          BY DEF Listed
        <5>1. f \in pipelines /\ f \in Filters /\ listener'[f][e] = listener[f][e]
          BY <4>1, EventFacts DEF pipes
        <5>2. UNCHANGED <<options, event>>
          BY <3>2 DEF locals
        <5>3. CASE f = options[r] /\ e = event[r]
          BY <4>3, <5>2, <5>3 DEF Clearing
        <5>4. CASE ~(f = options[r] /\ e = event[r])
          <6>1. CASE Clearing(f, e)
            <7>1. PICK q \in Requests : request[q] = "forget" /\ options[q] = f /\ event[q] = e
              BY <6>1 DEF Clearing
            <7>2. request'[q] = "forget" /\ options'[q] = f /\ event'[q] = e
              BY <4>3, <5>2, <7>1
            <7> QED
              BY <7>2 DEF Clearing
          <6>2. CASE listener[f][e] \in Maybe(active[f][e])
            BY <4>2, <5>1, <5>4, <6>2
          <6> QED
            BY <5>1, <6>1, <6>2 DEF ListInv, Listed
        <5> QED
          BY <5>3, <5>4
      <4>6. ASSUME NEW q \in Requests, q # r, request[q] = "note" PROVE New(q)'
        <5>1. New(q) /\ found[r] # found[q] /\ options[q] \in Filters /\ event[q] \in Events
          BY <4>6, EventFacts DEF ListInv, New, EventLabels
        <5> QED
          BY <3>2, <4>1, <4>2, <4>3, <4>6, <5>1 DEF New, Heard, locals, pipes
      <4> QED
        BY <4>3, <4>4, <4>5, <4>6 DEF ListInv
    <3> QED
      BY <2>10, <3>1, <3>2 DEF Unlisten
  <2>11. CASE RemoveListener(r)
    <3>1. /\ UNCHANGED <<pipes, active, listened>> /\ Answered(r, "forget")
          /\ request[r] = "forget"
          /\ listener' = [listener EXCEPT ![options[r]][event[r]] = Nil]
      BY <2>11 DEF RemoveListener, Answered, Goes
    <3>2. options[r] \in Filters /\ event[r] \in Events
      BY <3>1, EventFacts DEF EventLabels
    <3>3. \A f \in Filters, e \in Events :
              listener'[f][e] = IF f = options[r] /\ e = event[r] THEN Nil ELSE listener[f][e]
      BY <3>1, EventFacts
    <3>4. /\ request'[r] = "idle" /\ found'[r] = Nil
          /\ \A q \in Requests : q # r =>
                 /\ request'[q] = request[q] /\ options'[q] = options[q]
                 /\ event'[q] = event[q] /\ found'[q] = found[q]
      BY <3>1, EventFacts DEF Answered, Goes
    <3>5. Added'
      BY <3>1, <3>3, <3>4 DEF ListInv, Added, Maybe, pipes
    <3>6. Listed'
      <4> SUFFICES ASSUME NEW f \in pipelines', NEW e \in Events
                   PROVE  listener'[f][e] \in Maybe(active'[f][e]) \/ Clearing(f, e)'
        BY DEF Listed
      <4>1. f \in pipelines /\ f \in Filters /\ active'[f][e] = active[f][e]
        BY <3>1, EventFacts DEF pipes
      <4>2. CASE f = options[r] /\ e = event[r]
        BY <3>3, <4>1, <4>2 DEF Maybe
      <4>3. CASE ~(f = options[r] /\ e = event[r])
        <5>1. CASE Clearing(f, e)
          <6>1. PICK q \in Requests : request[q] = "forget" /\ options[q] = f /\ event[q] = e
            BY <5>1 DEF Clearing
          <6>2. request'[q] = "forget" /\ options'[q] = f /\ event'[q] = e
            BY <3>4, <4>3, <6>1
          <6> QED
            BY <6>2 DEF Clearing
        <5>2. CASE listener[f][e] \in Maybe(active[f][e])
          BY <3>3, <4>1, <4>3, <5>2
        <5> QED
          BY <4>1, <5>1, <5>2 DEF ListInv, Listed
      <4> QED
        BY <4>2, <4>3
    <3>7. ASSUME NEW q \in Requests, q # r, request[q] = "note" PROVE New(q)'
      <4>1. New(q) /\ found[q] # Nil
        BY <3>7, EventFacts DEF ListInv, New
      <4> QED
        BY <3>1, <3>3, <3>4, <3>7, <4>1 DEF New, Heard, pipes
    <3> QED
      BY <3>4, <3>5, <3>6, <3>7 DEF ListInv
  <2> QED
    BY <1>2, <2>1, <2>2, <2>3, <2>4, <2>5, <2>6, <2>7, <2>8, <2>9, <2>10, <2>11,
       LeavesKeeps DEF Step
<1> QED
  BY <1>1, <1>2 DEF Next

\* When all requests have been answered, the listener that a filter lists for
\* an event is active, whatever subscriptions and their removals interleaved
\* (subscribeFilterEvent, unsubscribeFilterEvent of RestApiController.java).
THEOREM ListedAlwaysActive == Spec => []ListedIsActive
<1>1. Init => TInv /\ ListInv
  <2> SUFFICES ASSUME Init PROVE ListInv
    BY InitTyped
  <2>1. listened = 0 /\ listened \in Nat
    BY DEF Init
  <2> QED
    BY <2>1 DEF Init, ListInv, Listed, Added, Maybe
<1>2. TInv /\ ListInv /\ [Next]_vars => (TInv /\ ListInv)'
  BY StepTyped, ListKept
<1>3. ListInv => ListedIsActive
  BY DEF ListInv, Listed, Clearing, ListedIsActive, AtRest
<1> QED
  BY <1>1, <1>2, <1>3, PTL DEF Spec
=============================================================================
