---------------------------- MODULE FilterService ----------------------------
(***************************************************************************)
(* The filter service (RestApiController.java): requests over HTTP that    *)
(* put a Kurento filter between a subscriber and a publisher of the same   *)
(* room, remove it, and subscribe to its events.                           *)
(*                                                                         *)
(* A request runs in a thread of its own and there is no lock.  The map of *)
(* pipelines is a plain HashMap: a write begins and ends, one that         *)
(* overlaps another may undo it (a resize, or two nodes of a bucket), and  *)
(* a lookup meanwhile may miss an entry.                                   *)
(* Every call to Kurento may fail.  executeFilterMethod, getFilterDotDump  *)
(* and requests that are refused change no state.                          *)
(***************************************************************************)
EXTENDS Naturals

CONSTANTS
    Requests,       \* the threads of the server
    Keys,           \* the names of room and participant, concatenated
    Events,
    MaxFilters,     \* how many pipelines a run creates, and
    MaxListeners,   \* how many listeners it adds
    Nil

Filters   == 1..MaxFilters
Listeners == 1..MaxListeners
Maybe(S)  == S \cup {Nil}

ASSUME NilAssumption == Nil \notin Keys \cup Events \cup Nat
ASSUME BoundAssumption == MaxFilters \in Nat /\ MaxListeners \in Nat

VARIABLES
    participantsPipes,  \* key -> the options of its filter
    writers,            \* requests that are writing that map, and
    seen,               \* what each found when it began
    made,               \* how many pipelines have been created
    pipelines,          \* Kurento: those not released
    listener,           \* the options' listener for each event
    active,             \* Kurento: the listeners a filter has
    listened,           \* how many have been added
    request,            \* where each request is,
    key, event, options, found,   \* and its local variables
    failed,             \* history: pipelines whose filter or release failed
    apart,              \* history: no access to the map met a write,
    calm                \* history: nor did two requests for one key

map    == <<participantsPipes, writers, seen, apart>>
events == <<listener, active, listened>>
pipes  == <<made, pipelines, failed>>
locals == <<key, event, options, found>>
vars   == <<map, events, pipes, locals, request, calm>>

\* One type invariant.
TypeOK ==
    /\ participantsPipes \in [Keys -> Maybe(Filters)]
    /\ writers \subseteq Requests
    /\ seen \in [Requests -> [Keys -> Maybe(Filters)]]
    /\ made \in 0..MaxFilters
    /\ pipelines \subseteq 1..made /\ failed \subseteq 1..made
    /\ listener \in [Filters -> [Events -> Maybe(Listeners)]]
    /\ active \in [Filters -> [Events -> SUBSET Listeners]]
    /\ listened \in 0..MaxListeners
    /\ request \in [Requests -> {"idle", "create", "build", "put", "remove",
                       "release", "listen", "note", "lookup", "unlisten", "forget"}]
    /\ key \in [Requests -> Maybe(Keys)]
    /\ event \in [Requests -> Maybe(Events)]
    /\ options \in [Requests -> Maybe(Filters)]
    /\ found \in [Requests -> Maybe(Listeners)]
    /\ apart \in BOOLEAN /\ calm \in BOOLEAN

Empty == [k \in Keys |-> Nil]

Init ==
    /\ participantsPipes = Empty
    /\ writers = {} /\ seen = [r \in Requests |-> Empty]
    /\ made = 0 /\ pipelines = {} /\ failed = {}
    /\ listener = [f \in Filters |-> [e \in Events |-> Nil]]
    /\ active = [f \in Filters |-> [e \in Events |-> {}]]
    /\ listened = 0
    /\ request = [r \in Requests |-> "idle"]
    /\ key = [r \in Requests |-> Nil] /\ event = [r \in Requests |-> Nil]
    /\ options = [r \in Requests |-> Nil] /\ found = [r \in Requests |-> Nil]
    /\ apart = TRUE /\ calm = TRUE

----------------------------------------------------------------------------
(* Requests. *)

Goes(r, from, to) == request[r] = from /\ request' = [request EXCEPT ![r] = to]

\* A request arrives and looks up the options of its participant.
Arrives(r, k, label) ==
    /\ Goes(r, "idle", label)
    /\ key' = [key EXCEPT ![r] = k]
    /\ options' = [options EXCEPT ![r] = participantsPipes[k]]
    /\ calm' = (calm /\ \A q \in Requests : key[q] # k)
    /\ UNCHANGED <<participantsPipes, writers, seen, events, pipes, found>>

\* It is answered, with success or with an error.
Answered(r, from) ==
    /\ Goes(r, from, "idle")
    /\ key' = [key EXCEPT ![r] = Nil] /\ event' = [event EXCEPT ![r] = Nil]
    /\ options' = [options EXCEPT ![r] = Nil] /\ found' = [found EXCEPT ![r] = Nil]
    /\ UNCHANGED calm

\* Mutant: the pipeline is released before its key is removed.
BeginReleased(r) ==
    /\ request[r] \in {"put", "remove"} /\ r \notin writers
    /\ writers' = writers \cup {r}
    /\ seen' = [seen EXCEPT ![r] = participantsPipes]
    /\ apart' = (apart /\ writers = {})
    /\ pipelines' = IF request[r] = "remove" THEN pipelines \ {options[r]} ELSE pipelines
    /\ UNCHANGED <<participantsPipes, events, made, failed, locals, request, calm>>

\* It writes the map: writes that have ended since may be undone.
BeginWrite(r) ==
    /\ request[r] \in {"put", "remove"} /\ r \notin writers
    /\ writers' = writers \cup {r}
    /\ seen' = [seen EXCEPT ![r] = participantsPipes]
    /\ apart' = (apart /\ writers = {})
    /\ UNCHANGED <<participantsPipes, events, pipes, locals, request, calm>>

EndWrite(r, value) ==
    /\ r \in writers /\ writers' = writers \ {r}
    /\ \E table \in {participantsPipes, seen[r]} :
          participantsPipes' = [table EXCEPT ![key[r]] = value]
    /\ seen' = [seen EXCEPT ![r] = Empty]
    /\ UNCHANGED <<apart, events>>

----------------------------------------------------------------------------
(* addFilter and removeFilter. *)

\* Without a filter in place, or none that the lookup finds.
AddFilter(r, k) ==
    /\ \/ participantsPipes[k] = Nil /\ UNCHANGED apart
       \/ participantsPipes[k] # Nil /\ writers # {} /\ apart' = FALSE
    /\ Arrives(r, k, "create") /\ UNCHANGED event

CreateMediaPipeline(r) ==
    /\ \/ /\ made < MaxFilters /\ Goes(r, "create", "build")
          /\ made' = made + 1 /\ pipelines' = pipelines \cup {made + 1}
          /\ options' = [options EXCEPT ![r] = made + 1]
          /\ UNCHANGED <<key, event, found, calm>>
       \/ Answered(r, "create") /\ UNCHANGED <<made, pipelines>>
    /\ UNCHANGED <<map, events, failed>>

\* If the endpoints or the filter are refused the pipeline stays.  Publishing
\* and subscribing without success is only logged.
CreateFilter(r) ==
    /\ \/ /\ Goes(r, "build", "put")
          /\ UNCHANGED <<failed, locals, calm>>
       \/ /\ Answered(r, "build")
          /\ failed' = failed \cup {options[r]}
    /\ UNCHANGED <<map, events, made, pipelines>>

\* Mutant: the participant is put into the map.
PutKey(r) ==
    /\ EndWrite(r, key[r])
    /\ Answered(r, "put")
    /\ UNCHANGED pipes

Put(r) ==
    /\ EndWrite(r, options[r])
    /\ Answered(r, "put")
    /\ UNCHANGED pipes

RemoveFilter(r, k) ==
    participantsPipes[k] # Nil /\ Arrives(r, k, "remove") /\ UNCHANGED <<event, apart>>

Remove(r) ==
    /\ EndWrite(r, Nil)
    /\ Goes(r, "remove", "release")
    /\ UNCHANGED <<pipes, locals, calm>>

\* Mutant: the pipeline stays.
ReleaseNothing(r) ==
    /\ Answered(r, "release")
    /\ UNCHANGED <<map, events, pipes>>

Release(r) ==
    /\ Answered(r, "release")
    /\ \/ /\ pipelines' = pipelines \ {options[r]}
          /\ active' = [active EXCEPT ![options[r]] = [e \in Events |-> {}]]
          /\ UNCHANGED failed
       \/ /\ failed' = failed \cup {options[r]}
          /\ UNCHANGED <<pipelines, active>>
    /\ UNCHANGED <<map, listener, listened, made>>

----------------------------------------------------------------------------
(* subscribeFilterEvent and unsubscribeFilterEvent. *)

SubscribeFilterEvent(r, k, e) ==
    /\ participantsPipes[k] # Nil /\ Arrives(r, k, "listen")
    /\ event' = [event EXCEPT ![r] = e]
    /\ UNCHANGED apart

\* The listeners that the filter has for the event of a request.
Heard(r) == active[options[r]][event[r]]

Listen(r) ==
    /\ \/ /\ Goes(r, "listen", "note")
          /\ options[r] \in pipelines /\ listened < MaxListeners
          /\ listened' = listened + 1
          /\ active' = [active EXCEPT ![options[r]][event[r]] = Heard(r) \cup {listened'}]
          /\ found' = [found EXCEPT ![r] = listened']
          /\ UNCHANGED <<key, event, options, calm>>
       \/ Answered(r, "listen") /\ UNCHANGED <<listened, active>>
    /\ UNCHANGED <<map, pipes, listener>>

AddListener(r) ==
    /\ Answered(r, "note")
    /\ listener' = [listener EXCEPT ![options[r]][event[r]] = found[r]]
    /\ UNCHANGED <<map, pipes, active, listened>>

UnsubscribeFilterEvent(r, k, e) ==
    /\ participantsPipes[k] # Nil /\ Arrives(r, k, "lookup")
    /\ event' = [event EXCEPT ![r] = e]
    /\ UNCHANGED apart

GetListener(r) ==
    /\ Goes(r, "lookup", "unlisten")
    /\ found' = [found EXCEPT ![r] = listener[options[r]][event[r]]]
    /\ UNCHANGED <<map, events, pipes, key, event, options, calm>>

\* No listener, or one that Kurento does not know, is an error.
Unlisten(r) ==
    /\ \/ /\ Goes(r, "unlisten", "forget")
          /\ options[r] \in pipelines
          /\ found[r] \in Heard(r)
          /\ active' = [active EXCEPT ![options[r]][event[r]] = Heard(r) \ {found[r]}]
          /\ UNCHANGED <<locals, calm>>
       \/ Answered(r, "unlisten") /\ UNCHANGED active
    /\ UNCHANGED <<map, pipes, listener, listened>>

\* Mutant: the listener that was removed stays in the options.
KeepListener(r) ==
    /\ Answered(r, "forget")
    /\ UNCHANGED <<map, events, pipes>>

\* Whichever listener the options have by now.
RemoveListener(r) ==
    /\ Answered(r, "forget")
    /\ listener' = [listener EXCEPT ![options[r]][event[r]] = Nil]
    /\ UNCHANGED <<map, pipes, active, listened>>

----------------------------------------------------------------------------
Step(r) ==
    \/ \E k \in Keys : AddFilter(r, k) \/ RemoveFilter(r, k)
    \/ \E k \in Keys, e \in Events :
          SubscribeFilterEvent(r, k, e) \/ UnsubscribeFilterEvent(r, k, e)
    \/ BeginWrite(r) \/ CreateMediaPipeline(r) \/ CreateFilter(r) \/ Put(r)
    \/ Remove(r) \/ Release(r)
    \/ Listen(r) \/ AddListener(r) \/ GetListener(r) \/ Unlisten(r) \/ RemoveListener(r)

Next == \E r \in Requests : Step(r)

Spec == Init /\ [][Next]_vars

----------------------------------------------------------------------------
(* Properties. *)

Mapped == {participantsPipes[k] : k \in Keys} \ {Nil}
AtRest == \A r \in Requests : request[r] = "idle"

\* As long as nothing overlaps a write of the map, a filter in it has a pipeline:
\* a participant is never left with a dead filter that refuses every addFilter,
\* however adds and removals of the same participant interleave, since
\* removeFilter takes the key out before it releases
\* (RestApiController.java:361).
MappedIsLive == apart => Mapped \subseteq pipelines

\* If requests for a participant come one after the other, no pipeline is lost:
\* when all have been answered, those not released are in the map, except the
\* ones whose filter could not be built or whose release failed.
NoLostPipeline == calm /\ apart /\ AtRest => pipelines \ failed = Mapped

\* When all requests have been answered, the listener that the options of a
\* filter hold is one that Kurento has: the event can be unsubscribed, whatever
\* subscriptions to it and their removals interleaved.
ListedIsActive ==
    AtRest => \A f \in pipelines, e \in Events :
                  listener[f][e] \in Maybe(active[f][e])
=============================================================================
