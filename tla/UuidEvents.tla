----------------------------- MODULE UuidEvents -----------------------------
(* EmployUuids and the public events: one registry of uuids in memory and  *)
(* in uuids.db, the table public_events, the handler and the tasks that    *)
(* add events, and the task that gives one to the events of a time before  *)
(* events had uuids.                                                       *)
(*                                                                         *)
(* generateNewUuid holds a mutex over the map entry and the INSERT in      *)
(* uuids.db, so it is one step; between it and the statement that stores   *)
(* the uuid of an event anything may happen, the end of the process too.   *)
(* What it throws is caught in a handler and ends the process in a task.   *)
(* public_events.db is never written to, so looking there finds nothing.   *)
(* A number is given once (the database server is not restarted).          *)
EXTENDS Naturals, FiniteSets

CONSTANTS
  EventUuids,          \* what createUuid may come up with
  AddTasks, Main, Filler,   \* AddPublicEventsTasks, the handlers' thread, the backfill
  OldEvents,           \* events without a uuid when the behaviour starts
  IdOf,                \* the number the database reads off a uuid, where it reads one
  MaxEvents, MaxEventFaults   \* bounds: rows ever inserted; refusals and restarts

NoUuid == "none"       \* the empty string
NoEvent == "gone"      \* there is no such row
EventThreads == AddTasks \cup {Main, Filler}
EventIds == 1..MaxEvents

ASSUME EventsAssumption ==
  /\ NoUuid \notin EventUuids /\ NoEvent \notin EventUuids
  /\ Main \notin AddTasks \cup {Filler} /\ Filler \notin AddTasks
  /\ MaxEvents \in Nat /\ MaxEventFaults \in Nat /\ OldEvents \in 0..MaxEvents
  /\ IdOf \in [EventUuids -> Nat]

VARIABLES
  registered,      \* the type of each key of m_mapGlobalUuids
  stored,          \* that of each uuid in uuids.db
  event_uuid,      \* public_events by id
  next_event,
  holding,         \* the uuid a thread has and not yet stored with an event
  filling,         \* the step of UpdateMissingUuidsInPublicEvents
  unfilled, filled_id,   \* the rows it has still to read, the row it is at
  events_up, event_faults,
  removed          \* auxiliary: uuids public_events.delete has answered for

uuidMaps == <<registered, stored>>
eventRows == <<event_uuid, next_event>>
backfill == <<filling, unfilled, filled_id>>
eventsVars == <<uuidMaps, eventRows, holding, backfill, events_up, event_faults, removed>>

UuidTypes == {"public_event", "test"}
Nowhere == [u \in EventUuids |-> "unknown"]
Idle(t) == holding[t] = NoUuid
EventsServing == events_up /\ Idle(Main)
EventFault == event_faults < MaxEventFaults /\ event_faults' = event_faults + 1

EventsInit ==
  /\ registered = Nowhere /\ stored = Nowhere
  /\ event_uuid = [i \in EventIds |-> IF i <= OldEvents THEN NoUuid ELSE NoEvent]
  /\ next_event = OldEvents + 1
  /\ holding = [t \in EventThreads |-> NoUuid]
  /\ filling = "idle" /\ unfilled = {} /\ filled_id = 0
  /\ events_up = FALSE /\ event_faults = 0 /\ removed = {}
-----------------------------------------------------------------------------
(* EmployUuids::init, and serverStarted, which starts the backfill.        *)
EventsStart ==
  /\ ~events_up /\ events_up' = TRUE
  /\ registered' = stored /\ filling' = "begin"
  /\ UNCHANGED <<stored, eventRows, holding, unfilled, filled_id, event_faults, removed>>

ProcessEnds ==
  /\ events_up' = FALSE /\ registered' = Nowhere
  /\ holding' = [t \in EventThreads |-> NoUuid]
  /\ filling' = "idle" /\ unfilled' = {} /\ filled_id' = 0

EventsStop ==
  /\ events_up /\ EventFault /\ ProcessEnds
  /\ UNCHANGED <<stored, eventRows, removed>>
-----------------------------------------------------------------------------
(* generateNewUuid: one of the uuids the map lacks.  uuids.db has a unique *)
(* index; what it refuses stays in the map.                                *)
NewUuids == {u \in EventUuids : registered[u] = "unknown"}

Register(u, type) ==
  /\ registered' = [registered EXCEPT ![u] = type]
  /\ stored[u] = "unknown" /\ stored' = [stored EXCEPT ![u] = type]

Refused(t, u) ==
  IF t = Main
  THEN registered' = [registered EXCEPT ![u] = "public_event"] /\ UNCHANGED <<holding, backfill, events_up>>
  ELSE ProcessEnds

Generate(t, u) ==
  /\ events_up /\ Idle(t) /\ u \in NewUuids
  /\ Register(u, "public_event") /\ holding' = [holding EXCEPT ![t] = u]
  /\ UNCHANGED <<events_up, event_faults>>

GenerateRefused(t, u) ==
  /\ events_up /\ Idle(t) /\ u \in NewUuids /\ (t = Filler => filling = "next")
  /\ EventFault /\ Refused(t, u)
  /\ UNCHANGED <<stored, eventRows, removed>>

(* createpublicevent, and AddPublicEventsTask, which leaves the uuid to    *)
(* addPublicEvent: the uuid, then the row.                                 *)
BeginAddEvent(t, u) ==
  /\ t # Filler /\ Generate(t, u)
  /\ UNCHANGED <<eventRows, backfill, removed>>

InsertEvent(t) ==
  /\ t # Filler /\ ~Idle(t) /\ next_event <= MaxEvents
  /\ event_uuid' = [event_uuid EXCEPT ![next_event] = holding[t]] /\ next_event' = next_event + 1
  /\ holding' = [holding EXCEPT ![t] = NoUuid]
  /\ UNCHANGED <<uuidMaps, backfill, events_up, event_faults, removed>>

InsertEventRefused(t) ==
  /\ t # Filler /\ ~Idle(t) /\ EventFault
  /\ holding' = [holding EXCEPT ![t] = NoUuid]
  /\ UNCHANGED <<uuidMaps, eventRows, backfill, events_up, removed>>

(* server.uuid_generate, for an object that is kept nowhere.               *)
UuidGenerate(u) ==
  /\ EventsServing /\ u \in NewUuids /\ Register(u, "test")
  /\ UNCHANGED <<eventRows, holding, backfill, events_up, event_faults, removed>>
-----------------------------------------------------------------------------
(* UpdateMissingUuidsInPublicEvents: the rows without a uuid are selected  *)
(* once, in no order, and updated one by one; the first refused UPDATE     *)
(* ends it.  A row deleted meanwhile is not found by its UPDATE.           *)
Missing == {i \in EventIds : event_uuid[i] = NoUuid}

BeginFill ==
  /\ filling = "begin"
  /\ unfilled' = Missing /\ filling' = IF Missing = {} THEN "done" ELSE "next"
  /\ UNCHANGED <<uuidMaps, eventRows, holding, filled_id, events_up, event_faults, removed>>

BeginFillRefused ==
  /\ filling = "begin" /\ EventFault /\ filling' = "cut"
  /\ UNCHANGED <<uuidMaps, eventRows, holding, unfilled, filled_id, events_up, removed>>

FillNext(i, u) ==
  /\ filling = "next" /\ i \in unfilled
  /\ Generate(Filler, u) /\ filled_id' = i /\ filling' = "update"
  /\ UNCHANGED <<eventRows, unfilled, removed>>

AfterFillLast(left) == IF Cardinality(left) <= 1 THEN "done" ELSE "next"

AfterFill(left) == IF left = {} THEN "done" ELSE "next"

FillUpdate ==
  /\ filling = "update"
  /\ event_uuid' = IF event_uuid[filled_id] = NoEvent THEN event_uuid
                   ELSE [event_uuid EXCEPT ![filled_id] = holding[Filler]]
  /\ unfilled' = unfilled \ {filled_id} /\ filling' = AfterFill(unfilled')
  /\ holding' = [holding EXCEPT ![Filler] = NoUuid]
  /\ UNCHANGED <<uuidMaps, next_event, filled_id, events_up, event_faults, removed>>

FillUpdateRefused ==
  /\ filling = "update" /\ EventFault /\ filling' = "cut"
  /\ holding' = [holding EXCEPT ![Filler] = NoUuid]
  /\ UNCHANGED <<uuidMaps, eventRows, unfilled, filled_id, events_up, removed>>
-----------------------------------------------------------------------------
(* deletepublicevent: the result of the DELETE is not looked at.           *)
DeleteEventById(i) ==
  /\ EventsServing /\ event_uuid[i] # NoEvent
  /\ \/ event_uuid' = [event_uuid EXCEPT ![i] = NoEvent] /\ UNCHANGED event_faults
     \/ EventFault /\ UNCHANGED event_uuid
  /\ UNCHANGED <<uuidMaps, next_event, holding, backfill, events_up, removed>>

(* public_events.delete: the event is found by its uuid and the row whose  *)
(* id is the uuid is deleted; the database reads a number off the string,  *)
(* or refuses to in strict mode.                                           *)
RowsOfUuid(u) == {IdOf[u]} \cap EventIds

DeleteEvent(u) ==
  /\ EventsServing /\ \E i \in EventIds : event_uuid[i] = u
  /\ \/ event_uuid' = [i \in EventIds |-> IF i \in RowsOfUuid(u) THEN NoEvent ELSE event_uuid[i]]
     \/ UNCHANGED event_uuid
  /\ removed' = removed \cup {u}
  /\ UNCHANGED <<uuidMaps, next_event, holding, backfill, events_up, event_faults>>
-----------------------------------------------------------------------------
EventsNext ==
  \/ EventsStart \/ EventsStop
  \/ \E t \in EventThreads, u \in EventUuids : BeginAddEvent(t, u) \/ GenerateRefused(t, u)
  \/ \E t \in EventThreads : InsertEvent(t) \/ InsertEventRefused(t)
  \/ \E u \in EventUuids : UuidGenerate(u) \/ DeleteEvent(u)
  \/ BeginFill \/ BeginFillRefused \/ FillUpdate \/ FillUpdateRefused
  \/ \E i \in EventIds, u \in EventUuids : FillNext(i, u)
  \/ \E i \in EventIds : DeleteEventById(i)

EventsSpec == EventsInit /\ [][EventsNext]_eventsVars
-----------------------------------------------------------------------------
EventsTypeOK ==
  /\ registered \in [EventUuids -> UuidTypes \cup {"unknown"}]
  /\ stored \in [EventUuids -> UuidTypes \cup {"unknown"}]
  /\ event_uuid \in [EventIds -> EventUuids \cup {NoUuid, NoEvent}] /\ next_event \in 1..(MaxEvents + 1)
  /\ holding \in [EventThreads -> EventUuids \cup {NoUuid}]
  /\ filling \in {"idle", "begin", "next", "update", "done", "cut"}
  /\ unfilled \subseteq EventIds /\ filled_id \in 0..MaxEvents
  /\ events_up \in BOOLEAN /\ event_faults \in 0..MaxEventFaults /\ removed \subseteq EventUuids

HasUuid(i) == event_uuid[i] \in EventUuids

(* A uuid names one event, whichever threads made uuids at the same time,  *)
(* whatever was refused and wherever the process ended; and                *)
(* server.uuid_info and uuids.db know it for an event.                     *)
EventUuidsTrue ==
  \A i \in EventIds : HasUuid(i) =>
    /\ \A j \in EventIds : event_uuid[i] = event_uuid[j] => i = j
    /\ stored[event_uuid[i]] = "public_event"
    /\ events_up => registered[event_uuid[i]] = "public_event"

(* A backfill no statement of which was refused leaves no event without a  *)
(* uuid, after earlier ones that were cut off at any row, and with events  *)
(* added and deleted meanwhile.                                            *)
BackfillLeavesNone == filling = "done" => Missing = {}

(* Every event has its own uuid, once the backfill has been through.       *)
EventsNamed == EventUuidsTrue /\ BackfillLeavesNone

(* An event public_events.delete has answered for is no longer there, as   *)
(* the comment on removePublicEvent says of what it returns.               *)
DeletedEventIsGone == \A i \in EventIds : event_uuid[i] \notin removed
=============================================================================
