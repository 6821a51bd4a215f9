------------------------------ MODULE EventBus ------------------------------
(***************************************************************************)
(* The listener list of src/src/utility/EventUtil.cpp as operators on a    *)
(* record b: b.slots is m_event_listeners, each entry with the event it    *)
(* listens for and its id, and b.next is m_next_listener_id.               *)
(***************************************************************************)
EXTENDS Integers, Sequences, FiniteSets, FiniteSetsExt

CONSTANTS
    MaxListeners,    \* MAX_EVENT_LISTENERS
    MaxListenerId    \* MAX_EVENT_LISTENER_ID, where ids start again from 1

ASSUME BusAssumption == MaxListeners \in Nat /\ MaxListenerId \in Nat \ {0}

NoListener == -1         \* EVENT_LISTENER_ID_INVALID
NoEvent == "released"    \* EVENT_NAME_MAX

EmptyBus == [slots |-> <<>>, next |-> 1]

Listening(b, e) == {i \in DOMAIN b.slots : b.slots[i].event = e}
Named(b, id) == {i \in DOMAIN b.slots : b.slots[i].id = id}

HasRoom(b) == Listening(b, NoEvent) # {} \/ Len(b.slots) < MaxListeners

\* the id add_event_listener returns
AddedId(b) == IF HasRoom(b) THEN b.next ELSE NoListener

\* a slip: the id cursor never starts again from 1
AddNoWrap(b, e) ==
    [slots |-> IF HasRoom(b) THEN Append(b.slots, [event |-> e, id |-> b.next])
               ELSE b.slots,
     next |-> b.next + 1]

\* add_event_listener: the id is used up in any case; a released slot is taken
\* over before the list grows
AddListener(b, e) ==
    LET entry == [event |-> e, id |-> b.next]
        slots == IF Listening(b, NoEvent) # {}
                 THEN [b.slots EXCEPT ![Min(Listening(b, NoEvent))] = entry]
                 ELSE IF HasRoom(b) THEN Append(b.slots, entry) ELSE b.slots
    IN  [slots |-> slots,
         next  |-> IF b.next >= MaxListenerId THEN 1 ELSE b.next + 1]

\* a slip: the first slot that is not released is the one that goes
RemoveFirst(b, id) ==
    IF id = NoListener \/ Named(b, id) = {} THEN b
    ELSE [b EXCEPT !.slots[1] = [event |-> NoEvent, id |-> NoListener]]

\* remove_event_listener: the first slot with that id is released
RemoveListener(b, id) ==
    IF id = NoListener \/ Named(b, id) = {} THEN b
    ELSE [b EXCEPT !.slots[Min(Named(b, id))] =
                       [event |-> NoEvent, id |-> NoListener]]

\* the next handler execute_event calls for e, from slot i on; 0 at the end
NextHandler(b, e, i) ==
    IF \E k \in Listening(b, e) : k >= i
    THEN Min({k \in Listening(b, e) : k >= i}) ELSE 0
=============================================================================
