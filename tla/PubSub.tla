------------------------------- MODULE PubSub -------------------------------
(***************************************************************************)
(* What the server promises to those that ask for frames, without tables,  *)
(* slots and threads: each message goes, in parts, to the readers then     *)
(* subscribed to one of its topics, to one after the other, to each once,  *)
(* and to nobody else.  Nothing but a message enters a stream, and none    *)
(* ends before all its readers were served.  A subscription is made once   *)
(* and is lost in two ways: the reader leaves, or another registration in  *)
(* the same topic takes its place.                                         *)
(***************************************************************************)
EXTENDS Sequences

CONSTANTS
  Readers,
  Topics,
  Messages,
  TopicsOf,      \* message -> the topics it is published under
  Parts,         \* message -> what is put on the stream of a reader
  NoMessage,
  Nobody

VARIABLES
  subs,          \* the subscriptions, pairs of a reader and a topic
  settled,       \* the readers that subscribed or left, for good
  message,       \* the message being published, or NoMessage
  due,           \* the readers it is still to be sent to
  current,       \* the one it is being sent to, or Nobody
  ahead,         \* the parts of it that one is still to get
  stream         \* reader -> what it was sent and did not read

vars == <<subs, settled, message, due, current, ahead, stream>>

Init ==
  /\ subs = {} /\ settled = {}
  /\ message = NoMessage /\ due = {}
  /\ current = Nobody /\ ahead = << >>
  /\ stream = [r \in Readers |-> << >>]

Interested == {r \in Readers : \E t \in Topics :
                 <<r, t>> \in subs /\ message # NoMessage /\ t \in TopicsOf[message]}

AtMostOne == {{}} \cup {{r} : r \in Readers}

\* A place in the topic t goes from old to new, each one reader or none.  It
\* may be one the message in publication has not come to yet.
Replace(old, new, t) ==
  /\ new \cap settled = {}
  /\ old \X {t} \subseteq subs
  /\ settled' = settled \cup new
  /\ subs' = (subs \ (old \X {t})) \cup (new \X {t})
  /\ due' \in {due \ old, (due \ old) \cup new}
  /\ due' \subseteq Interested'
  /\ UNCHANGED <<message, current, ahead, stream>>

Leave(r) ==
  /\ settled' = settled \cup {r}
  /\ subs' = subs \ ({r} \X Topics)
  /\ due' = due \ {r}
  /\ IF current = r THEN current' = Nobody /\ ahead' = << >>
                    ELSE UNCHANGED <<current, ahead>>
  /\ stream' = [stream EXCEPT ![r] = << >>]
  /\ UNCHANGED message

Read(r) ==
  /\ stream[r] # << >>
  /\ stream' = [stream EXCEPT ![r] = Tail(@)]
  /\ UNCHANGED <<subs, settled, message, due, current, ahead>>

Publish(m) ==
  /\ message = NoMessage
  /\ message' = m
  /\ due' = Interested'
  /\ UNCHANGED <<subs, settled, current, ahead, stream>>

Begin(r) ==
  /\ current = Nobody
  /\ r \in due
  /\ due' = due \ {r}
  /\ current' = r
  /\ ahead' = Parts[message]
  /\ UNCHANGED <<subs, settled, message, stream>>

Put ==
  /\ current # Nobody
  /\ stream' = [stream EXCEPT ![current] = Append(@, Head(ahead))]
  /\ ahead' = Tail(ahead)
  /\ current' = IF ahead' = << >> THEN Nobody ELSE current
  /\ UNCHANGED <<subs, settled, message, due>>

Finish ==
  /\ message # NoMessage
  /\ due = {} /\ current = Nobody
  /\ message' = NoMessage
  /\ UNCHANGED <<subs, settled, due, current, ahead, stream>>

Next ==
  \/ \E old, new \in AtMostOne, t \in Topics : Replace(old, new, t)
  \/ \E r \in Readers : Leave(r) \/ Read(r) \/ Begin(r)
  \/ \E m \in Messages : Publish(m)
  \/ Put
  \/ Finish

Spec == Init /\ [][Next]_vars
=============================================================================
