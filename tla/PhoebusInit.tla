---------------------------- MODULE PhoebusInit ------------------------------
(***************************************************************************)
(* The startup pass over the configured topics: one snapshot after the     *)
(* other is read and its records are applied to the caches in order.  The  *)
(* Controls-to-Phoebus task already runs meanwhile; the monitors start     *)
(* when the pass is done.                                                  *)
(***************************************************************************)
EXTENDS Environment

VARIABLE hydration

Hydration ==
    [pc : {"snapshot", "apply", "update", "done"},
     todo : Seq(PhoebusTopics), messages : Seq(PhoebusMsg)]

HydrationTypeOK ==
    /\ hydration \in Hydration
    /\ hydration.pc \in {"apply", "update"} => hydration.todo # <<>>
    /\ hydration.pc = "update" =>
          hydration.messages # <<>> /\ Head(hydration.messages) \in ConfigMsg

HydrationInit == hydration = [pc |-> "snapshot", todo |-> TopicSeq, messages |-> <<>>]

-----------------------------------------------------------------------------
\* get_existing_messages_from_phoebus: a snapshot holds what the topic held at
\* startup and what was published since; one that cannot be read counts as empty.
HydrationSnapshot ==
    /\ hydration.pc = "snapshot"
    /\ hydration.todo # <<>>
    /\ LET topic == Head(hydration.todo) IN
       \/ /\ hydration' = [hydration EXCEPT !.pc = "apply",
                               !.messages = retained[topic] \o phoebus_topics[topic]]
          /\ NoFault
       \/ /\ hydration' = [hydration EXCEPT !.pc = "apply", !.messages = <<>>]
          /\ Fault
    /\ UNCHANGED <<caches, retained, topics, views, now, actions>>

\* Mutant: a config brings a device into scope before its state is recorded.
ScopeBeforeState ==
    /\ hydration.pc = "apply"
    /\ hydration.messages # <<>>
    /\ IF /\ Head(hydration.messages).op = "Config"
          /\ Normalizable(Head(hydration.messages).enabled)
       THEN hydration' = [hydration EXCEPT !.pc = "update"]
       ELSE hydration' = [hydration EXCEPT !.messages = Tail(@)]
    /\ NoFault
    /\ UNCHANGED <<caches, retained, topics, views, now, actions>>

\* Mutant: the lock is given up between the check for a bypass and the insertion of
\* evidence.
CheckThenInsert ==
    /\ hydration.messages # <<>>
    /\ LET msg == Head(hydration.messages)
           Skip == hydration' = [hydration EXCEPT !.pc = "apply", !.messages = Tail(@)]
           evidence == msg.op = "State" /\ msg.severity # "NONE"
       IN
       \/ /\ hydration.pc = "apply"
          /\ msg.op = "Config"
          /\ IF Normalizable(msg.enabled)
             THEN /\ record_alarm_state(msg.device, as_cached_state(msg.enabled, now))
                  /\ hydration' = [hydration EXCEPT !.pc = "update"]
             ELSE Skip /\ UNCHANGED alarm_states
       \/ /\ hydration.pc = "apply"
          /\ evidence
          /\ IF alarm_states[msg.device] # None /\ alarm_states[msg.device].state = "Bypassed"
             THEN Skip
             ELSE hydration' = [hydration EXCEPT !.pc = "insert"]
          /\ UNCHANGED alarm_states
       \/ /\ hydration.pc = "insert"
          /\ record_alarm_state(msg.device, Plain(severity_to_state(msg.severity)))
          /\ Skip
       \/ /\ hydration.pc = "apply"
          /\ msg.op # "Config" /\ ~evidence
          /\ Skip
          /\ UNCHANGED alarm_states
    /\ NoFault
    /\ UNCHANGED <<metadata_cache, retained, topics, views, now, actions>>

\* populate_caches, one record: a valid config is recorded (handle_config), a
\* state record with a severity is evidence (handle_state), the rest is skipped.
HydrationApply ==
    /\ hydration.pc = "apply"
    /\ hydration.messages # <<>>
    /\ LET msg == Head(hydration.messages)
           Skip == hydration' = [hydration EXCEPT !.messages = Tail(@)]
       IN
       \/ /\ msg.op = "Config"
          /\ IF Normalizable(msg.enabled)
             THEN /\ record_alarm_state(msg.device, as_cached_state(msg.enabled, now))
                  /\ hydration' = [hydration EXCEPT !.pc = "update"]
             ELSE Skip /\ UNCHANGED alarm_states
       \/ /\ msg.op = "State"
          /\ IF msg.severity # "NONE"
             THEN record_startup_state_evidence(msg.device,
                                                Plain(severity_to_state(msg.severity)))
             ELSE UNCHANGED alarm_states
          /\ Skip
       \/ /\ msg.op \in {"Command", "BadKey"}
          /\ Skip
          /\ UNCHANGED alarm_states
    /\ NoFault
    /\ UNCHANGED <<metadata_cache, retained, topics, views, now, actions>>

\* The second half of handle_config: metadata is replaced as a whole.
HydrationUpdate ==
    /\ hydration.pc = "update"
    /\ LET config == Head(hydration.messages) IN
       update_cached_metadata(config.device,
           [specific |-> config.specific, path |-> config.path,
            topic |-> Head(hydration.todo)])
    /\ hydration' = [hydration EXCEPT !.pc = "apply", !.messages = Tail(@)]
    /\ NoFault
    /\ UNCHANGED <<alarm_states, retained, topics, views, now, actions>>

HydrationNextTopic ==
    /\ hydration.pc = "apply"
    /\ hydration.messages = <<>>
    /\ hydration' = [hydration EXCEPT !.pc = "snapshot", !.todo = Tail(@)]
    /\ NoFault
    /\ UNCHANGED <<caches, retained, topics, views, now, actions>>

HydrationDone ==
    /\ hydration.pc = "snapshot"
    /\ hydration.todo = <<>>
    /\ hydration' = [hydration EXCEPT !.pc = "done"]
    /\ NoFault
    /\ UNCHANGED <<caches, retained, topics, views, now, actions>>

HydrationStep ==
    \/ HydrationSnapshot
    \/ HydrationApply
    \/ HydrationUpdate
    \/ HydrationNextTopic
    \/ HydrationDone

=============================================================================
