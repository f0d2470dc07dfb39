----------------------------- MODULE SessionBus -----------------------------
(***************************************************************************)
(* The session bus (runtime/src/session_bus.rs) and the threads that use   *)
(* it.  Every process has a bus of its own: the registered peers, a queue  *)
(* of unread messages per peer and the table of who watches whom.  A front *)
(* is a session with a user in front of it, the main session, an IM        *)
(* channel or a panel: it sends from its turn, and a thread shows what     *)
(* arrived.  The main session and the channels own a mailbox as well, a    *)
(* directory in which other processes leave messages as files.  The one    *)
(* poller of a process empties them, that of an IM bridge the mailboxes of *)
(* all its channels in turn.  A sub-agent registers when it runs,          *)
(* takes the commands sent to it between two turns, and is marked Done,    *)
(* pruned and announced when it ends.                                      *)
(*                                                                         *)
(* One action is one section under the locks.  The limit of the rate, the  *)
(* unread counter shown beside a peer and the time it was last seen are    *)
(* left out: which Done peers are the oldest is any choice.  So is the     *)
(* chat message an IM bridge sends beside a queue it delivers to.          *)
(*                                                                         *)
(* Operators named Mut_... are plausible bugs the checks are tried on; no  *)
(* action of the specification uses one.                                   *)
(***************************************************************************)
EXTENDS Integers, FiniteSets, Sequences, SequencesExt

CONSTANTS
  Procs,         \* the processes on one directory of mailboxes
  Fronts, Subs,  \* the sessions: those with a user, and the sub-agents
  Boxes,         \* the fronts that own a mailbox
  Readers,       \* the fronts that show what arrives
  Watchable,     \* the pairs <<f, target>> a user may ask to watch
  HomeOf,        \* the process a session lives in
  KindOf,        \* the kind a session registers with at home
  Granted,       \* the pairs of kinds that session_bus.allow adds
  All,           \* the target "*"
  MaxUnread,     \* MAX_UNREAD_PER_PEER
  MaxDone,       \* MAX_DONE_SUBAGENTS
  MaxMessages,   \* bound: messages sent
  MaxRuns        \* bound: runs of sub-agents

Ids == Fronts \union Subs
Kinds == {"Main", "Subagent", "Ide", "Im"}

ASSUME BusAssumption ==
  /\ IsFiniteSet(Subs) /\ IsFiniteSet(Boxes)
  /\ Fronts \intersect Subs = {}
  /\ Readers \subseteq Fronts
  /\ Watchable \subseteq Fronts \X Ids
  /\ Boxes \subseteq Fronts
  /\ All \notin Ids
  /\ HomeOf \in [Ids -> Procs]
  /\ KindOf \in [Ids -> Kinds]
  /\ \A s \in Subs : KindOf[s] = "Subagent"
  /\ Granted \subseteq Kinds \X Kinds
  /\ MaxUnread \in Nat \ {0}
  /\ MaxDone \in Nat
  /\ MaxMessages \in Nat
  /\ MaxRuns \in Nat

VARIABLES
  status,   \* peers: what a process knows of a session
  unread,   \* the queue of a peer in a process
  watch,    \* the pairs <<watcher, watched>> of a process
  mailbox,  \* the files in a mailbox
  thread,   \* what the turn of a front or the run of a sub-agent is doing
  reader,   \* the messages a front has read and not cleared yet
  shown,    \* the messages a front has shown
  poller,   \* the messages a poller has taken from the mailbox
  sent,     \* the number of messages sent
  runs      \* the number of runs of sub-agents

vars == <<status, unread, watch, mailbox, thread, reader, shown, poller, sent, runs>>

Bodies == {"Message", "Command", "Handoff"}
Message == [n : 1..MaxMessages, from : Ids, to : Ids \union {All}, body : Bodies, relay : BOOLEAN]
Statuses == {"Absent", "Idle", "Streaming", "Done"}

\* The places of a thread, and the poller's.
Places == {"idle", "dispatch", "write", "turn", "killed", "prune", "leave", "unqueue", "unwatch", "handoff"}
At(place) == [at |-> place, msgs |-> <<>>, ids |-> <<>>]
Sending(m) == [At("dispatch") EXCEPT !.msgs = <<m>>]
PollerSteps == {"take", "register", "inject"}

Init ==
  /\ status = [p \in Procs |-> [i \in Ids |-> IF i \in Fronts /\ HomeOf[i] = p THEN "Idle" ELSE "Absent"]]
  /\ unread = [p \in Procs |-> [i \in Ids |-> <<>>]]
  /\ watch = [p \in Procs |-> {}]
  /\ mailbox = [f \in Boxes |-> <<>>]
  /\ thread = [i \in Ids |-> At("idle")]
  /\ reader = [f \in Fronts |-> <<>>]
  /\ shown = [f \in Fronts |-> <<>>]
  /\ poller = [p \in Procs |-> [step |-> "take", batch |-> <<>>]]
  /\ sent = 0
  /\ runs = 0

-----------------------------------------------------------------------------
(* Routing *)

Registered(p) == {i \in Ids : status[p][i] # "Absent"}

\* A session of another process is a peer of kind Ide.
KindAt(p, i) == IF HomeOf[i] = p THEN KindOf[i] ELSE "Ide"

\* Deny by default.
DefaultAllowed(from, to) ==
  \/ from = "Main"
  \/ from = "Subagent" /\ to \in {"Main", "Subagent"}

IsAllowed(from, to) == <<from, to>> \in Granted \/ DefaultAllowed(from, to)

\* The peers that get the message itself; enforce is false for a message
\* another process sent, whose bus has asked already.
Direct(p, m, enforce) ==
  {i \in Registered(p) :
     /\ IF m.to = All THEN i # m.from ELSE i = m.to
     /\ enforce => IsAllowed(KindAt(p, m.from), KindAt(p, i))}

\* The peers that get a copy because they watch one that got it.
Mut_MirrorsUnchecked(p, m, enforce) ==
  {w \in Registered(p) \ Direct(p, m, enforce) :
     \E t \in Direct(p, m, enforce) : <<w, t>> \in watch[p]}

Mirrors(p, m, enforce) ==
  {w \in Registered(p) \ Direct(p, m, enforce) :
     /\ \E t \in Direct(p, m, enforce) : <<w, t>> \in watch[p]
     /\ IsAllowed(KindAt(p, m.from), KindAt(p, w))}

\* The sessions whose mailbox gets a file: those this process does not
\* know, and the target that did not get the message.
Routes(p, m, enforce) ==
  {f \in Boxes :
     /\ IF m.to = All THEN f \notin Registered(p) ELSE f = m.to /\ f \notin Direct(p, m, enforce)
     /\ enforce => IsAllowed(KindAt(p, m.from), "Ide")}

Mut_PushPastLimit(queue, m) ==
  IF Len(queue) > MaxUnread THEN Append(Tail(queue), m) ELSE Append(queue, m)

\* A queue at its limit drops its oldest message.
Push(queue, m) ==
  IF Len(queue) = MaxUnread THEN Append(Tail(queue), m) ELSE Append(queue, m)

\* What is left of a queue when only these places of it are kept.
KeepAt(queue, places) ==
  LET n == Cardinality(places)
      kept == CHOOSE kept \in [1..n -> places] : \A k, l \in 1..n : k < l => kept[k] < kept[l]
  IN [k \in 1..n |-> queue[kept[k]]]

\* The section under the locks of the peers and the queues.
Dispatch(p, m, enforce) ==
  unread' = [unread EXCEPT ![p] = [i \in Ids |->
    CASE i \in Direct(p, m, enforce) -> Push(@[i], m)
      [] i \in Mirrors(p, m, enforce) -> Push(@[i], [m EXCEPT !.to = i, !.relay = TRUE])
      [] OTHER -> @[i]]]

-----------------------------------------------------------------------------
(* The turn of a front *)

\* bus_send: what is sent to a sub-agent is a command; the table of the
\* peers is looked at once, and then published to.
Compose(f, to) ==
  LET p == HomeOf[f]
      toSub == to \in Registered(p) /\ KindAt(p, to) = "Subagent"
  IN /\ thread[f].at = "idle"
     /\ sent < MaxMessages
     /\ sent' = sent + 1
     /\ thread' = [thread EXCEPT ![f] = Sending(
          [n |-> sent + 1, from |-> f, to |-> to,
           body |-> IF toSub THEN "Command" ELSE "Message", relay |-> FALSE])]
     /\ UNCHANGED <<status, unread, watch, mailbox, reader, shown, poller, runs>>

\* publish, under the locks; the files are written after.
Publish(i) ==
  LET p == HomeOf[i]
      m == Head(thread[i].msgs)
      routes == SetToSeq(Routes(p, m, TRUE))
  IN /\ thread[i].at = "dispatch"
     /\ Dispatch(p, m, TRUE)
     /\ thread' = [thread EXCEPT ![i] =
          IF routes = <<>> THEN At("idle") ELSE [at |-> "write", msgs |-> <<m>>, ids |-> routes]]
     /\ UNCHANGED <<status, watch, mailbox, reader, shown, poller, sent, runs>>

\* publish_to_file: the file appears whole in the mailbox; what the writer
\* cannot write is lost, silently.
WriteFile(i, fails) ==
  LET to == Head(thread[i].ids)
      rest == Tail(thread[i].ids)
      m == Head(thread[i].msgs)
  IN /\ thread[i].at = "write"
     /\ mailbox' = IF fails THEN mailbox
                   ELSE [mailbox EXCEPT ![to] = Append(@, [m EXCEPT !.to = to])]
     /\ thread' = [thread EXCEPT ![i] =
          IF rest = <<>> THEN At("idle") ELSE [@ EXCEPT !.ids = rest]]
     /\ UNCHANGED <<status, unread, watch, reader, shown, poller, sent, runs>>

\* /bus watch and /bus unwatch.
Watch(f, target) ==
  LET p == HomeOf[f]
  IN /\ <<f, target>> \in Watchable
     /\ thread[f].at = "idle"
     /\ f # target
     /\ {f, target} \subseteq Registered(p)
     /\ watch' = [watch EXCEPT ![p] = @ \union {<<f, target>>}]
     /\ UNCHANGED <<status, unread, mailbox, thread, reader, shown, poller, sent, runs>>

Unwatch(f, target) ==
  LET p == HomeOf[f]
  IN /\ thread[f].at = "idle"
     /\ <<f, target>> \in watch[p]
     /\ watch' = [watch EXCEPT ![p] = @ \ {<<f, target>>}]
     /\ UNCHANGED <<status, unread, mailbox, thread, reader, shown, poller, sent, runs>>

-----------------------------------------------------------------------------
(* The thread that shows a front what arrived: it reads the queue, clears  *)
(* it in a second section, and shows what it read.                         *)

ReadUnread(f) ==
  /\ reader[f] = <<>>
  /\ unread[HomeOf[f]][f] # <<>>
  /\ reader' = [reader EXCEPT ![f] = unread[HomeOf[f]][f]]
  /\ UNCHANGED <<status, unread, watch, mailbox, thread, shown, poller, sent, runs>>

\* mark_read.
MarkRead(f) ==
  /\ reader[f] # <<>>
  /\ unread' = [unread EXCEPT ![HomeOf[f]][f] = <<>>]
  /\ shown' = [shown EXCEPT ![f] = @ \o reader[f]]
  /\ reader' = [reader EXCEPT ![f] = <<>>]
  /\ UNCHANGED <<status, watch, mailbox, thread, poller, sent, runs>>

-----------------------------------------------------------------------------
(* The run of a sub-agent *)

\* execute_subagent_llm registers the peer; what its queue holds from an
\* earlier run stays.
Register(s) ==
  /\ thread[s].at = "idle"
  /\ runs < MaxRuns
  /\ runs' = runs + 1
  /\ status' = [status EXCEPT ![HomeOf[s]][s] = "Streaming"]
  /\ thread' = [thread EXCEPT ![s] = At("turn")]
  /\ UNCHANGED <<unread, watch, mailbox, reader, shown, poller, sent>>

CommandsIn(queue) == {k \in DOMAIN queue : queue[k].body = "Command"}

Mut_ConsumeAndMarkRead(s) ==
  LET p == HomeOf[s]
  IN /\ thread[s].at = "turn"
     /\ CommandsIn(unread[p][s]) # {}
     /\ unread' = [unread EXCEPT ![p][s] = <<>>]
     /\ \E next \in {"turn", "killed"} : thread' = [thread EXCEPT ![s] = At(next)]
     /\ UNCHANGED <<status, watch, mailbox, reader, shown, poller, sent, runs>>

\* consume_commands before a turn: the commands are taken, the other
\* messages stay.  A command to kill ends the run, one to steer does not.
ConsumeCommands(s) ==
  LET p == HomeOf[s]
  IN /\ thread[s].at = "turn"
     /\ CommandsIn(unread[p][s]) # {}
     /\ unread' = [unread EXCEPT ![p][s] = KeepAt(@, DOMAIN @ \ CommandsIn(@))]
     /\ \E next \in {"turn", "killed"} : thread' = [thread EXCEPT ![s] = At(next)]
     /\ UNCHANGED <<status, watch, mailbox, reader, shown, poller, sent, runs>>

SetDone(p, s) ==
  status' = [status EXCEPT ![p][s] = IF @ = "Absent" THEN @ ELSE "Done"]

\* However the run ends, the guard marks the peer Done.
End(s) ==
  /\ thread[s].at \in {"turn", "killed"}
  /\ SetDone(HomeOf[s], s)
  /\ thread' = [thread EXCEPT ![s] = At("prune")]
  /\ UNCHANGED <<unread, watch, mailbox, reader, shown, poller, sent, runs>>

\* prune_done_peers chooses the peers to remove under the lock, and removes
\* them afterwards.
DonePeers(p) == {i \in Registered(p) : KindAt(p, i) = "Subagent" /\ status[p][i] = "Done"}

Prune(s) ==
  LET done == DonePeers(HomeOf[s])
  IN /\ thread[s].at = "prune"
     /\ \E stale \in SUBSET done :
          /\ Cardinality(stale) = (IF Cardinality(done) > MaxDone THEN Cardinality(done) - MaxDone ELSE 0)
          /\ thread' = [thread EXCEPT ![s] =
               IF stale = {} THEN At("handoff") ELSE [At("leave") EXCEPT !.ids = SetToSeq(stale)]]
     /\ UNCHANGED <<status, unread, watch, mailbox, reader, shown, poller, sent, runs>>

\* leave, in its sections: the peer, its queue, its watchers.
LeavePeers(s) ==
  /\ thread[s].at = "leave"
  /\ status' = [status EXCEPT ![HomeOf[s]][Head(thread[s].ids)] = "Absent"]
  /\ thread' = [thread EXCEPT ![s].at = "unqueue"]
  /\ UNCHANGED <<unread, watch, mailbox, reader, shown, poller, sent, runs>>

LeaveUnread(s) ==
  /\ thread[s].at = "unqueue"
  /\ unread' = [unread EXCEPT ![HomeOf[s]][Head(thread[s].ids)] = <<>>]
  /\ thread' = [thread EXCEPT ![s].at = "unwatch"]
  /\ UNCHANGED <<status, watch, mailbox, reader, shown, poller, sent, runs>>

Mut_LeaveOwnWatch(s) ==
  LET gone == Head(thread[s].ids)
      rest == Tail(thread[s].ids)
  IN /\ thread[s].at = "unwatch"
     /\ watch' = [watch EXCEPT ![HomeOf[s]] = {e \in @ : gone # e[1]}]
     /\ thread' = [thread EXCEPT ![s] =
          IF rest = <<>> THEN At("handoff") ELSE [@ EXCEPT !.at = "leave", !.ids = rest]]
     /\ UNCHANGED <<status, unread, mailbox, reader, shown, poller, sent, runs>>

LeaveWatch(s) ==
  LET gone == Head(thread[s].ids)
      rest == Tail(thread[s].ids)
  IN /\ thread[s].at = "unwatch"
     /\ watch' = [watch EXCEPT ![HomeOf[s]] = {e \in @ : gone \notin {e[1], e[2]}}]
     /\ thread' = [thread EXCEPT ![s] =
          IF rest = <<>> THEN At("handoff") ELSE [@ EXCEPT !.at = "leave", !.ids = rest]]
     /\ UNCHANGED <<status, unread, mailbox, reader, shown, poller, sent, runs>>

\* dispatch_subagent broadcasts the handoff; a sender that was pruned
\* meanwhile is refused.
Handoff(s) ==
  LET p == HomeOf[s]
  IN /\ thread[s].at = "handoff"
     /\ sent < MaxMessages
     /\ SetDone(p, s)
     /\ sent' = sent + 1
     /\ thread' = [thread EXCEPT ![s] =
          IF status[p][s] = "Absent" THEN At("idle")
          ELSE Sending([n |-> sent + 1, from |-> s, to |-> All, body |-> "Handoff", relay |-> FALSE])]
     /\ UNCHANGED <<unread, watch, mailbox, reader, shown, poller, runs>>

\* The other callers of execute_subagent_llm broadcast nothing.
Return(s) ==
  /\ thread[s].at = "handoff"
  /\ thread' = [thread EXCEPT ![s] = At("idle")]
  /\ UNCHANGED <<status, unread, watch, mailbox, reader, shown, poller, sent, runs>>

-----------------------------------------------------------------------------
(* The poller of a process: its mailboxes one at a time, and the messages  *)
(* of one before the next.                                                 *)

\* consume_mailbox: every file is read and archived; a file that cannot be
\* archived stays where it is, and its message is handed out all the same.
ConsumeMailbox(f) ==
  LET p == HomeOf[f]
      files == mailbox[f]
  IN /\ poller[p] = [step |-> "take", batch |-> <<>>]
     /\ files # <<>>
     /\ poller' = [poller EXCEPT ![p].batch = files]
     /\ \E stuck \in SUBSET DOMAIN files :
          mailbox' = [mailbox EXCEPT ![f] = KeepAt(files, stuck)]
     /\ UNCHANGED <<status, unread, watch, thread, reader, shown, sent, runs>>

\* The message of a sender the process knows is skipped, through whichever of
\* its mailboxes it became known.
Skips(f) == Head(poller[HomeOf[f]].batch).from \in Registered(HomeOf[f])

Mut_TakeAll(f) ==
  LET p == HomeOf[f]
  IN /\ poller[p].step = "take"
     /\ poller[p].batch # <<>>
     /\ poller' = [poller EXCEPT ![p].step = "register"]
     /\ UNCHANGED <<status, unread, watch, mailbox, thread, reader, shown, sent, runs>>

\* The sender of a message is looked up.
Take(f) ==
  LET p == HomeOf[f]
  IN /\ poller[p].step = "take"
     /\ poller[p].batch # <<>>
     /\ poller' = [poller EXCEPT ![p] =
          IF Skips(f) THEN [step |-> "take", batch |-> Tail(@.batch)] ELSE [@ EXCEPT !.step = "register"]]
     /\ UNCHANGED <<status, unread, watch, mailbox, thread, reader, shown, sent, runs>>

RegisterRemote(f) ==
  LET p == HomeOf[f]
  IN /\ poller[p].step = "register"
     /\ status' = [status EXCEPT ![p][Head(poller[p].batch).from] = "Idle"]
     /\ poller' = [poller EXCEPT ![p].step = "inject"]
     /\ UNCHANGED <<unread, watch, mailbox, thread, reader, shown, sent, runs>>

Mut_InjectAsksAgain(f) ==
  LET p == HomeOf[f]
  IN /\ poller[p].step = "inject"
     /\ Dispatch(p, Head(poller[p].batch), TRUE)
     /\ poller' = [poller EXCEPT ![p] = [step |-> "take", batch |-> Tail(@.batch)]]
     /\ UNCHANGED <<status, watch, mailbox, thread, reader, shown, sent, runs>>

\* inject: dispatch without asking for permission.  The message is for the
\* owner of the mailbox, so that no file is written.
Inject(f) ==
  LET p == HomeOf[f]
  IN /\ poller[p].step = "inject"
     /\ Dispatch(p, Head(poller[p].batch), FALSE)
     /\ poller' = [poller EXCEPT ![p] = [step |-> "take", batch |-> Tail(@.batch)]]
     /\ UNCHANGED <<status, watch, mailbox, thread, reader, shown, sent, runs>>

-----------------------------------------------------------------------------
Act(f) ==
  \/ \E to \in Ids \union {All} : Compose(f, to)
  \/ \E target \in Ids : Watch(f, target) \/ Unwatch(f, target)

Send(i) == Publish(i) \/ WriteFile(i, FALSE)

Show(f) == ReadUnread(f) \/ MarkRead(f)

Finish(s) ==
  \/ End(s) \/ Prune(s)
  \/ LeavePeers(s) \/ LeaveUnread(s) \/ LeaveWatch(s)
  \/ Handoff(s) \/ Return(s)

Poll(f) == ConsumeMailbox(f) \/ Take(f) \/ RegisterRemote(f) \/ Inject(f)

Next ==
  \/ \E f \in Fronts : Act(f)
  \/ \E f \in Readers : Show(f)
  \/ \E f \in Boxes : Poll(f)
  \/ \E s \in Subs : Register(s) \/ ConsumeCommands(s) \/ Finish(s)
  \/ \E i \in Ids : Send(i) \/ WriteFile(i, TRUE)

Spec == Init /\ [][Next]_vars

\* A turn that sends goes on, the event loop shows what is there, a run
\* ends, and the poller wakes up every 500 ms and walks all its mailboxes, so
\* that none waits for ever behind another.
FairSpec ==
  /\ Spec
  /\ \A f \in Readers : WF_vars(Show(f))
  /\ \A f \in Boxes : WF_vars(Poll(f)) /\ SF_vars(ConsumeMailbox(f))
  /\ \A s \in Subs : WF_vars(Finish(s))
  /\ \A i \in Ids : WF_vars(Send(i))

=============================================================================
