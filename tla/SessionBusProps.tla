--------------------------- MODULE SessionBusProps ---------------------------
(***************************************************************************)
(* What the session bus guarantees, and what its comments say it does.     *)
(***************************************************************************)
EXTENDS SessionBus

TypeOK ==
  /\ status \in [Procs -> [Ids -> Statuses]]
  /\ \A p \in Procs, i \in Ids :
       /\ Len(unread[p][i]) <= MaxUnread
       /\ \A k \in DOMAIN unread[p][i] : unread[p][i][k] \in Message
  /\ watch \in [Procs -> SUBSET (Ids \X Ids)]
  /\ \A f \in Boxes : \A k \in DOMAIN mailbox[f] : mailbox[f][k] \in Message
  /\ \A i \in Ids : thread[i].at \in Places
  /\ \A f \in Fronts : \A k \in DOMAIN reader[f] : reader[f][k] \in Message
  /\ \A f \in Fronts : \A k \in DOMAIN shown[f] : shown[f][k] \in Message
  /\ \A p \in Procs : poller[p].step \in PollerSteps
  /\ sent \in 0..MaxMessages
  /\ runs \in 0..MaxRuns

\* Nothing is in a queue that its sender may not send to that peer: neither
\* as the target of the message nor as a watcher of the target.  What
\* another process sent was allowed there to reach a peer of kind Ide.
NothingReachesTheForbidden ==
  \A p \in Procs, i \in Ids : \A k \in DOMAIN unread[p][i] :
    LET from == unread[p][i][k].from
    IN IF HomeOf[from] = p
       THEN IsAllowed(KindOf[from], KindAt(p, i))
       ELSE IsAllowed(KindOf[from], "Ide")

\* What a front was shown and what waits for it: every message once, those
\* of one sender in the order they were sent.  It holds although a file that
\* cannot be archived is read again and again, although a watcher may be a
\* target as well, and although a queue at its limit drops messages.
InOrderOnce ==
  \A f \in Fronts :
    LET got == shown[f] \o unread[HomeOf[f]][f]
    IN \A k, l \in DOMAIN got :
         k < l /\ got[k].from = got[l].from => got[k].n < got[l].n

\* A thread that is removing a peer of the process.
Leaving(p, i) ==
  \E s \in Subs :
    HomeOf[s] = p /\ thread[s].at \in {"unqueue", "unwatch"} /\ Head(thread[s].ids) = i

\* leave works in sections while others publish, watch and register: when
\* it is done the peer has no queue, watches nobody and is not watched, so
\* that a peer registered again under its name starts afresh.
NothingOutlivesItsPeer ==
  \A p \in Procs, i \in Ids :
    status[p][i] = "Absent" /\ ~ Leaving(p, i) =>
      /\ unread[p][i] = <<>>
      /\ \A e \in watch[p] : i \notin {e[1], e[2]}

\* A message leaves a queue for one of these reasons only: its front has
\* just shown it, or it arrived between the reading and the clearing; it is
\* a command and its sub-agent took it; a message arrived at the limit and
\* it was the oldest; its peer is leaving.
LossHasAReason ==
  [][\A p \in Procs, i \in Ids : \A k \in DOMAIN unread[p][i] :
       LET m == unread[p][i][k]
       IN m \notin ToSet(unread'[p][i]) =>
            \/ i \in Fronts /\ HomeOf[i] = p /\ reader[i] # <<>> /\ reader'[i] = <<>>
            \/ i \in Subs /\ m.body = "Command" /\ thread[i].at = "turn"
            \/ k = 1 /\ Len(unread[p][i]) = MaxUnread /\ Len(unread'[p][i]) = MaxUnread
            \/ Leaving(p, i)]_vars

\* The first message of a session of another process is not lost at its peer:
\* while the sender is unknown there, a file of it in any mailbox of the process
\* makes it a peer and puts a message of it into the queue of the front it is
\* addressed to, although nothing allows a peer of another process to write to
\* that front here, and although files cannot always be archived.
FirstContact ==
  \A p \in Procs : \A i \in {j \in Ids : HomeOf[j] # p} :
    LET boxes == {f \in Boxes : HomeOf[f] = p}
    IN /\ i \notin Registered(p)
       /\ \E f \in boxes : \E k \in DOMAIN mailbox[f] : mailbox[f][k].from = i
       ~> /\ i \in Registered(p)
          /\ \E f \in boxes : \E k \in DOMAIN unread[p][f] :
               unread[p][f][k].from = i /\ unread[p][f][k].to = f

-----------------------------------------------------------------------------
(* The inductive strengthenings.                                           *)

ThreadSet == [at : Places, msgs : Seq(Message), ids : Seq(Ids)]
PollerSet == [step : PollerSteps, batch : Seq(Message)]

TypeInv ==
  /\ status \in [Procs -> [Ids -> Statuses]]
  /\ unread \in [Procs -> [Ids -> Seq(Message)]]
  /\ \A p \in Procs, i \in Ids : Len(unread[p][i]) <= MaxUnread
  /\ watch \in [Procs -> SUBSET (Ids \X Ids)]
  /\ mailbox \in [Boxes -> Seq(Message)]
  /\ thread \in [Ids -> ThreadSet]
  /\ reader \in [Fronts -> Seq(Message)]
  /\ shown \in [Fronts -> Seq(Message)]
  /\ poller \in [Procs -> PollerSet]
  /\ sent \in 0..MaxMessages
  /\ runs \in 0..MaxRuns

\* With n messages sent, a thread sends what it has composed itself, a sub-agent
\* to everyone; it writes only to the mailboxes its message may go to, and removes
\* only sub-agents of its process.
Carries(i, t, n) ==
  /\ t.at \in {"dispatch", "write"} =>
       /\ t.msgs # <<>> /\ Head(t.msgs).from = i /\ Head(t.msgs).n <= n
       /\ i \in Subs => Head(t.msgs).to = All
  /\ t.at = "write" =>
       /\ t.ids # <<>> /\ IsAllowed(KindOf[i], "Ide")
       /\ \A k \in DOMAIN t.ids :
            t.ids[k] \in Boxes /\ (i \in Subs => HomeOf[t.ids[k]] # HomeOf[i])
  /\ t.at \in {"leave", "unqueue", "unwatch"} =>
       /\ t.ids # <<>>
       /\ \A k \in DOMAIN t.ids : t.ids[k] \in Subs /\ HomeOf[t.ids[k]] = HomeOf[i]

ThreadInv == \A i \in Ids : Carries(i, thread[i], sent)

\* A front is known at home for good, and only a sub-agent is ever done.
PeerInv ==
  /\ \A f \in Fronts : status[HomeOf[f]][f] # "Absent"
  /\ \A p \in Procs, i \in Ids : status[p][i] = "Done" => i \in Subs

\* What is in the mailbox of f was allowed there, and comes from another process
\* or from a session this one knows.
FileOk(f, m) ==
  /\ m.to = f
  /\ IsAllowed(KindOf[m.from], "Ide")
  /\ m.from \in Subs => HomeOf[m.from] # HomeOf[f]

FileInv ==
  /\ \A f \in Boxes : \A m \in ToSet(mailbox[f]) : FileOk(f, m)
  /\ \A p \in Procs : \A m \in ToSet(poller[p].batch) :
       \E f \in Boxes : HomeOf[f] = p /\ FileOk(f, m)

\* The sender a poller is about to register, or to deliver for.
Incoming(p) ==
  IF poller[p].step = "take" THEN {} ELSE {Head(poller[p].batch).from}

PollerInv ==
  \A p \in Procs :
    /\ poller[p].step # "take" => poller[p].batch # <<>>
    /\ \A i \in Incoming(p) :
         HomeOf[i] # p /\ (poller[p].step = "inject" => status[p][i] # "Absent")

\* Of NothingOutlivesItsPeer: what a thread has yet to do for the peer it removes,
\* step by step.
Removing(p, i, places) ==
  \E s \in Subs : HomeOf[s] = p /\ thread[s].at \in places /\ Head(thread[s].ids) = i

GoneInv ==
  \A p \in Procs, i \in Ids :
    status[p][i] = "Absent" =>
      /\ unread[p][i] = <<>> \/ Removing(p, i, {"unqueue"})
      /\ (\A e \in watch[p] : i \notin {e[1], e[2]}) \/ Removing(p, i, {"unqueue", "unwatch"})

\* Of InOrderOnce: what a front has been given, whether it was shown, read or is
\* waiting.  A message on its way is newer than all its front has of its sender;
\* of a sender in another process there is one at most, the one it was
\* registered for.
Ascending(q) ==
  \A k, l \in DOMAIN q : k < l /\ q[k].from = q[l].from => q[k].n < q[l].n

Got(f) == ToSet(shown[f]) \cup ToSet(reader[f]) \cup ToSet(unread[HomeOf[f]][f])

Older(f, m) ==
  IF HomeOf[m.from] = HomeOf[f]
  THEN /\ m.n <= sent
       /\ thread[m.from].at = "dispatch" => m.n < Head(thread[m.from].msgs).n
  ELSE status[HomeOf[f]][m.from] # "Absent" /\ m.from \notin Incoming(HomeOf[f])

OrderOk(f) ==
  /\ Ascending(shown[f] \o unread[HomeOf[f]][f])
  /\ Ascending(shown[f] \o reader[f])
  /\ \A m \in Got(f) : Older(f, m)

OrderInv == \A f \in Fronts : OrderOk(f)

BaseInv == TypeInv /\ ThreadInv /\ PeerInv /\ FileInv /\ PollerInv

BusInv == BaseInv /\ GoneInv /\ OrderInv
=============================================================================
