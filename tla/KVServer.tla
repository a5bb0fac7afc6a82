------------------------------ MODULE KVServer ------------------------------
(***************************************************************************)
(* One server: the Execute handlers of KVService, the waiters of KVApplier *)
(* and the Host whose mutex serializes ticks, inbound messages and         *)
(* proposals around the Raft core.  Handlers run concurrently with the     *)
(* batch the holder of Host.mu is applying: they may take an outcome from  *)
(* their channel, or expire and cancel, between two of its entries.        *)
(*                                                                         *)
(* The core is seen as its host sees it: a term, whether it leads, a log   *)
(* and a commit index.  What other nodes can make of them is limited only  *)
(* by what Raft guarantees (module Raft): the leader of a term is unique   *)
(* and alone creates that term's entries, and commits are kept.            *)
(***************************************************************************)
EXTENDS Integers, Sequences, FiniteSets

CONSTANTS
    Call,       \* the Execute calls that reach this server
    Other,      \* stands for any entry that no call of this server waits for
    Nil,        \* no call, no outcome, no leader known
    MaxTerm,    \* bound: the terms that are used
    MaxLog      \* bound: the length of the log

\* The outcomes sent to a waiter and the answers of Execute.
Kinds == {"result", "stale", "stopped", "unavailable", "expired", "notleader"}
Answer == [kind : Kinds, of : Call \cup {Other, Nil, "self", "peer"}]

ASSUME ServerAssumption ==
    /\ Other \notin Call /\ Nil \notin Call \cup {Other} /\ Nil \notin Answer
    /\ MaxTerm \in Nat /\ MaxLog \in Nat

VARIABLES
    solo,       \* the configuration: this node is the whole cluster, or one of several
    term, leading, log, commit,     \* the core
    own,        \* history: the entries this node created, with their index
    applied,    \* how many entries the state machine has applied
    mu,         \* who holds Host.mu while a batch is applied: Nil, Other or a call
    saved,      \* the batch of the holder is durable and sent
    stopped,    \* Host.stopped is set
    hint,       \* Host.leaderHint: Nil, "self" or "peer"
    waiters,    \* KVApplier.waiters, as a set of [index, term, call]
    byIndex,    \* KVApplier.byIndex, as a set of <<index, term>>
    ch,         \* ch[c]: the outcome in c's buffered channel, or Nil
    pc,         \* pc[c]: where c is in Execute
    key,        \* key[c]: the <<index, term>> that Propose returned to c
    reply       \* reply[c]: what c answers, or Nil

core == <<solo, term, leading, log, commit, own>>
applier == <<waiters, byIndex, ch>>
calls == <<pc, key, reply>>
host == <<mu, saved, stopped, hint>>
vars == <<core, applied, host, applier, calls>>

Entry == [term : 1..MaxTerm, call : Call \cup {Other}]

Init ==
    /\ solo \in BOOLEAN
    /\ term = 0 /\ leading = FALSE /\ log = << >> /\ commit = 0 /\ own = {}
    /\ applied = 0 /\ mu = Nil /\ saved = FALSE /\ stopped = FALSE /\ hint = Nil
    /\ waiters = {} /\ byIndex = {} /\ ch = [c \in Call |-> Nil]
    /\ pc = [c \in Call |-> "new"]
    /\ key = [c \in Call |-> <<0, 0>>]
    /\ reply = [c \in Call |-> Nil]

-----------------------------------------------------------------------------
\* KVApplier, each operation under its own mutex

Register(c, index, t) ==
    /\ waiters' = {w \in waiters : w.index # index \/ w.term # t}
                    \cup {[index |-> index, term |-> t, call |-> c]}
    /\ byIndex' = byIndex \cup {<<index, t>>}

\* mutant: the waiter goes, its term stays registered at the index
CancelWaiterOnly(c) ==
    /\ waiters' = {w \in waiters : <<w.index, w.term>> # key[c]}
    /\ UNCHANGED <<byIndex, ch>>
CancelWaiter(c) ==
    /\ waiters' = {w \in waiters : <<w.index, w.term>> # key[c]}
    /\ byIndex' = IF \E w \in waiters : <<w.index, w.term>> = key[c]
                  THEN byIndex \ {key[c]} ELSE byIndex
    /\ UNCHANGED ch

\* mutant: the channels have no buffer
CanSendUnbuffered(w) == ch[w.call] = Nil /\ pc[w.call] = "waiting"
\* A send to a full channel would block.
CanSend(w) == ch[w.call] = Nil

\* Hands out[w] to each waiter w in the domain of out.
Resolve(out) ==
    /\ \A w \in DOMAIN out : CanSend(w)
    /\ waiters' = waiters \ DOMAIN out
    /\ ch' = [c \in Call |-> IF \E w \in DOMAIN out : w.call = c
                             THEN out[CHOOSE w \in DOMAIN out : w.call = c] ELSE ch[c]]

\* mutant: a node that has lost the lead takes the proposal for lost
OutcomeOfLeader(w, t, of) ==
    IF w.term = t /\ leading THEN [kind |-> "result", of |-> of]
    ELSE [kind |-> "stale", of |-> Nil]
Outcome(w, t, of) ==
    IF w.term = t THEN [kind |-> "result", of |-> of] ELSE [kind |-> "stale", of |-> Nil]

\* mutant: whoever waits at the index gets the result
FulfillIndex(index, t, of) ==
    /\ Resolve([w \in {x \in waiters : x.index = index} |-> [kind |-> "result", of |-> of]])
    /\ byIndex' = {p \in byIndex : p[1] # index}
\* mutant: the index knows only the term registered last
FulfillNewest(index, t, of) ==
    LET newest == {w \in waiters : /\ w.index = index
                                   /\ \A p \in byIndex : p[1] = index => p[2] <= w.term}
    IN  /\ Resolve([w \in newest |-> Outcome(w, t, of)])
        /\ byIndex' = {p \in byIndex : p[1] # index}
\* Every waiter at the index is resolved: the one of the entry's term with its
\* result, the others as lost.
Fulfill(index, t, of) ==
    LET here == {w \in waiters : w.index = index /\ <<index, w.term>> \in byIndex}
    IN  /\ Resolve([w \in here |-> Outcome(w, t, of)])
        /\ byIndex' = {p \in byIndex : p[1] # index}

Stopped == [kind |-> "stopped", of |-> Nil]
\* mutant: only the call whose batch failed is told
DrainOwn ==
    LET mine == {w \in waiters : w.call = mu}
    IN  /\ Resolve([w \in mine |-> Stopped])
        /\ byIndex' = byIndex \ {<<w.index, w.term>> : w \in mine}
\* FailStop: every waiter is told that the host has stopped.
Drain ==
    /\ Resolve([w \in waiters |-> Stopped])
    /\ byIndex' = byIndex \ {<<w.index, w.term>> : w \in waiters}

-----------------------------------------------------------------------------
\* The core's events.  Each is the first part of a host's turn.

\* A leader creates an entry.
Create(t, c) ==
    /\ log' = Append(log, [term |-> t, call |-> c])
    /\ own' = own \cup {[index |-> Len(log) + 1, term |-> t, call |-> c]}
    /\ commit' = IF solo THEN Len(log) + 1 ELSE commit
    /\ UNCHANGED solo

\* The election is won, in a term nobody has used.
CoreElected ==
    /\ ~ leading /\ Len(log) < MaxLog
    /\ term < MaxTerm
    /\ term' = term + 1 /\ leading' = TRUE
    /\ Create(term + 1, Other)
    /\ UNCHANGED hint

\* A message of a later term deposes the leader, or an election is lost.
CoreDeposed ==
    /\ ~ solo /\ term < MaxTerm
    /\ term' = term + 1 /\ leading' = FALSE
    /\ UNCHANGED <<solo, log, commit, own, hint>>

\* mutant: one entry too far
CoreCommitsPast ==
    /\ leading
    /\ \E k \in (commit + 1)..(Len(log) + 1) : commit' = k
    /\ UNCHANGED <<solo, term, leading, log, own, hint>>
\* Acknowledgements let the leader commit through an entry of its term.
CoreCommits ==
    /\ leading
    /\ \E k \in (commit + 1)..Len(log) : log[k].term = term /\ commit' = k
    /\ UNCHANGED <<solo, term, leading, log, own, hint>>

\* The entry another leader may hold at index k: one of its own kind or, in a term
\* that this node led, the one this node created there.
Possible(k, t) ==
    IF \E o \in own : o.term = t
    THEN {[term |-> t, call |-> o.call] : o \in {x \in own : x.index = k /\ x.term = t}}
    ELSE {[term |-> t, call |-> Other]}

\* An AppendEntries of another leader, of this term or the next: it may add an entry,
\* in place of all from a conflicting one on, and may announce commits.
CoreAppends ==
    \E t \in {term, term + 1} :
        /\ ~ solo /\ t \in 1..MaxTerm /\ ~ \E o \in own : o.term = t
        /\ term' = t /\ leading' = FALSE /\ hint' = "peer"
        /\ \/ UNCHANGED log
           \/ \E k \in commit..Len(log), u \in 1..t :
                 \E e \in Possible(k + 1, u) :
                    /\ k < MaxLog
                    /\ k > 0 => log[k].term <= u
                    /\ k < Len(log) => log[k + 1].term # u
                    /\ log' = Append(SubSeq(log, 1, k), e)
        /\ commit' \in commit..Len(log')
        /\ UNCHANGED <<solo, own>>

\* An AppendEntries of an earlier term: rejected, but its sender is recorded.
CoreRejects ==
    /\ ~ solo /\ term > 1
    /\ hint' = "peer"
    /\ UNCHANGED core

-----------------------------------------------------------------------------
\* Host, under Host.mu

\* Whoever takes the mutex goes on to the batch.
Free == mu = Nil
Lock(who) == Free /\ mu' = who /\ saved' = FALSE
Processing == ~ Free /\ ~ stopped

\* A tick or an inbound message, unless the host has stopped.
Turn ==
    /\ ~ stopped
    /\ CoreElected \/ CoreDeposed \/ CoreCommits \/ CoreAppends \/ CoreRejects
    /\ Lock(Other)
    /\ UNCHANGED <<applied, stopped, applier, calls>>

\* Save succeeds and the messages are sent.
Save ==
    /\ Processing /\ ~ saved
    /\ saved' = TRUE
    /\ UNCHANGED <<core, applied, mu, stopped, hint, applier, calls>>

\* One committed entry is applied and its waiters are resolved.
ApplyEntry ==
    /\ Processing /\ saved /\ applied < commit
    /\ applied' = applied + 1
    /\ LET e == log[applied + 1] IN Fulfill(applied + 1, e.term, e.call)
    /\ UNCHANGED <<core, mu, saved, stopped, hint, calls>>

\* Execute returns err, of a stopped host or of its own batch.
Unavailable(c) ==
    /\ pc' = [pc EXCEPT ![c] = "done"]
    /\ reply' = [reply EXCEPT ![c] = [kind |-> "unavailable", of |-> Nil]]
    /\ UNCHANGED key

\* Save fails, or the state machine refuses an entry: the host stops for good.
Fail ==
    /\ Processing /\ (~ saved \/ applied < commit)
    /\ stopped' = TRUE
    /\ UNCHANGED <<core, applied, mu, saved, hint, applier, calls>>

\* All waiters are drained, and the proposal whose batch it was returns the error.
FailStop ==
    /\ ~ Free /\ stopped
    /\ mu' = Nil
    /\ Drain
    /\ IF mu \in Call THEN Unavailable(mu) ELSE UNCHANGED calls
    /\ UNCHANGED <<core, applied, saved, stopped, hint>>

\* The batch is done: Advance, unlock; a proposal goes on to its select.
Advance ==
    /\ Processing /\ saved /\ applied = commit
    /\ mu' = Nil
    /\ pc' = [c \in Call |-> IF c = mu THEN "waiting" ELSE pc[c]]
    /\ UNCHANGED <<core, applied, saved, stopped, hint, applier, key, reply>>

-----------------------------------------------------------------------------
\* Execute

\* Propose on a stopped host returns its error.
ProposeStopped(c) ==
    /\ pc[c] = "new" /\ Free /\ stopped
    /\ Unavailable(c)
    /\ UNCHANGED <<core, applied, host, applier>>

\* Propose on a node that does not lead; the batch is empty.
ProposeRefused(c) ==
    /\ pc[c] = "new" /\ Free /\ ~ stopped /\ ~ leading
    /\ pc' = [pc EXCEPT ![c] = "hint"]
    /\ UNCHANGED <<core, applied, host, applier, key, reply>>

\* Propose on the leader: append, note the leader, register, then the batch.
ProposeAccepted(c) ==
    LET index == Len(log) + 1
    IN  /\ pc[c] = "new" /\ ~ stopped /\ leading /\ Len(log) < MaxLog
        /\ Lock(c)
        /\ Create(term, c)
        /\ hint' = "self"
        /\ Register(c, index, term)
        /\ key' = [key EXCEPT ![c] = <<index, term>>]
        /\ pc' = [pc EXCEPT ![c] = "proposing"]
        /\ UNCHANGED <<term, leading, applied, stopped, ch, reply>>

\* The select takes the outcome.
Receive(c) ==
    /\ pc[c] = "waiting" /\ ch[c] # Nil
    /\ ch' = [ch EXCEPT ![c] = Nil]
    /\ reply' = [reply EXCEPT ![c] = ch[c]]
    /\ pc' = [pc EXCEPT ![c] = IF ch[c].kind = "stale" THEN "hint" ELSE "done"]
    /\ UNCHANGED <<core, applied, host, waiters, byIndex, key>>

\* The select takes ctx.Done, even when an outcome is there as well.
Expire(c) ==
    /\ pc[c] = "waiting"
    /\ pc' = [pc EXCEPT ![c] = "expired"]
    /\ UNCHANGED <<core, applied, host, applier, key, reply>>

Cancel(c) ==
    /\ pc[c] = "expired"
    /\ CancelWaiter(c)
    /\ pc' = [pc EXCEPT ![c] = "done"]
    /\ reply' = [reply EXCEPT ![c] = [kind |-> "expired", of |-> Nil]]
    /\ UNCHANGED <<core, applied, host, key>>

\* notLeaderResponse reads the hint under Host.mu.
NotLeader(c) ==
    /\ pc[c] = "hint" /\ Free
    /\ pc' = [pc EXCEPT ![c] = "done"]
    /\ reply' = [reply EXCEPT ![c] =
            IF reply[c] = Nil THEN [kind |-> "notleader", of |-> hint] ELSE [@ EXCEPT !.of = hint]]
    /\ UNCHANGED <<core, applied, host, applier, key>>

Execute(c) ==
    \/ ProposeStopped(c) \/ ProposeRefused(c) \/ ProposeAccepted(c)
    \/ Receive(c) \/ Expire(c) \/ Cancel(c) \/ NotLeader(c)

Next == Turn \/ Save \/ ApplyEntry \/ Fail \/ FailStop \/ Advance \/ \E c \in Call : Execute(c)

Spec == Init /\ [][Next]_vars

\* A goroutine that can go on does; a handler that wants Host.mu gets it some time,
\* as a sync.Mutex in starvation mode hands it over.  Nothing makes messages arrive,
\* calls come, contexts expire or saves fail.
Fairness ==
    /\ WF_vars(Save) /\ WF_vars(ApplyEntry) /\ WF_vars(FailStop) /\ WF_vars(Advance)
    /\ \A c \in Call : /\ WF_vars(Receive(c) \/ Cancel(c))
                       /\ SF_vars(NotLeader(c))
FairSpec == Spec /\ Fairness

-----------------------------------------------------------------------------
\* Properties

Waiter == [index : 1..MaxLog, term : 1..MaxTerm, call : Call]

\* Every piece of state has its type.
TypeOK ==
    /\ solo \in BOOLEAN /\ term \in 0..MaxTerm /\ leading \in BOOLEAN
    /\ log \in Seq(Entry) /\ Len(log) <= MaxLog /\ commit \in 0..Len(log) /\ applied \in 0..commit
    /\ own \subseteq [index : 1..MaxLog, term : 1..MaxTerm, call : Call \cup {Other}]
    /\ mu \in Call \cup {Nil, Other} /\ saved \in BOOLEAN /\ stopped \in BOOLEAN
    /\ hint \in {Nil, "self", "peer"}
    /\ waiters \subseteq Waiter /\ byIndex \subseteq (1..MaxLog) \X (1..MaxTerm)
    /\ ch \in [Call -> Answer \cup {Nil}]
    /\ pc \in [Call -> {"new", "proposing", "waiting", "expired", "hint", "done"}]
    /\ key \in [Call -> (0..MaxLog) \X (0..MaxTerm)]
    /\ reply \in [Call -> Answer \cup {Nil}]

\* A call that answers with a result answers with that of its own entry, which this
\* node has applied, however often leadership and the log changed under the waiter.
AnswersOwnEntry ==
    \A c \in Call : reply[c] # Nil /\ reply[c].kind = "result" =>
        /\ reply[c].of = c
        /\ key[c][1] <= applied /\ log[key[c][1]] = [term |-> key[c][2], call |-> c]

\* A call that is told its proposal was lost can trust it: the entry is not among
\* those applied, then or ever after, although it may have been in the log again.
StaleIsLost ==
    \A c \in Call : reply[c] # Nil /\ reply[c].kind = "stale" =>
        \A k \in 1..applied : log[k].call # c

\* No handler is left waiting for an outcome that cannot come: while its channel is
\* empty its waiter is registered under its key, the index is still to be applied
\* and the host runs, or has yet to drain the waiters.  register precedes the batch, fulfill finds every
\* term at an index, FailStop drains all and nobody registers after it.
NoneStranded ==
    \A c \in Call : pc[c] \in {"proposing", "waiting"} /\ ch[c] = Nil =>
        /\ [index |-> key[c][1], term |-> key[c][2], call |-> c] \in waiters
        /\ key[c] \in byIndex
        /\ key[c][1] > applied
        /\ stopped => ~ Free

\* The two maps of the applier describe the same waiters, and each of those belongs
\* to a handler that has not returned: an expired or failed call leaves nothing.
MapsAgree ==
    /\ byIndex = {<<w.index, w.term>> : w \in waiters}
    /\ \A v, w \in waiters : v.index = w.index /\ v.term = w.term => v = w
    /\ \A w \in waiters : pc[w.call] \in {"proposing", "waiting", "expired"}

\* Host.mu is always released: no send in fulfill or FailStop meets a full channel,
\* whatever calls expire meanwhile.
MutexReleased == mu # Nil ~> mu = Nil

\* A call whose index has been applied, or whose host has stopped, returns, without
\* the help of its context.
CallsReturn ==
    \A c \in Call :
        pc[c] = "waiting" /\ (stopped \/ key[c][1] <= applied) ~> pc[c] = "done"
=============================================================================
