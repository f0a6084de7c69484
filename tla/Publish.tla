------------------------------- MODULE Publish -------------------------------
(***************************************************************************)
(* The writer's episodes on the public site (internal/publish): connecting *)
(* this device to an account (connect.go), registering the work, putting   *)
(* an episode there in its place (service.go), and the saved copy of what  *)
(* the site has, which is shown when it cannot be reached (state.go).      *)
(*                                                                         *)
(* There is one work.  An episode is its node; its text is a version       *)
(* number.  A token is named by the pairing that brought it.  The site is  *)
(* external: it keeps, for an account, the episodes in order, it takes an  *)
(* episode under a number that is free or the episode's own, and a new     *)
(* order that names each of its episodes once.  Pictures, titles,          *)
(* moderation and visibility are not told apart; a picture that fails to   *)
(* upload ends a publish as a lost Put does.                               *)
(***************************************************************************)
EXTENDS Integers, Sequences, SequencesExt

CONSTANTS
    Episodes, Accounts, Nobody,
    Calls,        \* the calls that may be under way at once
    Outlines,     \* the orders the outline may have at first
    Orders,       \* the orders the site may have at first
    MaxStarts,    \* bound: pairings
    MaxCalls,     \* bound: calls
    MaxSteps,     \* bound: pairings, calls and turns together
    MaxTurns      \* bound: edits, other devices' changes, lost requests, connecting and not

ASSUME NobodyIsNoOne == Nobody \notin Accounts \cup Episodes
ASSUME SomeAccounts  == Accounts # {}
ASSUME CountedCalls  == 0 \notin Calls
ASSUME SomePairings  == MaxStarts \in Nat \ {0}
\* A list names an episode once.
Lists == {s \in Seq(Episodes) : IsInjective(s)}
ASSUME EpisodesOnce ==
    /\ IsFiniteSet(Episodes)
    /\ Outlines \subseteq Lists /\ Orders \subseteq Lists

VARIABLES
    outline, text,  \* the work: its episodes in order, and the version of each
    marked,         \* the episodes marked published (node status)
    creds,          \* the token stored, or 0
    account,        \* the account stored, or Nobody
    pairing,        \* the pairings: pairAttempt, and what the site knows of it
    current,        \* Connector.current, or 0
    wanted,         \* history: connecting came after disconnecting
    dead,           \* tokens the writer revoked on the site
    site,           \* what each account has of the work
    saved,          \* publish_works and publish_episodes
    mu,             \* Service.mu: the call that holds it, or 0
    op,             \* the calls
    spent           \* counters for the bounds

work  == <<outline, text, marked>>
conn  == <<creds, account, pairing, current, wanted, dead>>
vars  == <<work, conn, site, saved, mu, op, spent>>

Pairings == 1..MaxStarts
Idle == [pc |-> "idle", what |-> "none", node |-> Nobody, token |-> 0, tries |-> 0,
         order |-> <<>>, text |-> 0, seen |-> <<>>, got |-> {}, others |-> 0, ended |-> "none"]

StepsLeft(n) == spent.starts + spent.calls + spent.turns + n <= MaxSteps
Turn   == spent.turns < MaxTurns /\ StepsLeft(1) /\ spent' = [spent EXCEPT !.turns = @ + 1]
NoTurn == UNCHANGED spent
Go(t, pc) == op' = [op EXCEPT ![t].pc = pc]

Init ==
    /\ outline \in Outlines /\ text = [e \in Episodes |-> 1] /\ marked = {}
    /\ pairing = [p \in Pairings |-> [pc |-> IF p = 1 THEN "done" ELSE "none",
                                      answer |-> IF p = 1 THEN CHOOSE a \in Accounts : TRUE ELSE Nobody,
                                      claimed |-> p = 1]]
    /\ creds = 1 /\ account = pairing[1].answer /\ current = 0 /\ wanted = TRUE /\ dead = {}
    /\ \E order \in Orders :
          site = [a \in Accounts |->
                    IF a = pairing[1].answer
                    THEN [on |-> order # <<>>, order |-> order, text |-> [e \in Episodes |-> 0]]
                    ELSE [on |-> FALSE, order |-> <<>>, text |-> [e \in Episodes |-> 0]]]
    /\ saved = [of |-> Nobody, rows |-> {}]
    /\ mu = 0 /\ op = [t \in Calls |-> Idle]
    /\ spent = [starts |-> 1, calls |-> 0, turns |-> 0, others |-> 0]

-----------------------------------------------------------------------------
(* Connecting. *)

Account(token) == pairing[token].answer

\* stopCurrent: the attempt's context is cancelled, and its wait only returns, but
\* for one that has its answer in hand already.
Stopped(p) == IF p # 0 /\ pairing[p].pc = "waiting"
              THEN [pairing EXCEPT ![p].pc = "done"] ELSE pairing

\* Start, up to its request; and when the answer is there.
StartBegin ==
    /\ spent.starts < MaxStarts /\ spent.turns < MaxTurns /\ StepsLeft(2)
    /\ spent' = [spent EXCEPT !.starts = @ + 1, !.turns = @ + 1]
    /\ pairing' = [Stopped(current) EXCEPT ![spent.starts + 1].pc = "starting"]
    /\ current' = 0
    /\ UNCHANGED <<work, creds, account, wanted, dead, site, saved, mu, op>>

StartEnd(p) ==
    /\ pairing[p].pc = "starting"
    /\ \/ /\ pairing' = [pairing EXCEPT ![p].pc = "waiting"]
          /\ current' = p /\ wanted' = TRUE
       \/ /\ pairing' = [pairing EXCEPT ![p].pc = "done"]
          /\ UNCHANGED <<current, wanted>>
    /\ UNCHANGED <<work, creds, account, dead, site, saved, mu, op, spent>>

\* The writer answers in the browser, as one account or another, or denies.
Answer(p) ==
    /\ pairing[p].pc = "waiting" /\ pairing[p].answer = Nobody
    /\ \E a \in Accounts \cup {"denied"} : pairing' = [pairing EXCEPT ![p].answer = a]
    /\ UNCHANGED <<work, creds, account, current, wanted, dead, site, saved, mu, op, spent>>

\* wait: a poll that is answered.  The token is handed out once, so a lost answer
\* makes the next poll find it claimed.
Poll(p) ==
    /\ pairing[p].pc = "waiting" /\ pairing[p].answer # Nobody
    /\ \/ pairing' = [pairing EXCEPT ![p].pc = "polled", ![p].claimed = TRUE] /\ NoTurn
       \/ ~pairing[p].claimed /\ pairing' = [pairing EXCEPT ![p].claimed = TRUE] /\ Turn
    /\ UNCHANGED <<work, creds, account, current, wanted, dead, site, saved, mu, op>>

\* finish: denied, claimed, expired, or the network is gone.
\* Mutant of Cleared: the attempt stays.
ClearedNot(p) == current
Cleared(p) == IF current = p THEN 0 ELSE current
Fail(p) ==
    /\ pairing[p].pc = "waiting" \/ (pairing[p].pc = "polled" /\ pairing[p].answer = "denied")
    /\ pairing' = [pairing EXCEPT ![p].pc = "done"] /\ current' = Cleared(p)
    /\ UNCHANGED <<work, creds, account, wanted, dead, site, saved, mu, op, spent>>

\* approve: the attempt must still be the one that is waited for.  Another account
\* than the one stored clears the saved copy (onSwitch).  A token that cannot be
\* stored, or whose account cannot be written behind it, ends the attempt.
\* Mutant of IsCurrent: no check.
IsAny(p)     == TRUE
IsCurrent(p) == current = p
Approve(p) ==
    /\ pairing[p].pc = "polled" /\ pairing[p].answer \in Accounts
    /\ pairing' = [pairing EXCEPT ![p].pc = "done"]
    /\ IF IsCurrent(p)
       THEN /\ current' = 0
            /\ \/ /\ creds' = p /\ account' = Account(p) /\ NoTurn
                  /\ saved' = IF account \notin {Nobody, Account(p)}
                              THEN [of |-> Nobody, rows |-> {}] ELSE saved
               \/ /\ creds' \in {creds, 0} /\ Turn                \* Save fails
                  /\ UNCHANGED <<account, saved>>
       ELSE UNCHANGED <<creds, account, current, saved, spent>>
    /\ UNCHANGED <<work, wanted, dead, site, mu, op>>

\* Disconnect: Cancel, and the credentials are cleared.
Disconnect ==
    /\ Turn
    /\ pairing' = Stopped(current) /\ current' = 0
    /\ creds' = 0 /\ account' = Nobody /\ wanted' = FALSE
    /\ UNCHANGED <<work, dead, site, saved, mu, op>>

\* The writer revokes a token on the site.
Revoke ==
    /\ Turn /\ creds # 0 /\ dead' = dead \cup {creds}
    /\ UNCHANGED <<work, creds, account, pairing, current, wanted, site, saved, mu, op>>

Connecting ==
    \/ StartBegin \/ Disconnect \/ Revoke
    \/ \E p \in Pairings : StartEnd(p) \/ Answer(p) \/ Poll(p) \/ Fail(p) \/ Approve(p)

-----------------------------------------------------------------------------
(* Where an episode belongs. *)

\* desiredOrder: the outline's order; an episode that is only on the site stays
\* after the one it followed there, or first.
Followed(current_, local, x) ==
    LET before == {i \in DOMAIN current_ : current_[i] \in ToSet(local)
                                           /\ i < CHOOSE j \in DOMAIN current_ : current_[j] = x}
    IN IF before = {} THEN Nobody ELSE current_[CHOOSE i \in before : \A j \in before : j <= i]
\* Those of a list that are in S, in its order.
Those(s, S) ==
    LET out[i \in 0..Len(s)] ==
            IF i = 0 THEN <<>> ELSE IF s[i] \in S THEN Append(out[i - 1], s[i]) ELSE out[i - 1]
    IN  out[Len(s)]
Trailing(current_, local, x) ==
    Those(current_, {y \in ToSet(current_) \ ToSet(local) : Followed(current_, local, y) = x})
\* Mutant of DesiredOrder: what is only on the site goes to the end.
LooseOrder(current_, local, target) ==
    Those(local, ToSet(current_) \cup {target}) \o Those(current_, ToSet(current_) \ ToSet(local))
DesiredOrder(current_, local, target) ==
    LET out[i \in 0..Len(local)] ==
            IF i = 0 THEN Trailing(current_, local, Nobody)
            ELSE IF local[i] \in ToSet(current_) \cup {target}
            THEN Append(out[i - 1], local[i]) \o Trailing(current_, local, local[i])
            ELSE out[i - 1]
    IN  out[Len(local)]

-----------------------------------------------------------------------------
(* The calls. *)

Acct(t) == Account(op[t].token)
Here(t) == site[Acct(t)]
RowsOf(w, a) == {[node |-> w.order[i], number |-> i, text |-> w.text[w.order[i]], of |-> a] :
                 i \in DOMAIN w.order}
Rows(a) == RowsOf(site[a], a)

Release(t) == mu' = IF mu = t THEN 0 ELSE mu
End(t, how) == op' = [op EXCEPT ![t] = [Idle EXCEPT !.ended = how]] /\ Release(t)

Free == mu = 0

Begin(t, what, e) ==
    /\ op[t].pc = "idle" /\ creds # 0 /\ account # Nobody
    /\ spent.calls < MaxCalls /\ StepsLeft(1) /\ spent' = [spent EXCEPT !.calls = @ + 1]
    /\ IF what = "status" THEN UNCHANGED mu ELSE Free /\ mu' = t
    /\ op' = [op EXCEPT ![t] = [Idle EXCEPT !.pc = IF what = "upsert" THEN "register" ELSE "read",
                                            !.what = what, !.node = e, !.token = creds, !.order = outline,
                                            !.text = IF e = Nobody THEN 0 ELSE text[e]]]
    /\ UNCHANGED <<work, conn, site, saved>>

BeginCall(t) ==
    \/ \E e \in ToSet(outline) : Begin(t, "publish", e)
    \/ Begin(t, "upsert", Nobody) \/ Begin(t, "status", Nobody)
    \/ \E e \in Episodes : Begin(t, "visibility", e)

\* Any request of a call may be lost on its way, or the token refused.  A refused
\* token is forgotten (siteError, Revoked).
Asking == {"register", "read", "put", "reorder", "refresh"}
Lost(t) ==
    /\ op[t].pc \in Asking \ {"refresh"} /\ Turn
    /\ End(t, "lost")
    /\ UNCHANGED <<work, conn, site, saved>>
Refused(t) ==
    /\ op[t].pc \in Asking \ {"refresh"} /\ op[t].token \in dead
    /\ creds' = 0 /\ account' = Nobody /\ End(t, "refused")
    /\ UNCHANGED <<work, pairing, current, wanted, dead, site, saved, spent>>
Let(t) == op[t].token \notin dead

Register(t) ==
    /\ op[t].pc = "register" /\ Let(t)
    /\ site' = [site EXCEPT ![Acct(t)].on = TRUE]
    /\ \/ Go(t, "keep") /\ NoTurn /\ UNCHANGED mu
       \/ End(t, "lost") /\ Turn                                \* its answer is lost
    /\ UNCHANGED <<work, conn, saved>>

\* GetWork.
Read(t) ==
    /\ op[t].pc = "read" /\ Let(t) /\ op[t].what # "visibility"
    /\ IF Here(t).on
       THEN op' = [op EXCEPT ![t] = [@ EXCEPT
                      !.seen = Here(t).order, !.got = Rows(Acct(t)), !.others = spent.others,
                      !.pc = IF op[t].what = "status" THEN "keep"
                             ELSE IF op[t].node \in ToSet(Here(t).order)
                                     /\ Here(t).order # DesiredOrder(Here(t).order, op[t].order, op[t].node)
                             THEN "reorder" ELSE "put"]] /\ UNCHANGED mu
       ELSE IF op[t].what = "status" THEN Go(t, "forget") /\ UNCHANGED mu ELSE End(t, "unregistered")
    /\ UNCHANGED <<work, conn, site, saved, spent>>

\* SetEpisodeVisibility: one request, and the row it answers.
Patch(t) ==
    /\ op[t].pc = "read" /\ Let(t) /\ op[t].what = "visibility"
    /\ LET mine == {r \in Rows(Acct(t)) : r.node = op[t].node} IN
       IF mine # {} THEN op' = [op EXCEPT ![t].pc = "keepRow", ![t].got = mine] /\ UNCHANGED mu
       ELSE End(t, "missing")
    /\ UNCHANGED <<work, conn, site, saved, spent>>

Desired(t) == DesiredOrder(op[t].seen, op[t].order, op[t].node)
IsNew(t)   == op[t].node \notin ToSet(op[t].seen)

\* A new episode goes at the end first; one that is there has its own number, the
\* order having been made right before.
Number(t)  == IF IsNew(t) THEN Len(op[t].seen) + 1
              ELSE CHOOSE i \in DOMAIN Desired(t) : Desired(t)[i] = op[t].node
TakenBy(t) == IF Number(t) \in DOMAIN Here(t).order THEN Here(t).order[Number(t)] ELSE Nobody

\* The site's answer is the episode's row.
Answered(t, pc) ==
    op' = [op EXCEPT ![t].pc = pc,
                     ![t].got = {r \in RowsOf(site'[Acct(t)], Acct(t)) : r.node = op[t].node}]

Put(t) ==
    /\ op[t].pc = "put" /\ Let(t)
    /\ IF TakenBy(t) \in {op[t].node, Nobody}
       THEN /\ site' = [site EXCEPT ![Acct(t)].order =
                              IF op[t].node \in ToSet(@) THEN @ ELSE Append(@, op[t].node),
                                    ![Acct(t)].text[op[t].node] = op[t].text]
            /\ \/ /\ Answered(t, IF IsNew(t) /\ Append(op[t].seen, op[t].node) # Desired(t)
                                 THEN "reorder" ELSE "refresh")
                  /\ NoTurn /\ UNCHANGED mu
               \/ End(t, "lost") /\ Turn
       ELSE /\ UNCHANGED site /\ NoTurn
            /\ IF op[t].tries = 0                              \* errNumberTaken: read again, once
               THEN op' = [op EXCEPT ![t].pc = "read", ![t].tries = 1] /\ UNCHANGED mu
               ELSE End(t, "taken")
    /\ UNCHANGED <<work, conn, saved>>

Reorder(t) ==
    /\ op[t].pc = "reorder" /\ Let(t)
    /\ IF ToSet(Desired(t)) = ToSet(Here(t).order) /\ IsInjective(Desired(t))
       THEN /\ site' = [site EXCEPT ![Acct(t)].order = Desired(t)]
            /\ \/ Answered(t, IF IsNew(t) THEN "refresh" ELSE "put") /\ NoTurn /\ UNCHANGED mu
               \/ End(t, "lost") /\ Turn
       ELSE End(t, "rejected") /\ UNCHANGED site /\ NoTurn
    /\ UNCHANGED <<work, conn, saved>>

\* The site took it: what it has now, or, when that cannot be read, the episode's row.
Refresh(t) ==
    /\ op[t].pc = "refresh"
    /\ \/ /\ Let(t) /\ NoTurn
          /\ op' = [op EXCEPT ![t].pc = "keep", ![t].got = Rows(Acct(t))]
       \/ /\ IF Let(t) THEN Turn ELSE NoTurn
          /\ Go(t, "keepRow")
    /\ UNCHANGED <<work, conn, site, saved, mu>>

\* Sync, PutWork or PutEpisode; and a publish marks the nodes of the episode.
\* Mutant of OtherRows: the row is added to the old one.
OtherRowsAll(t) == saved.rows
OtherRows(t) == {r \in saved.rows : r.node # op[t].node}
Keep(t) ==
    /\ op[t].pc \in {"keep", "keepRow"}
    /\ saved' = CASE op[t].pc = "keepRow" -> [saved EXCEPT !.rows = OtherRows(t) \cup op[t].got]
                  [] op[t].pc = "keep" /\ op[t].what = "upsert" -> [saved EXCEPT !.of = Acct(t)]
                  [] OTHER -> [of |-> Acct(t), rows |-> op[t].got]
    /\ marked' = IF op[t].what = "publish" THEN marked \cup {op[t].node} ELSE marked
    /\ End(t, "done")
    /\ UNCHANGED <<outline, text, conn, site, spent>>

Forget(t) ==
    /\ op[t].pc = "forget"
    /\ saved' = [of |-> Nobody, rows |-> {}]
    /\ End(t, "done")
    /\ UNCHANGED <<work, conn, site, spent>>

Call(t) ==
    \/ BeginCall(t) \/ Lost(t) \/ Refused(t) \/ Register(t) \/ Read(t) \/ Patch(t)
    \/ Put(t) \/ Reorder(t) \/ Refresh(t) \/ Keep(t) \/ Forget(t)

-----------------------------------------------------------------------------
(* The writer, and another device on the account. *)

Edit ==
    /\ Turn
    /\ \/ \E e \in ToSet(outline) : text[e] < 2 /\ text' = [text EXCEPT ![e] = 2] /\ UNCHANGED outline
       \/ \E i \in 1..Len(outline) - 1 :
             outline' = [outline EXCEPT ![i] = outline[i + 1], ![i + 1] = outline[i]] /\ UNCHANGED text
       \/ \E i \in DOMAIN outline : outline' = RemoveAt(outline, i) /\ UNCHANGED text
    /\ UNCHANGED <<marked, conn, site, saved, mu, op>>

Other ==
    /\ spent.turns < MaxTurns /\ StepsLeft(1)
    /\ spent' = [spent EXCEPT !.turns = @ + 1, !.others = @ + 1]
    /\ \E a \in Accounts :
          /\ site[a].on
          /\ \/ \E e \in Episodes \ ToSet(site[a].order) :
                   site' = [site EXCEPT ![a].order = Append(@, e)]
             \/ \E i \in 1..Len(site[a].order) - 1 :
                   site' = [site EXCEPT ![a].order[i] = site[a].order[i + 1],
                                        ![a].order[i + 1] = site[a].order[i]]
    /\ UNCHANGED <<work, conn, saved, mu, op>>

Next == Connecting \/ (\E t \in Calls : Call(t)) \/ Edit \/ Other

Spec == Init /\ [][Next]_vars

-----------------------------------------------------------------------------
(* Properties *)

\* Every variable has its type; an episode has one place on the site and one row in
\* the saved copy.
Row == [node : Episodes, number : 1..Cardinality(Episodes), text : 0..2, of : Accounts]
TypeOK ==
    /\ IsInjective(outline) /\ ToSet(outline) \subseteq Episodes
    /\ text \in [Episodes -> 1..2] /\ marked \subseteq Episodes
    /\ creds \in Pairings \cup {0} /\ account \in Accounts \cup {Nobody}
    /\ current \in Pairings \cup {0} /\ dead \subseteq Pairings
    /\ mu \in Calls \cup {0}
    /\ \A a \in Accounts : IsInjective(site[a].order) /\ site[a].text \in [Episodes -> 0..2]
    /\ saved.of \in Accounts \cup {Nobody} /\ saved.rows \subseteq Row
    /\ \A r, q \in saved.rows : r.node = q.node => r = q

\* A device that the writer has disconnected, or whose attempt was given up, does not
\* come to be connected by a poll that was on its way.
StaysDisconnected == ~wanted => creds = 0 /\ account = Nobody

\* Once an episode is on the site and nobody else has changed it, the episodes of
\* the work are in outline order, and one that is only on the site is where it was:
\* behind the episode it followed, or in front of all if it led.  The publishes of
\* this device wait for one another, so unless another device changes the numbering
\* a number is always free and an order always the site's.  Every variable has its
\* type on the way.
Index(s, x) == CHOOSE i \in DOMAIN s : s[i] = x
Before(s, x, y) == Index(s, x) < Index(s, y)
Placed(old, new, local, e) ==
    /\ ToSet(new) = ToSet(old) \cup {e}
    /\ \A x, y \in ToSet(new) :
          /\ x \in ToSet(local) /\ y \in ToSet(local) => (Before(new, x, y) <=> Before(local, x, y))
          /\ x \notin ToSet(local) /\ y \notin ToSet(local) /\ Followed(old, local, x) = Followed(old, local, y)
             => (Before(new, x, y) <=> Before(old, x, y))
    /\ \A x \in ToSet(old) \ ToSet(local) : Followed(new, local, x) = Followed(old, local, x)
NumbersFollow ==
    \A t \in Calls : op[t].pc = "refresh" /\ op[t].others = spent.others
                     => Placed(op[t].seen, Here(t).order, op[t].order, op[t].node)
OursDoNotRace == spent.others = 0 => \A t \in Calls : op[t].ended \notin {"taken", "rejected"}
Numbering == TypeOK /\ NumbersFollow /\ OursDoNotRace

\* The pane shows "waiting" only while something waits for that pairing, which ends
\* with its window; and whoever holds the lock is under way, so it is given back on
\* every way out of a call.
WaitedFor == /\ current # 0 => pairing[current].pc \in {"waiting", "polled"}
             /\ mu # 0 => op[mu].pc # "idle"

\* connect.go: "whatever the old account's works looked like is not shown as this
\* one's".
OldAccountNotShown == creds # 0 => saved.of \in {Nobody, Account(creds)}

\* service.go: "Nothing local changes unless the site accepted", and what a failed
\* publish says, tools_publish.go: "nothing was published".
FailedMeansNothing ==
    [][\A t \in Calls : op[t].what = "publish" /\ op'[t].ended = "lost" =>
          \A a \in Accounts : op[t].node \in ToSet(site'[a].order) => op[t].node \in ToSet(op[t].seen)]_vars

\* service.go: when another device has changed the numbering, "Read again, once".
OneChangeIsRead == spent.others <= 1 => \A t \in Calls : op[t].ended \notin {"taken", "rejected"}

\* connect.go, Revoked: what is forgotten is the token the site refused.
OnlyTheRefused == [][\A t \in Calls : Refused(t) => creds \in {0, op[t].token}]_vars
=============================================================================
