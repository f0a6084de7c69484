--------------------------- MODULE AgentTurnsProofs ---------------------------
(***************************************************************************)
(* What AgentTurns promises for any number of turns, passes, works and     *)
(* sessions: a session is there while somebody calls tools on it and is    *)
(* closed when nobody is left (SessionsAreKept), one turn at a time writes *)
(* a work and none writes once Close has returned (TurnsKeep).             *)
(*                                                                         *)
(* What is missing from those for an induction is where each job stands.   *)
(* A job holds a session exactly in the phases of HoldPcs, is in the wait  *)
(* group from Enter to Leave, and can be cancelled from before it enters   *)
(* (Standing); a pass is started only by a caller that then waits for it   *)
(* to have its own reference (Following); and a session is retired once it *)
(* is neither the cached one nor the one Close took (Kept).                *)
(*                                                                         *)
(* And what CodexLogin promises of a sign-in, as the run of both checks it *)
(* (SignInIsKept): an attempt in flight is the newest there is, and who    *)
(* holds fileMu to write is of an attempt no sign-out has come after.      *)
(*                                                                         *)
(* Then the inbox of what agents suggest (Proposals, as MCProposals has    *)
(* it): it tells the truth (InboxHonest) and a start settles what was cut  *)
(* off (InboxSettlesAll), for any proposals, limits, stops and failed      *)
(* writes, one call at a time.                                             *)
(***************************************************************************)
EXTENDS MCAgent, MCProposals, FiniteSetTheorems, WellFoundedInduction, TLAPS

HoldPcs   == Busy \cup {"refused", "unwritten"}
InGroup   == {"entered", "unwritten", "chat", "tools", "wall", "replied", "freed", "reviewed",
              "admitted", "running"}
PassPcs   == {"idle", "tracked", "admitted", "running", "winding", "let", "left", "over"}
SamplePcs == {"idle", "checked", "connected", "winding", "over"}
TurnPcs   == Phases \ {"checked", "tracked", "admitted", "running"}
Behind    == {"winding", "let", "left", "over"}

\* Where a job may stand, and what that says of the wait group and the registry.
Standing(j) ==
    /\ pc[j] \in InGroup => j \in wg
    /\ j \in wg => pc[j] \in InGroup \cup {"winding", "let"}
    /\ j \in wg => pc[j] = "unwritten" \/ j \in cancels
    /\ pc[j] \in {"claimed", "tracked"} => j \in cancels
    /\ j \in Passes => pc[j] \in PassPcs
    /\ j \in Samples => pc[j] \in SamplePcs /\ j \notin wg
    /\ j \in Turns => pc[j] \in TurnPcs

\* A pass comes after its caller's work, and its caller waits while it starts.
Following(p) ==
    /\ pc[p] # "idle" => pc[p[1]] \in Behind \cup {"reviewed"}
    /\ pc[p] # "idle" /\ p[2] = "after" => pc[p[1]] \in Behind
    /\ pc[p] \in {"tracked", "admitted"} => pc[p[1]] \in {"reviewed", "winding"}

Made(c) == session[c].groups # None

\* Who has a session.
Holding(j) ==
    /\ holds[j] # None <=> pc[j] \in HoldPcs
    /\ holds[j] # None => Made(holds[j])
    /\ j \in Callers /\ pc[j] \in {"idle", "checked"} => ~Made(j)

\* A session counts its holders, and is closed when it is retired and has none.
Kept(c) ==
    /\ IsFiniteSet(Holders(c))
    /\ Made(c) =>
          /\ session[c].refs = Cardinality(Holders(c))
          /\ session[c].closed <=> session[c].retired /\ Holders(c) = {}
          /\ c # tools /\ c # closing.tools => session[c].retired
          /\ closing.at = "closed" => session[c].retired

\* The cached session, and the one Close took.
Cached ==
    /\ closed <=> closing.at # "open"
    /\ closed => tools = None
    /\ ~closed => closing.tools = None
    /\ tools # None => Made(tools) /\ ~session[tools].retired
    /\ closing.tools # None => Made(closing.tools)

Closing ==
    /\ closing.at = "closed" => wg = {}
    /\ closing.at \in {"waiting", "closed"} => \A j \in wg : j \in stopped \/ pc[j] = "unwritten"

Inv ==
    /\ TypeOK
    /\ \A j \in Jobs : Standing(j) /\ Holding(j)
    /\ \A p \in Passes : Following(p)
    /\ \A c \in Callers : Kept(c)
    /\ Cached /\ Closing /\ OneTurnAtAWork

-----------------------------------------------------------------------------
(* Jobs: callers and passes. *)

LEMMA PassIs ==
  ASSUME NEW p \in Passes
  PROVE  /\ p \in Jobs /\ p[1] \in Callers /\ p[2] \in {"self", "after"} /\ p = <<p[1], p[2]>>
         /\ p \notin Callers /\ p \notin Turns /\ p \notin Samples
  BY Sets DEF Passes, Jobs, Callers

LEMMA CallerIs ==
  ASSUME NEW c \in Callers
  PROVE  /\ c \in Jobs /\ c \notin Passes /\ c # None /\ WorkOf[c] \in Works /\ Budget[c] \in Budgets
         /\ Budget[c] # None /\ (c \in Turns \/ c \in Samples) /\ ~(c \in Turns /\ c \in Samples)
  BY Sets DEF Jobs, Callers

LEMMA LaunchingIs ==
  ASSUME NEW c \in Callers
  PROVE  Launching(c) <=> \E p \in Passes : p[1] = c /\ pc[p] \in {"tracked", "admitted"}
  <1>1. ASSUME NEW k \in {"self", "after"}
        PROVE  <<c, k>> \in Passes /\ <<c, k>>[1] = c
    BY DEF Passes
  <1> QED  BY <1>1, PassIs DEF Launching

\* Only j has moved.
Moves(j, to) == pc' \in [Jobs -> Phases] /\ pc'[j] = to /\ \A i \in Jobs \ {j} : pc'[i] = pc[i]

LEMMA JobMoves ==
  ASSUME TypeOK, NEW j \in Jobs, NEW to \in Phases, pc' = [pc EXCEPT ![j] = to]
  PROVE  Moves(j, to)
  BY DEF TypeOK, Moves

-----------------------------------------------------------------------------
(* Steps that change nothing but where a job stands. *)

Walk(j, from, to) ==
    /\ pc[j] = from /\ Moves(j, to)
    /\ \/ j \in Callers /\ from \in {"idle", "checked"} /\ to = "over"
       \/ j \in Samples /\ from = "idle" /\ to = "checked"
       \/ j \in Turns /\ from = "entered" /\ to = "chat"
       \/ j \in Turns /\ from \in {"chat", "tools", "wall"} /\ to \in {"chat", "tools", "wall", "replied", "winding"}
       \/ j \in Turns /\ from = "freed" /\ to = "reviewed"
       \/ j \in Turns /\ from = "reviewed" /\ to = "winding"
       \/ j \in Passes /\ from = "running" /\ to = "winding"
    /\ UNCHANGED <<closed, tools, session, registry, stopped, wg, holds, closing>>
    /\ calls' \in [Turns -> 0 .. MaxCalls]

LEMMA WalkKeeps ==
  ASSUME Inv, NEW j \in Jobs, NEW from, NEW to, Walk(j, from, to)
  PROVE  Inv'
  <1> USE DEF Walk
  <1>1. UNCHANGED <<closed, tools, session, byProject, cancels, stopped, wg, holds, closing>>  BY DEF registry
  <1>2. TypeOK'  BY <1>1 DEF Inv, TypeOK, Moves
  <1>3. j \in Passes => j \notin Callers /\ j \notin Turns /\ j \notin Samples  BY PassIs
  <1>4. j \in Callers => j \notin Passes /\ ~(j \in Turns /\ j \in Samples)  BY CallerIs
  <1>5. j \in Turns \/ j \in Samples => j \in Callers  BY DEF Callers
  <1>6. ASSUME NEW i \in Jobs PROVE Standing(i)'
    <2>1. Standing(i)  BY DEF Inv
    <2>2. CASE i # j  BY <1>1, <2>1, <2>2 DEF Standing, Moves
    <2>3. CASE i = j
      BY <1>1, <1>3, <1>4, <1>5, <2>1, <2>3 DEF Standing, Moves, InGroup, PassPcs, SamplePcs, TurnPcs, Phases
    <2> QED  BY <2>2, <2>3
  <1>7. ASSUME NEW i \in Jobs PROVE Holding(i)'
    <2>1. Holding(i)  BY DEF Inv
    <2>2. CASE i # j  BY <1>1, <2>1, <2>2 DEF Holding, Moves, Made
    <2>3. CASE i = j  BY <1>1, <2>1, <2>3 DEF Holding, Moves, Made, HoldPcs, Busy
    <2> QED  BY <2>2, <2>3
  <1>8. ASSUME NEW p \in Passes PROVE Following(p)'
    <2>1. Following(p)  BY DEF Inv
    <2>2. p \in Jobs /\ p[1] \in Jobs /\ p[1] \in Callers  BY PassIs, CallerIs
    <2>3. CASE p # j /\ p[1] # j  BY <2>1, <2>2, <2>3 DEF Following, Moves
    <2>4. CASE p = j
      <3>1. p[1] # j  BY <1>3, <2>2, <2>4
      <3> QED  BY <1>3, <1>5, <2>1, <2>2, <2>4, <3>1 DEF Following, Moves, Behind
    <2>5. CASE p[1] = j
      <3>1. p # j  BY <1>4, <2>2, <2>5
      <3> QED  BY <1>4, <2>1, <2>2, <2>5, <3>1 DEF Following, Moves, Behind
    <2> QED  BY <2>3, <2>4, <2>5
  <1>9. ASSUME NEW c \in Callers PROVE Kept(c)'
    BY <1>1 DEF Inv, Kept, Holders, Made
  <1>10. Cached' BY <1>1 DEF Inv, Cached, Made
  <1>11. Closing'
    <2>1. pc[j] # "unwritten"  OBVIOUS
    <2>2. Closing  BY DEF Inv
    <2>3. wg \subseteq Jobs  BY DEF Inv, TypeOK
    <2> QED  BY <1>1, <2>1, <2>2, <2>3 DEF Closing, Moves
  <1>12. OneTurnAtAWork'
    <2>1. Turns \subseteq Jobs  BY DEF Jobs, Callers
    <2> QED  BY <1>1, <1>3, <1>5, <2>1 DEF Inv, OneTurnAtAWork, Moves, Writing
  <1> HIDE DEF Walk
  <1> QED  BY <1>2, <1>6, <1>7, <1>8, <1>9, <1>10, <1>11, <1>12 DEF Inv

-----------------------------------------------------------------------------
(* The tool session: what acquiring, releasing and retiring do. *)

SessionRecord == [groups : Budgets \cup {None}, refs : Nat, retired : BOOLEAN, closed : BOOLEAN]

\* c's session becomes s, and the others stay.
SessionBecomes(c, s) ==
    session' \in [Callers -> SessionRecord] /\ session'[c] = s /\ \A d \in Callers \ {c} : session'[d] = session[d]

LEMMA SessionIs ==
  ASSUME TypeOK, NEW c \in Callers, NEW s \in SessionRecord, session' = [session EXCEPT ![c] = s]
  PROVE  SessionBecomes(c, s)
  BY DEF TypeOK, SessionBecomes, SessionRecord

LEMMA AcquiredIs ==
  ASSUME NEW s \in SessionRecord
  PROVE  /\ Acquired(s) \in SessionRecord /\ Acquired(s).groups = s.groups
         /\ Acquired(s).refs = s.refs + 1 /\ Acquired(s).retired = s.retired /\ Acquired(s).closed = s.closed
  BY DEF SessionRecord, Acquired

LEMMA ReleasedIs ==
  ASSUME NEW s \in SessionRecord, s.refs # 0
  PROVE  /\ Released(s) \in SessionRecord /\ Released(s).groups = s.groups
         /\ Released(s).refs = s.refs - 1 /\ Released(s).retired = s.retired
         /\ Released(s).closed = (s.closed \/ (s.retired /\ s.refs = 1))
  <1> DEFINE shut == s.closed \/ (s.retired /\ s.refs = 1)
  <1>1. Released(s) = [s EXCEPT !.refs = s.refs - 1, !.closed = shut]  BY DEF Released
  <1>2. shut \in BOOLEAN /\ s.refs - 1 \in Nat  BY DEF SessionRecord
  <1> HIDE DEF shut
  <1>3. /\ Released(s) \in SessionRecord /\ Released(s).groups = s.groups
        /\ Released(s).refs = s.refs - 1 /\ Released(s).retired = s.retired /\ Released(s).closed = shut
    BY <1>1, <1>2 DEF SessionRecord
  <1> QED  BY <1>3 DEF shut

LEMMA RetiredIs ==
  ASSUME NEW s \in SessionRecord
  PROVE  /\ Retired(s) \in SessionRecord /\ Retired(s).groups = s.groups
         /\ Retired(s).refs = s.refs /\ Retired(s).retired = TRUE
         /\ Retired(s).closed = (s.closed \/ s.refs = 0)
  BY DEF SessionRecord, Retired

LEMMA UnmadeIs ==
  ASSUME NEW g \in Budgets
  PROVE  LET s == [Unmade EXCEPT !.groups = g] IN
         s \in SessionRecord /\ s.groups = g /\ s.refs = 0 /\ s.retired = FALSE /\ s.closed = FALSE
  BY DEF SessionRecord, Unmade

\* Where j stands with respect to sessions, and what the others hold.
Takes(j, c) == holds' \in [Jobs -> Callers \cup {None}] /\ holds'[j] = c /\ \A i \in Jobs \ {j} : holds'[i] = holds[i]

LEMMA JobTakes ==
  ASSUME TypeOK, NEW j \in Jobs, NEW c \in Callers \cup {None}, holds' = [holds EXCEPT ![j] = c]
  PROVE  Takes(j, c)
  BY DEF TypeOK, Takes

\* A job that held nothing takes c: c has one holder more.
LEMMA HoldersGrow ==
  ASSUME NEW j \in Jobs, NEW c \in Callers, holds[j] = None, Takes(j, c), IsFiniteSet(Holders(c))
  PROVE  /\ IsFiniteSet(Holders(c)') /\ Cardinality(Holders(c)') = Cardinality(Holders(c)) + 1
         /\ Holders(c)' # {}
         /\ \A d \in Callers \ {c} : Holders(d)' = Holders(d)
  <1>1. c # None /\ \A d \in Callers : d # None  BY CallerIs
  <1>2. Holders(c)' = Holders(c) \cup {j} /\ j \notin Holders(c)  BY <1>1 DEF Holders, Takes
  <1>3. \A d \in Callers \ {c} : Holders(d)' = Holders(d)  BY <1>1 DEF Holders, Takes
  <1> QED  BY <1>2, <1>3, FS_AddElement

\* A job that held c lets it go.
LEMMA HoldersShrink ==
  ASSUME NEW j \in Jobs, NEW c \in Callers, holds[j] = c, Takes(j, None), IsFiniteSet(Holders(c))
  PROVE  /\ IsFiniteSet(Holders(c)') /\ Cardinality(Holders(c)') = Cardinality(Holders(c)) - 1
         /\ Cardinality(Holders(c)) \in Nat \ {0}
         /\ Holders(c)' = {} <=> Cardinality(Holders(c)) = 1
         /\ \A d \in Callers \ {c} : Holders(d)' = Holders(d)
  <1>1. c # None /\ \A d \in Callers : d # None  BY CallerIs
  <1>2. Holders(c)' = Holders(c) \ {j} /\ j \in Holders(c)  BY <1>1 DEF Holders, Takes
  <1>3. \A d \in Callers \ {c} : Holders(d)' = Holders(d)  BY <1>1 DEF Holders, Takes
  <1>4. IsFiniteSet(Holders(c) \ {j}) /\ Cardinality(Holders(c) \ {j}) = Cardinality(Holders(c)) - 1
    BY <1>2, FS_RemoveElement
  <1>5. Cardinality(Holders(c)) \in Nat /\ Cardinality(Holders(c)) # 0
    BY <1>2, FS_CardinalityType, FS_EmptySet
  <1>6. Holders(c)' = {} <=> Cardinality(Holders(c)') = 0  BY <1>2, <1>4, FS_EmptySet
  <1> QED  BY <1>2, <1>3, <1>4, <1>5, <1>6

LEMMA NobodyHolds ==
  ASSUME Inv, NEW c \in Callers, ~Made(c)
  PROVE  Holders(c) = {}
  BY CallerIs DEF Inv, Holders, Holding

\* A job that holds c, and lets it go.
LEMMA LetsGoDoes ==
  ASSUME Inv, NEW j \in Jobs, holds[j] # None, LetsGo(j), UNCHANGED <<tools, closing>>
  PROVE  /\ session' \in [Callers -> SessionRecord] /\ Takes(j, None)
         /\ \A d \in Callers : session'[d].groups = session[d].groups /\ session'[d].retired = session[d].retired
         /\ \A d \in Callers : Kept(d)'
  <1>0. PICK c \in Callers : c = holds[j]  BY DEF Inv, TypeOK
  <1>1. c \in Callers /\ Made(c)  BY <1>0 DEF Inv, Holding
  <1>2. Takes(j, None)  BY JobTakes DEF LetsGo, Inv
  <1>3. Kept(c)  BY <1>1 DEF Inv
  <1>4. session[c] \in SessionRecord  BY <1>1 DEF Inv, TypeOK, SessionRecord
  <1>5. /\ IsFiniteSet(Holders(c)') /\ Cardinality(Holders(c)') = Cardinality(Holders(c)) - 1
        /\ Cardinality(Holders(c)) \in Nat \ {0}
        /\ Holders(c)' = {} <=> Cardinality(Holders(c)) = 1
        /\ \A d \in Callers \ {c} : Holders(d)' = Holders(d)
    <2>1. holds[j] = c  BY <1>0
    <2>2. IsFiniteSet(Holders(c))  BY <1>3 DEF Kept
    <2> QED  BY <1>1, <1>2, <2>1, <2>2, HoldersShrink
  <1>6. session[c].refs = Cardinality(Holders(c))  BY <1>1, <1>3 DEF Kept
  <1>7. SessionBecomes(c, Released(session[c]))
    BY <1>0, <1>1, <1>4, <1>5, <1>6, ReleasedIs, SessionIs DEF LetsGo, Inv
  <1> DEFINE s == Released(session[c])
  <1>8. /\ s.groups = session[c].groups /\ s.refs = session[c].refs - 1 /\ s.retired = session[c].retired
        /\ s.closed = (session[c].closed \/ (session[c].retired /\ session[c].refs = 1))
    BY <1>4, <1>5, <1>6, ReleasedIs
  <1>9. session'[c] = s  BY <1>7 DEF SessionBecomes
  <1> HIDE DEF s
  <1>10. Kept(c)'
    <2>1. session'[c].refs = Cardinality(Holders(c)')  BY <1>5, <1>6, <1>8, <1>9
    <2>2. session[c].closed <=> session[c].retired /\ Holders(c) = {}  BY <1>1, <1>3 DEF Kept
    <2>3. Holders(c) # {}  BY <1>5, FS_EmptySet
    <2>4. session'[c].closed <=> session'[c].retired /\ Holders(c)' = {}
      BY <1>5, <1>6, <1>8, <1>9, <2>2, <2>3
    <2>5. /\ c # tools /\ c # closing.tools => session'[c].retired
          /\ closing.at = "closed" => session'[c].retired
      BY <1>1, <1>3, <1>8, <1>9 DEF Kept
    <2>6. IsFiniteSet(Holders(c)') /\ UNCHANGED <<tools, closing>>  BY <1>5
    <2> QED  BY <2>1, <2>4, <2>5, <2>6 DEF Kept
  <1>11. ASSUME NEW d \in Callers \ {c} PROVE Kept(d)'
    <2>1. session'[d] = session[d] /\ Holders(d)' = Holders(d)  BY <1>5, <1>7 DEF SessionBecomes
    <2> QED  BY <2>1 DEF Inv, Kept, Made
  <1>12. \A d \in Callers : session'[d].groups = session[d].groups /\ session'[d].retired = session[d].retired
    BY <1>7, <1>8, <1>9 DEF SessionBecomes
  <1>13. \A d \in Callers : Kept(d)'  BY <1>10, <1>11
  <1> QED  BY <1>2, <1>7, <1>12, <1>13 DEF SessionBecomes

\* A job that holds nothing takes a session that is not closed.
LEMMA AcquireDoes ==
  ASSUME Inv, NEW j \in Jobs, holds[j] = None, NEW c \in Callers, Made(c), ~session[c].closed,
         session' = [session EXCEPT ![c] = Acquired(@)], holds' = [holds EXCEPT ![j] = c],
         UNCHANGED <<tools, closing>>
  PROVE  /\ session' \in [Callers -> SessionRecord] /\ Takes(j, c)
         /\ \A d \in Callers : session'[d].groups = session[d].groups /\ session'[d].retired = session[d].retired
         /\ \A d \in Callers : Kept(d)'
  <1>1. Takes(j, c)  BY JobTakes DEF Inv
  <1>2. Kept(c)  BY DEF Inv
  <1>3. session[c] \in SessionRecord  BY DEF Inv, TypeOK, SessionRecord
  <1>4. /\ IsFiniteSet(Holders(c)') /\ Cardinality(Holders(c)') = Cardinality(Holders(c)) + 1
        /\ Holders(c)' # {} /\ \A d \in Callers \ {c} : Holders(d)' = Holders(d)
    BY <1>1, <1>2, HoldersGrow DEF Kept
  <1> DEFINE s == Acquired(session[c])
  <1>5. /\ s \in SessionRecord /\ s.groups = session[c].groups /\ s.refs = session[c].refs + 1
        /\ s.retired = session[c].retired /\ s.closed = session[c].closed
    BY <1>3, AcquiredIs
  <1>6. session' = [session EXCEPT ![c] = s]  OBVIOUS
  <1> HIDE DEF s
  <1>7. SessionBecomes(c, s)  BY <1>5, <1>6, SessionIs DEF Inv
  <1>8. session'[c] = s  BY <1>7 DEF SessionBecomes
  <1>9. Kept(c)'
    <2>1. session'[c].refs = Cardinality(Holders(c)')  BY <1>2, <1>4, <1>5, <1>8 DEF Kept
    <2>2. session'[c].closed <=> session'[c].retired /\ Holders(c)' = {}  BY <1>4, <1>5, <1>8
    <2>3. /\ c # tools /\ c # closing.tools => session'[c].retired
          /\ closing.at = "closed" => session'[c].retired
      BY <1>2, <1>5, <1>8 DEF Kept
    <2> QED  BY <1>4, <2>1, <2>2, <2>3 DEF Kept
  <1>10. ASSUME NEW d \in Callers \ {c} PROVE Kept(d)'
    <2>1. session'[d] = session[d] /\ Holders(d)' = Holders(d)  BY <1>4, <1>7 DEF SessionBecomes
    <2> QED  BY <2>1 DEF Inv, Kept, Made
  <1>11. \A d \in Callers : session'[d].groups = session[d].groups /\ session'[d].retired = session[d].retired
    BY <1>5, <1>7, <1>8 DEF SessionBecomes
  <1> QED  BY <1>1, <1>7, <1>9, <1>10, <1>11 DEF SessionBecomes

\* A session that was made is retired, whoever holds it.
LEMMA RetireDoes ==
  ASSUME Inv, NEW c \in Callers, Made(c), session' = [session EXCEPT ![c] = Retired(@)], UNCHANGED holds
  PROVE  /\ session' \in [Callers -> SessionRecord] /\ \A d \in Callers \ {c} : session'[d] = session[d]
         /\ session'[c].groups = session[c].groups /\ session'[c].retired = TRUE
         /\ session'[c].refs = Cardinality(Holders(c)')
         /\ session'[c].closed <=> Holders(c)' = {}
         /\ \A d \in Callers : Holders(d)' = Holders(d)
  <1>1. session[c] \in SessionRecord  BY DEF Inv, TypeOK, SessionRecord
  <1> DEFINE s == Retired(session[c])
  <1>2. /\ s \in SessionRecord /\ s.groups = session[c].groups /\ s.refs = session[c].refs /\ s.retired = TRUE
        /\ s.closed = (session[c].closed \/ session[c].refs = 0)
    BY <1>1, RetiredIs
  <1>3. session' = [session EXCEPT ![c] = s]  OBVIOUS
  <1> HIDE DEF s
  <1>4. SessionBecomes(c, s)  BY <1>2, <1>3, SessionIs DEF Inv
  <1>5. \A d \in Callers : Holders(d)' = Holders(d)  BY DEF Holders
  <1>6. /\ session[c].refs = Cardinality(Holders(c)) /\ IsFiniteSet(Holders(c))
        /\ session[c].closed <=> session[c].retired /\ Holders(c) = {}
    BY DEF Inv, Kept
  <1>7. session[c].refs = 0 <=> Holders(c) = {}  BY <1>6, FS_EmptySet
  <1>8. session'[c].closed <=> Holders(c)' = {}  BY <1>2, <1>4, <1>5, <1>6, <1>7 DEF SessionBecomes
  <1> QED  BY <1>2, <1>4, <1>5, <1>6, <1>8 DEF SessionBecomes

-----------------------------------------------------------------------------
(* A step of one job disturbs what the invariant says of that job only. *)

LEMMA StandingKeeps ==
  ASSUME Inv, NEW j \in Jobs, NEW to, Moves(j, to), Standing(j)',
         \A i \in Jobs \ {j} : (i \in wg' <=> i \in wg) /\ (i \in cancels => i \in cancels')
  PROVE  \A i \in Jobs : Standing(i)'
  <1> SUFFICES ASSUME NEW i \in Jobs, i # j PROVE Standing(i)'  OBVIOUS
  <1>1. Standing(i)  BY DEF Inv
  <1> QED  BY <1>1 DEF Standing, Moves

LEMMA HoldingKeeps ==
  ASSUME Inv, NEW j \in Jobs, NEW to, Moves(j, to), Holding(j)',
         \A i \in Jobs \ {j} : holds'[i] = holds[i],
         \A c \in Callers : Made(c) => Made(c)',
         \A c \in Callers \ {j} : Made(c)' => Made(c)
  PROVE  \A i \in Jobs : Holding(i)'
  <1> SUFFICES ASSUME NEW i \in Jobs, i # j PROVE Holding(i)'  OBVIOUS
  <1>1. Holding(i) /\ holds[i] \in Callers \cup {None}  BY DEF Inv, TypeOK
  <1>2. holds[i] # None => Made(holds[i])'  BY <1>1 DEF Holding
  <1>3. holds'[i] # None => Made(holds[i])' /\ holds'[i] = holds[i]  BY <1>2
  <1>4. holds'[i] # None => Made(holds[i])'  BY <1>3
  <1>5. holds'[i] # None => session'[holds'[i]].groups # None  BY <1>3 DEF Made
  <1> QED  BY <1>1, <1>5 DEF Holding, Moves, Made

LEMMA FollowingKeeps ==
  ASSUME Inv, NEW j \in Jobs, NEW to, Moves(j, to),
         \A p \in Passes : p = j \/ p[1] = j => Following(p)'
  PROVE  \A p \in Passes : Following(p)'
  <1> SUFFICES ASSUME NEW p \in Passes, p # j, p[1] # j PROVE Following(p)'  OBVIOUS
  <1>1. Following(p)  BY DEF Inv
  <1>2. p[1] \in Jobs /\ p \in Jobs  BY PassIs, CallerIs
  <1> QED  BY <1>1, <1>2 DEF Following, Moves

\* Nothing follows a caller that has not come to its passes.
LEMMA NothingFollows ==
  ASSUME Inv, NEW c \in Callers, pc[c] \notin Behind \cup {"reviewed"}, NEW to, Moves(c, to)
  PROVE  \A p \in Passes : p = c \/ p[1] = c => Following(p)'
  <1> SUFFICES ASSUME NEW p \in Passes, p[1] = c PROVE Following(p)'  BY PassIs
  <1>1. Following(p) /\ p # c /\ p \in Jobs  BY PassIs DEF Inv
  <1>2. pc'[p] = pc[p] /\ pc[p] = "idle"  BY <1>1 DEF Following, Moves
  <1> QED  BY <1>2 DEF Following

\* What follows a caller may go on as long as the caller stays behind its work.
LEMMA StaysBehind ==
  ASSUME Inv, NEW c \in Callers, NEW to \in Behind, Moves(c, to), ~Launching(c) \/ to = "winding"
  PROVE  \A p \in Passes : p = c \/ p[1] = c => Following(p)'
  <1> SUFFICES ASSUME NEW p \in Passes, p[1] = c PROVE Following(p)'  BY PassIs
  <1>1. p # c /\ p \in Jobs  BY PassIs
  <1>2. pc'[p] = pc[p] /\ pc'[c] = to  BY <1>1 DEF Moves
  <1>3. ~Launching(c) => pc[p] \notin {"tracked", "admitted"}  BY LaunchingIs
  <1> QED  BY <1>2, <1>3 DEF Following

\* A pass that is not idle goes on.
LEMMA PassGoesOn ==
  ASSUME Inv, NEW p \in Passes, pc[p] # "idle", NEW to, Moves(p, to),
         to \in {"tracked", "admitted"} => pc[p] \in {"tracked", "admitted"}
  PROVE  \A q \in Passes : q = p \/ q[1] = p => Following(q)'
  <1> SUFFICES ASSUME NEW q \in Passes, q = p PROVE Following(q)'  BY PassIs
  <1>1. Following(p)  BY DEF Inv
  <1>2. p[1] \in Jobs /\ p[1] # p  BY PassIs, CallerIs
  <1>3. pc'[p[1]] = pc[p[1]] /\ pc'[p] = to  BY <1>2 DEF Moves
  <1> QED  BY <1>1, <1>3 DEF Following

LEMMA OneTurnKeeps ==
  ASSUME Inv, NEW j \in Jobs, NEW to, Moves(j, to), j \in Turns /\ to \in Writing => byProject'[WorkOf[j]] = j,
         \A w \in Works : byProject[w] # j => byProject'[w] = byProject[w] \/ (byProject[w] = None /\ j \in Turns /\ to \in Writing)
  PROVE  OneTurnAtAWork'
  <1> SUFFICES ASSUME NEW t \in Turns, pc'[t] \in Writing PROVE byProject'[WorkOf[t]] = t
    BY DEF OneTurnAtAWork
  <1>1. t \in Jobs /\ t \in Callers /\ WorkOf[t] \in Works /\ t # None  BY CallerIs DEF Callers
  <1>2. CASE t = j  BY <1>1, <1>2 DEF Moves
  <1>3. CASE t # j
    <2>1. byProject[WorkOf[t]] = t  BY <1>1, <1>3 DEF Inv, OneTurnAtAWork, Moves
    <2> QED  BY <1>1, <1>3, <2>1
  <1> QED  BY <1>2, <1>3

LEMMA ClosingKeeps ==
  ASSUME Inv, NEW j \in Jobs, NEW to, Moves(j, to), wg' \subseteq wg, UNCHANGED <<closing, stopped>>,
         j \in wg' => pc[j] # "unwritten"
  PROVE  Closing'
  <1>1. Closing /\ wg \subseteq Jobs  BY DEF Inv, TypeOK
  <1> QED  BY <1>1 DEF Closing, Moves

LEMMA OpenKeeps ==
  ASSUME Inv, ~closed, UNCHANGED closing
  PROVE  Closing'
  BY DEF Inv, Cached, Closing

\* A step of the registry or of the wait group leaves the sessions alone.
LEMMA NoSession ==
  ASSUME Inv, NEW j \in Jobs, NEW to, Moves(j, to), to \notin {"idle", "checked"},
         pc[j] \in HoldPcs <=> to \in HoldPcs,
         UNCHANGED <<closed, tools, session, stopped, holds, calls, closing>>,
         byProject' \in [Works -> Turns \cup {None}], cancels' \subseteq Jobs, wg' \subseteq Jobs
  PROVE  TypeOK' /\ (\A i \in Jobs : Holding(i)') /\ (\A c \in Callers : Kept(c)') /\ Cached'
  <1>1. TypeOK'  BY DEF Inv, TypeOK, Moves
  <1>2. Holding(j)'  BY DEF Inv, Holding, Moves, Made
  <1>3. \A c \in Callers : Made(c)' <=> Made(c)  BY DEF Made
  <1>4. \A i \in Jobs : Holding(i)'  BY <1>2, <1>3, HoldingKeeps
  <1>5. \A c \in Callers : Kept(c)'  BY DEF Inv, Kept, Holders, Made
  <1>6. Cached'  BY DEF Inv, Cached, Made
  <1> QED  BY <1>1, <1>4, <1>5, <1>6

LEMMA TurnIs ==
  ASSUME NEW t \in Turns
  PROVE  t \in Jobs /\ t \in Callers /\ t \notin Passes /\ t \notin Samples /\ t # None /\ WorkOf[t] \in Works
  BY CallerIs DEF Callers

LEMMA StartKeeps ==
  ASSUME Inv, NEW t \in Turns, Start(t)
  PROVE  Inv'
  <1> USE DEF Start
  <1>0. t \in Jobs /\ t \in Callers /\ t \notin Passes /\ t \notin Samples /\ WorkOf[t] \in Works  BY TurnIs
  <1>1. Moves(t, "claimed") /\ pc[t] = "connected"  BY <1>0, JobMoves DEF Goes, Inv, Phases
  <1>2. UNCHANGED <<closed, tools, session, stopped, wg, holds, calls, closing>>  OBVIOUS
  <1>3. byProject' \in [Works -> Turns \cup {None}] /\ byProject'[WorkOf[t]] = t
        /\ \A w \in Works : w # WorkOf[t] => byProject'[w] = byProject[w]
    BY <1>0 DEF Inv, TypeOK
  <1>4. cancels' = cancels \cup {t} /\ cancels' \subseteq Jobs /\ wg' \subseteq Jobs  BY <1>0 DEF Inv, TypeOK
  <1>5. TypeOK' /\ (\A i \in Jobs : Holding(i)') /\ (\A c \in Callers : Kept(c)') /\ Cached'
    BY <1>0, <1>1, <1>2, <1>3, <1>4, NoSession DEF HoldPcs, Busy
  <1>6. Standing(t)'
    <2>1. Standing(t)  BY <1>0 DEF Inv
    <2> QED  BY <1>0, <1>1, <1>2, <1>4, <2>1 DEF Standing, Moves, InGroup, TurnPcs, Phases
  <1>7. \A i \in Jobs : Standing(i)'  BY <1>0, <1>1, <1>2, <1>4, <1>6, StandingKeeps
  <1>8. \A p \in Passes : Following(p)'
    BY <1>0, <1>1, NothingFollows, FollowingKeeps DEF Behind
  <1>9. Closing'  BY <1>0, <1>1, <1>2, ClosingKeeps
  <1>10. OneTurnAtAWork'  BY <1>0, <1>1, <1>3, OneTurnKeeps DEF Writing
  <1> QED  BY <1>5, <1>7, <1>8, <1>9, <1>10 DEF Inv

LEMMA EnterKeeps ==
  ASSUME Inv, NEW t \in Turns, Enter(t)
  PROVE  Inv'
  <1> USE DEF Enter
  <1>0. t \in Jobs /\ t \in Callers /\ t \notin Passes /\ t \notin Samples /\ WorkOf[t] \in Works  BY TurnIs
  <1>1. Moves(t, "entered") /\ pc[t] = "claimed"  BY <1>0, JobMoves DEF Goes, Inv, Phases
  <1>2. ~closed /\ UNCHANGED <<closed, tools, session, byProject, cancels, stopped, holds, calls, closing>>
    BY DEF registry
  <1>3. wg' = wg \cup {t} /\ wg' \subseteq Jobs  BY <1>0 DEF Inv, TypeOK
  <1>4. byProject' \in [Works -> Turns \cup {None}] /\ cancels' \subseteq Jobs  BY <1>2 DEF Inv, TypeOK
  <1>5. TypeOK' /\ (\A i \in Jobs : Holding(i)') /\ (\A c \in Callers : Kept(c)') /\ Cached'
    BY <1>0, <1>1, <1>2, <1>3, <1>4, NoSession DEF HoldPcs, Busy
  <1>6. Standing(t)'
    <2>1. Standing(t)  BY <1>0 DEF Inv
    <2> QED  BY <1>0, <1>1, <1>2, <1>3, <2>1 DEF Standing, Moves, InGroup, TurnPcs, Phases
  <1>7. \A i \in Jobs : Standing(i)'  BY <1>0, <1>1, <1>2, <1>3, <1>6, StandingKeeps
  <1>8. \A p \in Passes : Following(p)'
    BY <1>0, <1>1, NothingFollows, FollowingKeeps DEF Behind
  <1>9. Closing'  BY <1>2, OpenKeeps
  <1>10. OneTurnAtAWork'
    <2>1. byProject[WorkOf[t]] = t  BY <1>0, <1>1 DEF Inv, OneTurnAtAWork, Writing
    <2> QED  BY <1>0, <1>1, <1>2, <2>1, OneTurnKeeps DEF Writing
  <1> QED  BY <1>5, <1>7, <1>8, <1>9, <1>10 DEF Inv

LEMMA UnclaimedIs ==
  ASSUME Inv, NEW t \in Turns
  PROVE  /\ Unclaimed(t) \in [Works -> Turns \cup {None}]
         /\ \A w \in Works : byProject[w] # t => Unclaimed(t)[w] = byProject[w]
  BY DEF Inv, TypeOK, Unclaimed

\* A turn gives its work up: refused, before its first row, with its reply, or torn down.
LEMMA FinishKeeps ==
  ASSUME Inv, NEW t \in Turns, TurnedAway(t) \/ Unwritten(t) \/ Release(t) \/ Over(t)
  PROVE  Inv'
  <1> USE DEF TurnedAway, Unwritten, Release, Over, Finish
  <1>0. t \in Jobs /\ t \in Callers /\ t \notin Passes /\ t \notin Samples /\ WorkOf[t] \in Works  BY TurnIs
  <1>1. PICK from, to : /\ Goes(t, from, to)
                        /\ <<from, to>> \in {<<"claimed", "refused">>, <<"entered", "unwritten">>,
                                            <<"replied", "freed">>, <<"left", "over">>}
    OBVIOUS
  <1>2. Moves(t, to) /\ pc[t] = from  BY <1>0, <1>1, JobMoves DEF Goes, Inv, Phases
  <1>3. UNCHANGED <<closed, tools, session, stopped, wg, holds, calls, closing>>  OBVIOUS
  <1>4. byProject' = Unclaimed(t)  OBVIOUS
  <1>5. cancels' = cancels \/ (cancels' = cancels \ {t} /\ from # "replied")
    <2>1. CASE Release(t)  BY <2>1
    <2>2. CASE ~Release(t)
      <3>1. cancels' = cancels \ {t} /\ pc[t] # "replied"  BY <2>2 DEF Goes
      <3>2. pc[t] = from  BY <1>1 DEF Goes
      <3> QED  BY <3>1, <3>2
    <2> QED  BY <2>1, <2>2
  <1>6. cancels' \subseteq Jobs /\ wg' \subseteq Jobs  BY <1>3, <1>5 DEF Inv, TypeOK
  <1>7. /\ byProject' \in [Works -> Turns \cup {None}]
        /\ \A w \in Works : byProject[w] # t => byProject'[w] = byProject[w]
    BY <1>4, UnclaimedIs
  <1> HIDE DEF TurnedAway, Unwritten, Release, Over, Finish
  <1>8. TypeOK' /\ (\A i \in Jobs : Holding(i)') /\ (\A c \in Callers : Kept(c)') /\ Cached'
    BY <1>0, <1>1, <1>2, <1>3, <1>6, <1>7, NoSession DEF HoldPcs, Busy
  <1>9. Standing(t)'
    <2>1. Standing(t)  BY <1>0 DEF Inv
    <2> QED  BY <1>0, <1>1, <1>2, <1>3, <1>5, <2>1 DEF Standing, Moves, InGroup, TurnPcs, Phases
  <1>10. \A i \in Jobs : Standing(i)'  BY <1>0, <1>2, <1>3, <1>5, <1>9, StandingKeeps
  <1>11. \A p \in Passes : Following(p)'
    <2>1. CASE to = "over"
      <3>1. ~Launching(t)
        <4>1. \A p \in Passes : Following(p)  BY DEF Inv
        <4> QED  BY <1>0, <1>1, <1>2, <2>1, <4>1, LaunchingIs DEF Following
      <3> QED  BY <1>0, <1>2, <2>1, <3>1, StaysBehind, FollowingKeeps DEF Behind
    <2>2. CASE to # "over"  BY <1>0, <1>1, <1>2, <2>2, NothingFollows, FollowingKeeps DEF Behind
    <2> QED  BY <2>1, <2>2
  <1>12. Closing'  BY <1>0, <1>1, <1>2, <1>3, ClosingKeeps
  <1>13. OneTurnAtAWork'  BY <1>0, <1>1, <1>2, <1>7, OneTurnKeeps DEF Writing
  <1> QED  BY <1>8, <1>10, <1>11, <1>12, <1>13 DEF Inv

\* Nobody waits to start behind a caller that has left its passes behind.
LEMMA LaunchedEarly ==
  ASSUME Inv, NEW c \in Callers, pc[c] \notin {"reviewed", "winding"}
  PROVE  ~Launching(c)
  BY LaunchingIs DEF Inv, Following

-----------------------------------------------------------------------------
(* References given back, and taken. *)

\* What a job's letting go of its session says of the sessions.
LEMMA GivesBack ==
  ASSUME Inv, NEW j \in Jobs, NEW to, Moves(j, to), pc[j] \in HoldPcs,
         to \notin HoldPcs \cup {"idle", "checked"}, LetsGo(j),
         UNCHANGED <<closed, tools, byProject, cancels, stopped, wg, calls, closing>>
  PROVE  TypeOK' /\ (\A i \in Jobs : Holding(i)') /\ (\A c \in Callers : Kept(c)') /\ Cached'
  <1>1. holds[j] # None  BY DEF Inv, Holding
  <1>2. /\ session' \in [Callers -> SessionRecord] /\ Takes(j, None)
        /\ \A d \in Callers : session'[d].groups = session[d].groups /\ session'[d].retired = session[d].retired
        /\ \A d \in Callers : Kept(d)'
    BY <1>1, LetsGoDoes
  <1>3. TypeOK'  BY <1>2 DEF Inv, TypeOK, Takes, Moves, SessionRecord
  <1>4. \A c \in Callers : Made(c)' <=> Made(c)  BY <1>2 DEF Made
  <1>5. Holding(j)'  BY <1>2 DEF Holding, Takes, Moves
  <1>6. \A i \in Jobs : Holding(i)'  BY <1>2, <1>4, <1>5, HoldingKeeps DEF Takes
  <1>7. Cached'
    <2>1. Cached /\ tools \in Callers \cup {None} /\ closing.tools \in Callers \cup {None}  BY DEF Inv, TypeOK
    <2> QED  BY <1>2, <2>1 DEF Cached, Made
  <1> QED  BY <1>2, <1>3, <1>6, <1>7

\* What a job's taking a session that is there says of the sessions.
LEMMA TakesOne ==
  ASSUME Inv, NEW j \in Jobs, NEW to, Moves(j, to), pc[j] \notin HoldPcs, to \in HoldPcs,
         NEW c \in Callers, Made(c), ~session[c].closed,
         session' = [session EXCEPT ![c] = Acquired(@)], holds' = [holds EXCEPT ![j] = c],
         UNCHANGED <<closed, tools, byProject, cancels, stopped, wg, calls, closing>>
  PROVE  TypeOK' /\ (\A i \in Jobs : Holding(i)') /\ (\A d \in Callers : Kept(d)') /\ Cached'
  <1>1. holds[j] = None  BY DEF Inv, Holding
  <1>2. /\ session' \in [Callers -> SessionRecord] /\ Takes(j, c)
        /\ \A d \in Callers : session'[d].groups = session[d].groups /\ session'[d].retired = session[d].retired
        /\ \A d \in Callers : Kept(d)'
    BY <1>1, AcquireDoes
  <1>3. TypeOK'  BY <1>2 DEF Inv, TypeOK, Takes, Moves, SessionRecord
  <1>4. \A d \in Callers : Made(d)' <=> Made(d)  BY <1>2 DEF Made
  <1>5. Holding(j)'
    <2>1. holds'[j] = c /\ c # None /\ Made(c)'  BY <1>2, <1>4, CallerIs DEF Takes
    <2>2. session'[c].groups # None  BY <2>1 DEF Made
    <2>3. pc'[j] = to /\ to \notin {"idle", "checked"}  BY DEF Moves, HoldPcs, Busy
    <2> QED  BY <2>1, <2>2, <2>3 DEF Holding, Made
  <1>6. \A i \in Jobs : Holding(i)'  BY <1>2, <1>4, <1>5, HoldingKeeps DEF Takes
  <1>7. Cached'
    <2>1. Cached /\ tools \in Callers \cup {None} /\ closing.tools \in Callers \cup {None}  BY DEF Inv, TypeOK
    <2> QED  BY <1>2, <2>1 DEF Cached, Made
  <1> QED  BY <1>2, <1>3, <1>6, <1>7

\* The registry and the wait group as they are: what is left to show of a step.
LEMMA NoRegistry ==
  ASSUME Inv, NEW j \in Jobs, NEW to, Moves(j, to), to \notin Writing,
         UNCHANGED <<byProject, cancels, stopped, wg, closing>>,
         Standing(j)', pc[j] # "unwritten",
         \A p \in Passes : p = j \/ p[1] = j => Following(p)'
  PROVE  /\ \A i \in Jobs : Standing(i)'
         /\ \A p \in Passes : Following(p)'
         /\ Closing' /\ OneTurnAtAWork'
  <1>1. \A i \in Jobs : Standing(i)'  BY StandingKeeps
  <1>2. \A p \in Passes : Following(p)'  BY FollowingKeeps
  <1>3. Closing'  BY ClosingKeeps
  <1>4. OneTurnAtAWork'  BY OneTurnKeeps
  <1> QED  BY <1>1, <1>2, <1>3, <1>4

LEMMA NotStartedKeeps ==
  ASSUME Inv, NEW c \in Callers, NotStarted(c)
  PROVE  Inv'
  <1> USE DEF NotStarted
  <1>0. c \in Jobs /\ c \notin Passes /\ ~(c \in Turns /\ c \in Samples)  BY CallerIs
  <1>1. Moves(c, "over") /\ pc[c] = "connected" /\ LetsGo(c)  BY <1>0, JobMoves DEF Goes, Inv, Phases
  <1>2. UNCHANGED <<closed, tools, byProject, cancels, stopped, wg, calls, closing>>  BY DEF registry
  <1>3. TypeOK' /\ (\A i \in Jobs : Holding(i)') /\ (\A d \in Callers : Kept(d)') /\ Cached'
    BY <1>0, <1>1, <1>2, GivesBack DEF HoldPcs, Busy
  <1>4. Standing(c)'
    <2>1. Standing(c)  BY <1>0 DEF Inv
    <2> QED  BY <1>0, <1>1, <1>2, <2>1 DEF Standing, Moves, InGroup, TurnPcs, SamplePcs, Phases
  <1>5. \A p \in Passes : p = c \/ p[1] = c => Following(p)'  BY <1>1, NothingFollows DEF Behind
  <1> QED  BY <1>0, <1>1, <1>2, <1>3, <1>4, <1>5, NoRegistry DEF Inv, Writing

LEMMA GivesUpKeeps ==
  ASSUME Inv, NEW t \in Turns, GivesUp(t)
  PROVE  Inv'
  <1> USE DEF GivesUp
  <1>0. t \in Jobs /\ t \in Callers /\ t \notin Passes /\ t \notin Samples /\ WorkOf[t] \in Works  BY TurnIs
  <1>1. Standing(t)  BY <1>0 DEF Inv
  <1>2. CASE pc[t] = "refused"
    <2>1. Moves(t, "over") /\ LetsGo(t)  BY <1>0, <1>2, JobMoves DEF Goes, Inv, Phases
    <2>2. UNCHANGED <<closed, tools, byProject, cancels, stopped, wg, calls, closing>>
      BY <1>2 DEF registry, Goes
    <2>3. TypeOK' /\ (\A i \in Jobs : Holding(i)') /\ (\A d \in Callers : Kept(d)') /\ Cached'
      BY <1>0, <1>2, <2>1, <2>2, GivesBack DEF HoldPcs, Busy
    <2>4. Standing(t)'
      BY <1>0, <1>1, <1>2, <2>1, <2>2 DEF Standing, Moves, InGroup, TurnPcs, Phases
    <2>5. \A p \in Passes : p = t \/ p[1] = t => Following(p)'
      BY <1>0, <1>2, <2>1, NothingFollows DEF Behind
    <2> QED  BY <1>0, <1>2, <2>1, <2>2, <2>3, <2>4, <2>5, NoRegistry DEF Inv, Writing
  <1>3. CASE pc[t] # "refused"
    <2>1. pc[t] = "unwritten" /\ Moves(t, "refused")  BY <1>0, <1>3, JobMoves DEF Goes, Inv, Phases
    <2>2. /\ UNCHANGED <<closed, tools, session, byProject, cancels, stopped, holds, calls, closing>>
          /\ wg' = wg \ {t}
      BY <1>3 DEF registry, Goes
    <2>3. byProject' \in [Works -> Turns \cup {None}] /\ cancels' \subseteq Jobs /\ wg' \subseteq Jobs
      BY <2>2 DEF Inv, TypeOK
    <2>4. TypeOK' /\ (\A i \in Jobs : Holding(i)') /\ (\A c \in Callers : Kept(c)') /\ Cached'
      BY <1>0, <2>1, <2>2, <2>3, NoSession DEF HoldPcs, Busy
    <2>5. Standing(t)'
      BY <1>0, <1>1, <2>1, <2>2 DEF Standing, Moves, InGroup, TurnPcs, Phases
    <2>6. \A i \in Jobs : Standing(i)'  BY <1>0, <2>1, <2>2, <2>5, StandingKeeps
    <2>7. \A p \in Passes : Following(p)'  BY <1>0, <2>1, NothingFollows, FollowingKeeps DEF Behind
    <2>8. Closing'  BY <1>0, <2>1, <2>2, ClosingKeeps
    <2>9. OneTurnAtAWork'  BY <1>0, <2>1, <2>2, OneTurnKeeps DEF Writing
    <2> QED  BY <2>4, <2>6, <2>7, <2>8, <2>9 DEF Inv
  <1> QED  BY <1>2, <1>3

LEMMA ReleaseSessionKeeps ==
  ASSUME Inv, NEW j \in Jobs, ReleaseSession(j)
  PROVE  Inv'
  <1> USE DEF ReleaseSession
  <1>0. PICK to \in {"over", "let"} : to = IF j \in Samples THEN "over" ELSE "let"  OBVIOUS
  <1>1. Moves(j, to) /\ pc[j] = "winding" /\ LetsGo(j)  BY <1>0, JobMoves DEF Goes, Inv, Phases
  <1>2. UNCHANGED <<closed, tools, byProject, cancels, stopped, wg, calls, closing>>  BY DEF registry
  <1>3. TypeOK' /\ (\A i \in Jobs : Holding(i)') /\ (\A d \in Callers : Kept(d)') /\ Cached'
    BY <1>0, <1>1, <1>2, GivesBack DEF HoldPcs, Busy
  <1>4. j \in Samples => j \in Callers /\ j \notin Passes /\ j \notin Turns  BY CallerIs DEF Callers
  <1>5. Standing(j)'
    <2>1. Standing(j)  BY DEF Inv
    <2> QED  BY <1>0, <1>1, <1>2, <1>4, <2>1 DEF Standing, Moves, InGroup, TurnPcs, SamplePcs, PassPcs, Phases
  <1>6. \A p \in Passes : p = j \/ p[1] = j => Following(p)'
    <2>1. CASE j \in Callers
      <3>1. ~Launching(j)  BY <2>1
      <3> QED  BY <1>0, <1>1, <2>1, <3>1, StaysBehind DEF Behind
    <2>2. CASE j \in Passes  BY <1>0, <1>1, <2>2, PassGoesOn
    <2> QED  BY <2>1, <2>2 DEF Jobs
  <1> QED  BY <1>0, <1>1, <1>2, <1>3, <1>5, <1>6, NoRegistry DEF Inv, Writing

LEMMA ReuseKeeps ==
  ASSUME Inv, NEW c \in Callers, Reuse(c)
  PROVE  Inv'
  <1> USE DEF Reuse
  <1>0. c \in Jobs /\ c \notin Passes /\ ~(c \in Turns /\ c \in Samples)  BY CallerIs
  <1>1. Moves(c, "connected") /\ pc[c] \in {"idle", "checked"}
    BY <1>0, JobMoves DEF Goes, Inv, Phases, Asks
  <1>2. PICK s \in Callers : s = tools  BY DEF Inv, TypeOK
  <1>3. Made(s) /\ ~session[s].closed
    <2>1. Made(s) /\ ~session[s].retired  BY <1>2 DEF Inv, Cached
    <2> QED  BY <2>1 DEF Inv, Kept
  <1>4. /\ session' = [session EXCEPT ![s] = Acquired(@)] /\ holds' = [holds EXCEPT ![c] = s]
        /\ UNCHANGED <<closed, tools, byProject, cancels, stopped, wg, calls, closing>>
    BY <1>2 DEF registry
  <1>5. TypeOK' /\ (\A i \in Jobs : Holding(i)') /\ (\A d \in Callers : Kept(d)') /\ Cached'
    BY <1>0, <1>1, <1>3, <1>4, TakesOne DEF HoldPcs, Busy
  <1>6. Standing(c)'
    <2>1. Standing(c)  BY <1>0 DEF Inv
    <2> QED  BY <1>0, <1>1, <1>4, <2>1 DEF Standing, Moves, InGroup, TurnPcs, SamplePcs, Phases
  <1>7. \A p \in Passes : p = c \/ p[1] = c => Following(p)'  BY <1>1, NothingFollows DEF Behind
  <1> QED  BY <1>0, <1>1, <1>4, <1>5, <1>6, <1>7, NoRegistry DEF Inv, Writing

LEMMA LaunchKeeps ==
  ASSUME Inv, NEW p \in Passes, Launch(p)
  PROVE  Inv'
  <1> USE DEF Launch
  <1>0. /\ p \in Jobs /\ p[1] \in Callers /\ p[1] \in Jobs /\ p \notin Callers
        /\ p \notin Turns /\ p \notin Samples
    BY PassIs, CallerIs
  <1>1. Moves(p, "running") /\ pc[p] = "admitted"  BY <1>0, JobMoves DEF Goes, Inv, Phases
  <1>2. pc[p[1]] \in {"reviewed", "winding"}  BY <1>1 DEF Inv, Following
  <1>3. PICK s \in Callers : s = holds[p[1]] /\ Made(s)
    BY <1>0, <1>2 DEF Inv, TypeOK, Holding, HoldPcs, Busy
  <1>4. ~session[s].closed
    <2>1. p[1] \in Holders(s)  BY <1>0, <1>3 DEF Holders
    <2> QED  BY <1>3, <2>1 DEF Inv, Kept
  <1>5. /\ session' = [session EXCEPT ![s] = Acquired(@)] /\ holds' = [holds EXCEPT ![p] = s]
        /\ UNCHANGED <<closed, tools, byProject, cancels, stopped, wg, calls, closing>>
    BY <1>3 DEF registry
  <1>6. TypeOK' /\ (\A i \in Jobs : Holding(i)') /\ (\A d \in Callers : Kept(d)') /\ Cached'
    BY <1>0, <1>1, <1>3, <1>4, <1>5, TakesOne DEF HoldPcs, Busy
  <1>7. Standing(p)'
    <2>1. Standing(p)  BY <1>0 DEF Inv
    <2> QED  BY <1>0, <1>1, <1>5, <2>1 DEF Standing, Moves, InGroup, PassPcs, Phases
  <1>8. \A q \in Passes : q = p \/ q[1] = p => Following(q)'  BY <1>1, PassGoesOn
  <1> QED  BY <1>0, <1>1, <1>5, <1>6, <1>7, <1>8, NoRegistry DEF Inv, Writing

-----------------------------------------------------------------------------
(* The wait group and the registry, as passes come and everybody leaves. *)

LEMMA LeaveKeeps ==
  ASSUME Inv, NEW j \in Jobs, Leave(j)
  PROVE  Inv'
  <1> USE DEF Leave
  <1>1. Moves(j, "left") /\ pc[j] = "let"  BY JobMoves DEF Goes, Inv, Phases
  <1>2. /\ UNCHANGED <<closed, tools, session, byProject, cancels, stopped, holds, calls, closing>>
        /\ wg' = wg \ {j}
    BY DEF registry
  <1>3. byProject' \in [Works -> Turns \cup {None}] /\ cancels' \subseteq Jobs /\ wg' \subseteq Jobs
    BY <1>2 DEF Inv, TypeOK
  <1>4. TypeOK' /\ (\A i \in Jobs : Holding(i)') /\ (\A c \in Callers : Kept(c)') /\ Cached'
    BY <1>1, <1>2, <1>3, NoSession DEF HoldPcs, Busy
  <1>5. Standing(j)'
    <2>1. Standing(j)  BY DEF Inv
    <2> QED  BY <1>1, <1>2, <2>1 DEF Standing, Moves, InGroup, TurnPcs, SamplePcs, PassPcs, Phases
  <1>6. \A i \in Jobs : Standing(i)'  BY <1>1, <1>2, <1>5, StandingKeeps
  <1>7. \A p \in Passes : p = j \/ p[1] = j => Following(p)'
    <2>1. CASE j \in Callers  BY <1>1, <2>1, LaunchedEarly, StaysBehind DEF Behind
    <2>2. CASE j \in Passes  BY <1>1, <2>2, PassGoesOn
    <2> QED  BY <2>1, <2>2 DEF Jobs
  <1>8. \A p \in Passes : Following(p)'  BY <1>1, <1>7, FollowingKeeps
  <1>9. Closing'  BY <1>1, <1>2, ClosingKeeps
  <1>10. OneTurnAtAWork'  BY <1>1, <1>2, OneTurnKeeps DEF Writing
  <1> QED  BY <1>4, <1>6, <1>8, <1>9, <1>10 DEF Inv

\* A pass is over; the end of a turn is FinishKeeps.
LEMMA PassOverKeeps ==
  ASSUME Inv, NEW j \in Jobs, j \notin Turns, Over(j)
  PROVE  Inv'
  <1> USE DEF Over
  <1>1. Moves(j, "over") /\ pc[j] = "left"  BY JobMoves DEF Goes, Inv, Phases
  <1>2. /\ UNCHANGED <<closed, tools, session, byProject, stopped, wg, holds, calls, closing>>
        /\ cancels' = cancels \ {j}
    OBVIOUS
  <1>3. byProject' \in [Works -> Turns \cup {None}] /\ cancels' \subseteq Jobs /\ wg' \subseteq Jobs
    BY <1>2 DEF Inv, TypeOK
  <1>4. TypeOK' /\ (\A i \in Jobs : Holding(i)') /\ (\A c \in Callers : Kept(c)') /\ Cached'
    BY <1>1, <1>2, <1>3, NoSession DEF HoldPcs, Busy
  <1>5. Standing(j)'
    <2>1. Standing(j)  BY DEF Inv
    <2> QED  BY <1>1, <1>2, <2>1 DEF Standing, Moves, InGroup, TurnPcs, SamplePcs, PassPcs, Phases
  <1>6. \A i \in Jobs : Standing(i)'  BY <1>1, <1>2, <1>5, StandingKeeps
  <1>7. \A p \in Passes : p = j \/ p[1] = j => Following(p)'
    <2>1. CASE j \in Callers  BY <1>1, <2>1, LaunchedEarly, StaysBehind DEF Behind
    <2>2. CASE j \in Passes  BY <1>1, <2>2, PassGoesOn
    <2> QED  BY <2>1, <2>2 DEF Jobs
  <1>8. \A p \in Passes : Following(p)'  BY <1>1, <1>7, FollowingKeeps
  <1>9. Closing'  BY <1>1, <1>2, ClosingKeeps
  <1>10. OneTurnAtAWork'  BY <1>1, <1>2, OneTurnKeeps DEF Writing
  <1> QED  BY <1>4, <1>6, <1>8, <1>9, <1>10 DEF Inv

LEMMA AdmitKeeps ==
  ASSUME Inv, NEW p \in Passes, Admit(p)
  PROVE  Inv'
  <1> USE DEF Admit
  <1>0. p \in Jobs /\ p \notin Callers /\ p \notin Turns /\ p \notin Samples  BY PassIs
  <1>1. PICK to \in {"over", "admitted"} : to = IF closed THEN "over" ELSE "admitted"  OBVIOUS
  <1>2. Moves(p, to) /\ pc[p] = "tracked"  BY <1>0, <1>1, JobMoves DEF Goes, Inv, Phases
  <1>3. UNCHANGED <<closed, tools, session, byProject, stopped, holds, calls, closing>>  OBVIOUS
  <1>4. \/ closed /\ to = "over" /\ cancels' = cancels \ {p} /\ wg' = wg
        \/ ~closed /\ to = "admitted" /\ cancels' = cancels /\ wg' = wg \cup {p}
    BY <1>1
  <1>5. byProject' \in [Works -> Turns \cup {None}] /\ cancels' \subseteq Jobs /\ wg' \subseteq Jobs
    BY <1>0, <1>3, <1>4 DEF Inv, TypeOK
  <1>6. TypeOK' /\ (\A i \in Jobs : Holding(i)') /\ (\A c \in Callers : Kept(c)') /\ Cached'
    BY <1>0, <1>2, <1>3, <1>5, NoSession DEF HoldPcs, Busy
  <1>7. Standing(p)'
    <2>1. Standing(p)  BY <1>0 DEF Inv
    <2> QED  BY <1>0, <1>2, <1>4, <2>1 DEF Standing, Moves, InGroup, PassPcs
  <1>8. \A i \in Jobs : Standing(i)'  BY <1>0, <1>2, <1>4, <1>7, StandingKeeps
  <1>9. \A q \in Passes : Following(q)'  BY <1>0, <1>2, PassGoesOn, FollowingKeeps
  <1>10. Closing'
    <2>1. CASE closed  BY <1>0, <1>2, <1>3, <1>4, <2>1, ClosingKeeps
    <2>2. CASE ~closed  BY <1>3, <2>2, OpenKeeps
    <2> QED  BY <2>1, <2>2
  <1>11. OneTurnAtAWork'  BY <1>0, <1>2, <1>3, OneTurnKeeps
  <1> QED  BY <1>6, <1>8, <1>9, <1>10, <1>11 DEF Inv

\* A caller goes on to what is next, and the pass that is due is in the registry.
LEMMA TrackKeeps ==
  ASSUME Inv, NEW c \in Callers, Track(c)
  PROVE  Inv'
  <1>0. c \in Jobs /\ c \notin Passes /\ ~(c \in Turns /\ c \in Samples) /\ c # None  BY CallerIs
  <1>1. PICK to \in {"reviewed", "winding"} :
            /\ Follows(c, to)
            /\ pc' = [pc EXCEPT ![c] = to, ![NextPass(c)] = "tracked"]
            /\ cancels' = cancels \cup {NextPass(c)}
            /\ UNCHANGED <<closed, tools, session, byProject, stopped, wg, holds, calls, closing>>
    BY DEF Track
  <1>2. PICK p : p = NextPass(c)  OBVIOUS
  <1>3. /\ p \in Passes /\ p[1] = c /\ p \in Jobs /\ p # c
        /\ p \notin Callers /\ p \notin Turns /\ p \notin Samples
    <2>1. p \in Passes /\ p[1] = c  BY <1>2 DEF NextPass, Passes
    <2> QED  BY <1>0, <2>1, PassIs
  <1>4. \/ c \in Turns /\ pc[c] = "freed" /\ to = "reviewed" /\ p[2] = "self"
        \/ c \in Turns /\ pc[c] = "reviewed" /\ to = "winding" /\ p[2] = "after"
        \/ c \in Samples /\ pc[c] = "connected" /\ to = "winding" /\ p[2] = "after"
    BY <1>0, <1>1, <1>2 DEF Follows, NextPass
  <1>5. /\ pc' \in [Jobs -> Phases] /\ pc'[c] = to /\ pc'[p] = "tracked"
        /\ \A i \in Jobs \ {c, p} : pc'[i] = pc[i]
    BY <1>0, <1>1, <1>2, <1>3 DEF Inv, TypeOK, Phases
  <1>6. cancels' = cancels \cup {p}  BY <1>1, <1>2
  <1>7. UNCHANGED <<closed, tools, session, byProject, stopped, wg, holds, calls, closing>>  BY <1>1
  <1>8. pc[p] = "idle" /\ p \notin wg
    <2>1. Following(p) /\ Standing(p)  BY <1>3 DEF Inv
    <2>2. pc[p] = "idle"  BY <1>3, <1>4, <2>1 DEF Following, Behind
    <2> QED  BY <2>1, <2>2 DEF Standing, InGroup
  <1>9. TypeOK'  BY <1>3, <1>5, <1>6, <1>7 DEF Inv, TypeOK
  <1>10. ASSUME NEW i \in Jobs PROVE Standing(i)'
    <2>1. Standing(i)  BY DEF Inv
    <2>2. CASE i = c
      BY <1>0, <1>4, <1>5, <1>6, <1>7, <2>1, <2>2 DEF Standing, InGroup, TurnPcs, SamplePcs, Phases
    <2>3. CASE i = p
      BY <1>3, <1>5, <1>6, <1>7, <1>8, <2>3 DEF Standing, InGroup, PassPcs
    <2>4. CASE i # c /\ i # p  BY <1>5, <1>6, <1>7, <2>1, <2>4 DEF Standing
    <2> QED  BY <2>2, <2>3, <2>4
  <1>11. ASSUME NEW i \in Jobs PROVE Holding(i)'
    <2>1. Holding(i)  BY DEF Inv
    <2>2. CASE i = c  BY <1>0, <1>4, <1>5, <1>7, <2>1, <2>2 DEF Holding, HoldPcs, Busy, Made
    <2>3. CASE i = p  BY <1>3, <1>5, <1>7, <1>8, <2>1, <2>3 DEF Holding, HoldPcs, Busy, Made
    <2>4. CASE i # c /\ i # p  BY <1>5, <1>7, <2>1, <2>4 DEF Holding, Made
    <2> QED  BY <2>2, <2>3, <2>4
  <1>12. ASSUME NEW q \in Passes PROVE Following(q)'
    <2>1. Following(q)  BY DEF Inv
    <2>2. q \in Jobs /\ q # c /\ q[1] \in Jobs /\ q[1] \in Callers /\ q[1] # p  BY <1>0, <1>3, PassIs, CallerIs
    <2>3. CASE q = p  BY <1>3, <1>4, <1>5, <2>3 DEF Following, Behind
    <2>4. CASE q # p /\ q[1] = c
      <3>1. pc'[q] = pc[q] /\ pc'[c] = to  BY <1>5, <2>2, <2>4
      <3>2. pc[q] \notin {"tracked", "admitted"}  BY <1>1, <2>4, LaunchingIs DEF Follows
      <3> QED  BY <1>4, <2>1, <2>4, <3>1, <3>2 DEF Following, Behind
    <2>5. CASE q # p /\ q[1] # c  BY <1>5, <2>1, <2>2, <2>5 DEF Following
    <2> QED  BY <2>3, <2>4, <2>5
  <1>13. ASSUME NEW d \in Callers PROVE Kept(d)'
    BY <1>7 DEF Inv, Kept, Holders, Made
  <1>14. Cached'  BY <1>7 DEF Inv, Cached, Made
  <1>15. Closing'
    <2>1. Closing /\ wg \subseteq Jobs  BY DEF Inv, TypeOK
    <2>2. pc[c] # "unwritten"  BY <1>4
    <2>3. \A j \in wg : j \in Jobs /\ j # p /\ (pc[j] = "unwritten" => pc'[j] = "unwritten")
      BY <1>5, <1>8, <2>1, <2>2
    <2> QED  BY <1>7, <2>1, <2>3 DEF Closing
  <1>16. OneTurnAtAWork'
    <2>1. \A t \in Turns : t \in Jobs /\ t # p  BY <1>3, TurnIs
    <2> QED  BY <1>5, <1>7, <2>1 DEF Inv, OneTurnAtAWork, Writing
  <1> QED  BY <1>9, <1>10, <1>11, <1>12, <1>13, <1>14, <1>15, <1>16 DEF Inv

-----------------------------------------------------------------------------
(* A session for other switches, and one that could not be connected. *)

\* The sessions once the cached one has been retired.
LEMMA SupersededIs ==
  ASSUME Inv
  PROVE  /\ Superseded \in [Callers -> SessionRecord]
         /\ \A d \in Callers : Superseded[d].groups = session[d].groups
         /\ \A d \in Callers : d # tools => Superseded[d] = session[d]
         /\ tools # None => /\ tools \in Callers /\ Superseded[tools].retired
                            /\ Superseded[tools].refs = session[tools].refs
                            /\ Superseded[tools].closed <=> session[tools].refs = 0
  <1>1. session \in [Callers -> SessionRecord] /\ tools \in Callers \cup {None}
    BY DEF Inv, TypeOK, SessionRecord
  <1>2. CASE tools = None  BY <1>1, <1>2 DEF Superseded
  <1>3. CASE tools # None
    <2>1. tools \in Callers /\ Made(tools) /\ ~session[tools].retired  BY <1>1, <1>3 DEF Inv, Cached
    <2>2. ~session[tools].closed  BY <2>1 DEF Inv, Kept
    <2> DEFINE s == Retired(session[tools])
    <2>3. /\ s \in SessionRecord /\ s.groups = session[tools].groups /\ s.refs = session[tools].refs
          /\ s.retired = TRUE /\ s.closed = (session[tools].closed \/ session[tools].refs = 0)
      BY <1>1, <2>1, RetiredIs
    <2>4. Superseded = [session EXCEPT ![tools] = s]  BY <1>3 DEF Superseded
    <2> HIDE DEF s
    <2>5. Superseded \in [Callers -> SessionRecord] /\ Superseded[tools] = s
          /\ \A d \in Callers : d # tools => Superseded[d] = session[d]
      BY <1>1, <2>1, <2>3, <2>4
    <2>6. Superseded[tools].closed <=> session[tools].refs = 0  BY <2>2, <2>3, <2>5
    <2>7. \A d \in Callers : Superseded[d].groups = session[d].groups  BY <2>3, <2>5
    <2> QED  BY <2>1, <2>3, <2>5, <2>6, <2>7
  <1> QED  BY <1>2, <1>3

\* A session other than the one now cached has its account kept.
LEMMA SupersededKept ==
  ASSUME Inv, ~closed, UNCHANGED closing, NEW d \in Callers,
         session'[d] = Superseded[d], Holders(d)' = Holders(d), d # tools'
  PROVE  Kept(d)'
  <1>1. Kept(d) /\ Cached  BY DEF Inv
  <1>2. closing.at # "closed" /\ closing.tools = None  BY <1>1 DEF Cached, Inv, TypeOK
  <1>3. IsFiniteSet(Holders(d)')  BY <1>1 DEF Kept
  <1>4. CASE d = tools
    <2>1. Made(d)  BY <1>1, <1>4, CallerIs DEF Cached
    <2>2. /\ Superseded[d].retired /\ Superseded[d].refs = session[d].refs
          /\ Superseded[d].closed <=> session[d].refs = 0
      BY <1>4, SupersededIs, CallerIs
    <2>3. session[d].refs = Cardinality(Holders(d)) /\ IsFiniteSet(Holders(d))  BY <1>1, <2>1 DEF Kept
    <2>4. session[d].refs = 0 <=> Holders(d) = {}  BY <2>3, FS_EmptySet
    <2>5. session'[d].closed <=> Holders(d)' = {}  BY <2>2, <2>4
    <2>6. session'[d].refs = Cardinality(Holders(d)') /\ session'[d].retired  BY <2>2, <2>3
    <2> QED  BY <1>3, <2>5, <2>6 DEF Kept
  <1>5. CASE d # tools
    <2>1. session'[d] = session[d]  BY <1>5, SupersededIs
    <2>2. d # closing.tools  BY <1>2, CallerIs
    <2> QED  BY <1>1, <1>2, <1>3, <1>5, <2>1, <2>2 DEF Kept, Made
  <1> QED  BY <1>4, <1>5

LEMMA ConnectKeeps ==
  ASSUME Inv, NEW c \in Callers, Connect(c)
  PROVE  Inv'
  <1>0. c \in Jobs /\ c \notin Passes /\ ~(c \in Turns /\ c \in Samples) /\ c # None
        /\ Budget[c] \in Budgets /\ Budget[c] # None
    BY CallerIs
  <1>1. PICK to \in {"connected", "over"} :
            /\ Goes(c, Asks(c), to)
            /\ to = "connected" => /\ session' = [Superseded EXCEPT ![c] = Acquired([Unmade EXCEPT !.groups = Budget[c]])]
                                   /\ holds' = [holds EXCEPT ![c] = c] /\ tools' = c
            /\ to = "over" => session' = Superseded /\ tools' = None /\ holds' = holds
    BY DEF Connect
  <1>2. ~closed /\ UNCHANGED <<closed, byProject, cancels, stopped, wg, calls, closing>>
    BY DEF Connect, registry
  <1>3. Moves(c, to) /\ pc[c] \in {"idle", "checked"}
    BY <1>0, <1>1, JobMoves DEF Goes, Inv, Phases, Asks
  <1>4. ~Made(c) /\ holds[c] = None  BY <1>0, <1>3 DEF Inv, Holding, HoldPcs, Busy
  <1>5. Cached /\ tools \in Callers \cup {None}  BY DEF Inv, TypeOK
  <1>6. tools # c  BY <1>0, <1>4, <1>5 DEF Cached
  <1>7. closing.tools = None /\ closing.at # "closed"  BY <1>2, <1>5 DEF Cached
  <1>8. /\ Superseded \in [Callers -> SessionRecord]
        /\ \A d \in Callers : Superseded[d].groups = session[d].groups
    BY SupersededIs
  <1>9. Standing(c)'
    <2>1. Standing(c)  BY <1>0 DEF Inv
    <2> QED  BY <1>0, <1>2, <1>3, <2>1 DEF Standing, Moves, InGroup, TurnPcs, SamplePcs, Phases
  <1>10. \A p \in Passes : p = c \/ p[1] = c => Following(p)'  BY <1>3, NothingFollows DEF Behind
  <1>11. /\ \A i \in Jobs : Standing(i)'
         /\ \A p \in Passes : Following(p)'
         /\ Closing' /\ OneTurnAtAWork'
    BY <1>0, <1>2, <1>3, <1>9, <1>10, NoRegistry DEF Writing
  <1>12. CASE to = "connected"
    <2> DEFINE new == [Unmade EXCEPT !.groups = Budget[c]]
               s   == Acquired(new)
    <2>1. s \in SessionRecord /\ s.groups = Budget[c] /\ s.refs = 1 /\ s.retired = FALSE /\ s.closed = FALSE
      <3>1. /\ new \in SessionRecord /\ new.groups = Budget[c] /\ new.refs = 0
            /\ new.retired = FALSE /\ new.closed = FALSE
        BY <1>0, UnmadeIs
      <3> HIDE DEF new
      <3> QED  BY <3>1, AcquiredIs
    <2>2. session' = [Superseded EXCEPT ![c] = s] /\ holds' = [holds EXCEPT ![c] = c] /\ tools' = c
      BY <1>1, <1>12
    <2> HIDE DEF s
    <2>3. /\ session' \in [Callers -> SessionRecord] /\ session'[c] = s
          /\ \A d \in Callers \ {c} : session'[d] = Superseded[d]
      BY <1>8, <2>1, <2>2
    <2>4. Takes(c, c)  BY <1>0, <2>2, JobTakes DEF Inv
    <2>5. Holders(c) = {}  BY <1>4, NobodyHolds
    <2>6. IsFiniteSet({}) /\ Cardinality({}) = 0  BY FS_EmptySet
    <2>7. /\ IsFiniteSet(Holders(c)') /\ Cardinality(Holders(c)') = 1 /\ Holders(c)' # {}
          /\ \A d \in Callers \ {c} : Holders(d)' = Holders(d)
      BY <1>0, <1>4, <2>4, <2>5, <2>6, HoldersGrow
    <2>8. Kept(c)'  BY <1>2, <1>7, <2>1, <2>2, <2>3, <2>7 DEF Kept
    <2>9. ASSUME NEW d \in Callers \ {c} PROVE Kept(d)'
      BY <1>2, <2>2, <2>3, <2>7, SupersededKept
    <2>10. TypeOK'  BY <1>2, <1>3, <2>2, <2>3, <2>4 DEF Inv, TypeOK, Moves, Takes, SessionRecord
    <2>11. Made(c)' /\ (\A d \in Callers \ {c} : Made(d)' <=> Made(d))
      BY <1>0, <1>8, <2>1, <2>3 DEF Made
    <2>12. Holding(c)'
      <3>1. holds'[c] = c /\ session'[c].groups # None /\ pc'[c] = "connected"
        BY <1>3, <1>12, <2>4, <2>11 DEF Takes, Made, Moves
      <3> QED  BY <1>0, <3>1 DEF Holding, HoldPcs, Busy, Made
    <2>13. \A i \in Jobs : Holding(i)'  BY <1>0, <1>3, <1>4, <2>4, <2>11, <2>12, HoldingKeeps DEF Takes
    <2>14. Cached'
      <3>1. session'[c].retired = FALSE /\ session'[c].groups # None  BY <1>0, <2>1, <2>3
      <3> QED  BY <1>2, <1>5, <1>7, <2>2, <3>1 DEF Cached, Made
    <2> QED  BY <1>11, <2>8, <2>9, <2>10, <2>13, <2>14 DEF Inv
  <1>13. CASE to = "over"
    <2>1. session' = Superseded /\ tools' = None /\ holds' = holds  BY <1>1, <1>13
    <2>2. \A d \in Callers : Holders(d)' = Holders(d)  BY <2>1 DEF Holders
    <2>3. ASSUME NEW d \in Callers PROVE Kept(d)'
      BY <1>2, <2>1, <2>2, CallerIs, SupersededKept
    <2>4. TypeOK'  BY <1>2, <1>3, <1>8, <2>1 DEF Inv, TypeOK, Moves, SessionRecord
    <2>5. \A d \in Callers : Made(d)' <=> Made(d)  BY <1>8, <2>1 DEF Made
    <2>6. Holding(c)'  BY <1>3, <1>4, <1>13, <2>1 DEF Holding, HoldPcs, Busy, Moves
    <2>7. \A i \in Jobs : Holding(i)'  BY <1>0, <1>3, <2>1, <2>5, <2>6, HoldingKeeps
    <2>8. Cached'  BY <1>2, <1>5, <1>7, <2>1 DEF Cached
    <2> QED  BY <1>11, <2>3, <2>4, <2>7, <2>8 DEF Inv
  <1> QED  BY <1>12, <1>13

-----------------------------------------------------------------------------
(* The writer's stop, and Close. *)

LEMMA CancelKeeps ==
  ASSUME Inv, NEW t \in Turns, Cancel(t)
  PROVE  Inv'
  <1>1. stopped' = stopped \cup {t} /\ t \in Jobs  BY TurnIs DEF Cancel
  <1>2. UNCHANGED <<closed, tools, session, byProject, cancels, wg, pc, holds, calls, closing>>
    BY DEF Cancel, registry
  <1>3. TypeOK'  BY <1>1, <1>2 DEF Inv, TypeOK
  <1>4. \A j \in Jobs : Standing(j)' /\ Holding(j)'  BY <1>2 DEF Inv, Standing, Holding, Made
  <1>5. \A p \in Passes : Following(p)'  BY <1>2 DEF Inv, Following
  <1>6. \A c \in Callers : Kept(c)'  BY <1>2 DEF Inv, Kept, Holders, Made
  <1>7. Cached' /\ OneTurnAtAWork'  BY <1>2 DEF Inv, Cached, OneTurnAtAWork, Made
  <1>8. Closing'  BY <1>1, <1>2 DEF Inv, Closing
  <1> QED  BY <1>3, <1>4, <1>5, <1>6, <1>7, <1>8 DEF Inv

LEMMA CloseKeeps ==
  ASSUME Inv, Close
  PROVE  Inv'
  <1>1. UNCHANGED <<session, byProject, cancels, stopped, wg, pc, holds, calls>>  BY DEF Close, registry
  <1>2. /\ closing.at = "open" /\ closed' = TRUE /\ tools' = None
        /\ closing' = [at |-> "closing", tools |-> tools]
    BY DEF Close
  <1>3. Cached /\ tools \in Callers \cup {None}  BY DEF Inv, TypeOK
  <1>4. TypeOK'  BY <1>1, <1>2, <1>3 DEF Inv, TypeOK
  <1>5. \A j \in Jobs : Standing(j)' /\ Holding(j)'  BY <1>1 DEF Inv, Standing, Holding, Made
  <1>6. \A p \in Passes : Following(p)'  BY <1>1 DEF Inv, Following
  <1>7. ASSUME NEW c \in Callers PROVE Kept(c)'
    <2>1. Kept(c) /\ c # None  BY CallerIs DEF Inv
    <2>2. closing.tools = None  BY <1>2, <1>3 DEF Cached
    <2> QED  BY <1>1, <1>2, <2>1, <2>2 DEF Kept, Holders, Made
  <1>8. Cached'  BY <1>1, <1>2, <1>3 DEF Cached, Made
  <1>9. Closing' /\ OneTurnAtAWork'  BY <1>1, <1>2 DEF Inv, Closing, OneTurnAtAWork
  <1> QED  BY <1>4, <1>5, <1>6, <1>7, <1>8, <1>9 DEF Inv

LEMMA CancelAllKeeps ==
  ASSUME Inv, CancelAll
  PROVE  Inv'
  <1>1. UNCHANGED <<closed, tools, session, byProject, cancels, wg, pc, holds, calls>>
    BY DEF CancelAll, registry
  <1>2. stopped' = stopped \cup cancels  BY DEF CancelAll, Told
  <1>3. /\ closing.at = "closing" /\ closing'.at = "waiting" /\ closing'.tools = closing.tools
        /\ closing' \in [at : {"open", "closing", "waiting", "closed"}, tools : Callers \cup {None}]
    BY DEF CancelAll, Closes, Inv, TypeOK
  <1>4. TypeOK'  BY <1>1, <1>2, <1>3 DEF Inv, TypeOK
  <1>5. \A j \in Jobs : Standing(j)' /\ Holding(j)'  BY <1>1 DEF Inv, Standing, Holding, Made
  <1>6. \A p \in Passes : Following(p)'  BY <1>1 DEF Inv, Following
  <1>7. \A c \in Callers : Kept(c)'  BY <1>1, <1>3 DEF Inv, Kept, Holders, Made
  <1>8. Cached'  BY <1>1, <1>3 DEF Inv, Cached, Made
  <1>9. Closing'
    <2>1. wg \subseteq Jobs /\ \A j \in wg : pc[j] = "unwritten" \/ j \in cancels
      BY DEF Inv, TypeOK, Standing
    <2> QED  BY <1>1, <1>2, <1>3, <2>1 DEF Closing
  <1>10. OneTurnAtAWork'  BY <1>1 DEF Inv, OneTurnAtAWork
  <1> QED  BY <1>4, <1>5, <1>6, <1>7, <1>8, <1>9, <1>10 DEF Inv

LEMMA CloseReturnsKeeps ==
  ASSUME Inv, CloseReturns
  PROVE  Inv'
  <1>1. UNCHANGED <<closed, tools, byProject, cancels, stopped, wg, pc, holds, calls>>
    BY DEF CloseReturns, registry
  <1>2. wg = {}  BY DEF CloseReturns
  <1>3. /\ closing.at = "waiting" /\ closing'.at = "closed" /\ closing'.tools = closing.tools
        /\ closing' \in [at : {"open", "closing", "waiting", "closed"}, tools : Callers \cup {None}]
    BY DEF CloseReturns, Closes, Inv, TypeOK
  <1>4. Cached /\ closing.tools \in Callers \cup {None}  BY DEF Inv, TypeOK
  <1>5. tools = None  BY <1>3, <1>4 DEF Cached
  <1>6. /\ session' \in [Callers -> SessionRecord]
        /\ \A d \in Callers : session'[d].groups = session[d].groups
        /\ \A d \in Callers : Made(d) => session'[d].retired
        /\ \A d \in Callers : Kept(d)'
    <2>1. CASE closing.tools = None
      <3>1. session' = session  BY <2>1 DEF CloseReturns
      <3>2. \A d \in Callers : Made(d) => session[d].retired
        BY <1>5, <2>1, CallerIs DEF Inv, Kept
      <3>3. session' \in [Callers -> SessionRecord]  BY <3>1 DEF Inv, TypeOK, SessionRecord
      <3>4. ASSUME NEW d \in Callers PROVE Kept(d)'
        <4>1. Kept(d)  BY DEF Inv
        <4>2. Holders(d)' = Holders(d) /\ (Made(d)' <=> Made(d))  BY <1>1, <3>1 DEF Holders, Made
        <4>3. tools' = tools /\ closing'.tools = closing.tools  BY <1>1, <1>3
        <4> QED  BY <3>1, <3>2, <4>1, <4>2, <4>3 DEF Kept
      <3> QED  BY <3>1, <3>2, <3>3, <3>4
    <2>2. CASE closing.tools # None
      <3>1. PICK c \in Callers : c = closing.tools  BY <1>4, <2>2
      <3>2. Made(c)  BY <1>4, <2>2, <3>1 DEF Cached
      <3>3. session' = [session EXCEPT ![c] = Retired(@)]  BY <2>2, <3>1 DEF CloseReturns
      <3>4. /\ session' \in [Callers -> SessionRecord] /\ \A d \in Callers \ {c} : session'[d] = session[d]
            /\ session'[c].groups = session[c].groups /\ session'[c].retired = TRUE
            /\ session'[c].refs = Cardinality(Holders(c)')
            /\ session'[c].closed <=> Holders(c)' = {}
            /\ \A d \in Callers : Holders(d)' = Holders(d)
        BY <1>1, <3>2, <3>3, RetireDoes
      <3>5. \A d \in Callers \ {c} : Made(d) => session[d].retired
        BY <1>5, <3>1, CallerIs DEF Inv, Kept
      <3>6. Kept(c)'
        <4>1. IsFiniteSet(Holders(c)')  BY <3>4 DEF Inv, Kept
        <4> QED  BY <3>4, <4>1 DEF Kept
      <3>7. ASSUME NEW d \in Callers \ {c} PROVE Kept(d)'
        <4>1. session'[d] = session[d] /\ Holders(d)' = Holders(d) /\ Kept(d)  BY <3>4 DEF Inv
        <4> QED  BY <3>5, <4>1 DEF Kept, Made
      <3>8. \A d \in Callers : session'[d].groups = session[d].groups  BY <3>4
      <3>9. \A d \in Callers : Made(d) => session'[d].retired  BY <3>4, <3>5 DEF Made
      <3>10. \A d \in Callers : Kept(d)'  BY <3>6, <3>7
      <3> QED  BY <3>4, <3>8, <3>9, <3>10
    <2> QED  BY <2>1, <2>2
  <1>7. TypeOK'  BY <1>1, <1>3, <1>6 DEF Inv, TypeOK, SessionRecord
  <1>8. \A j \in Jobs : Standing(j)'  BY <1>1 DEF Inv, Standing
  <1>9. ASSUME NEW j \in Jobs PROVE Holding(j)'
    <2>1. Holding(j) /\ holds[j] \in Callers \cup {None}  BY DEF Inv, TypeOK
    <2>2. holds[j] # None => session'[holds[j]].groups # None  BY <1>6, <2>1 DEF Holding, Made
    <2>3. j \in Callers => session'[j].groups = session[j].groups  BY <1>6
    <2> QED  BY <1>1, <2>1, <2>2, <2>3 DEF Holding, Made
  <1>10. \A p \in Passes : Following(p)'  BY <1>1 DEF Inv, Following
  <1>11. Cached'
    <2>1. closing.tools # None => session'[closing.tools].groups # None
      BY <1>4, <1>6 DEF Cached, Made
    <2> QED  BY <1>1, <1>3, <1>4, <1>5, <2>1 DEF Cached, Made
  <1>12. Closing'  BY <1>1, <1>2 DEF Closing
  <1>13. OneTurnAtAWork'  BY <1>1 DEF Inv, OneTurnAtAWork
  <1> QED  BY <1>6, <1>7, <1>8, <1>9, <1>10, <1>11, <1>12, <1>13 DEF Inv

-----------------------------------------------------------------------------
(* The steps that only walk. *)

LEMMA LoopWalks ==
  ASSUME Inv, NEW t \in Turns, AtWork(t) \/ Comes(t)
  PROVE  Inv'
  <1>0. t \in Jobs  BY TurnIs
  <1>1. PICK from \in {"chat", "tools", "wall"}, to \in {"chat", "tools", "wall", "replied", "winding"} :
          Loop(t, from, to)
    BY DEF AtWork, Comes, ChatFails, Reply, AsksForTools, Tool, CutShort, WrapUp, BridgeCall, BridgeDone, Panic
  <1>2. calls' \in [Turns -> 0 .. MaxCalls]
    <2>1. calls' = calls \/ (Room(t) /\ calls' = [calls EXCEPT ![t] = @ + 1])
      BY DEF AtWork, Comes, ChatFails, Reply, AsksForTools, Tool, CutShort, WrapUp, BridgeCall, BridgeDone, Panic
    <2> QED  BY <2>1, Sets DEF Inv, TypeOK, Room
  <1>3. Moves(t, to)  BY <1>0, <1>1, JobMoves DEF Loop, Goes, Inv, Phases
  <1>4. Walk(t, from, to)  BY <1>1, <1>2, <1>3 DEF Walk, Loop, Goes
  <1> QED  BY <1>0, <1>4, WalkKeeps

LEMMA WalksKeep ==
  ASSUME Inv, NEW j \in Jobs,
         \/ j \in Samples /\ Check(j)
         \/ j \in Callers /\ (Refused(j) \/ NoPass(j))
         \/ j \in Turns /\ Begin(j)
         \/ j \in Passes /\ PassEnds(j)
  PROVE  Inv'
  <1>1. calls \in [Turns -> 0 .. MaxCalls]  BY DEF Inv, TypeOK
  <1>2. Samples \subseteq Callers /\ Turns \subseteq Callers  BY DEF Callers
  <1>3. CASE j \in Samples /\ Check(j)
    <2>1. PICK to \in {"checked", "over"} : Goes(j, "idle", to)  BY <1>3 DEF Check
    <2>2. Moves(j, to)  BY <2>1, JobMoves DEF Goes, Inv, Phases
    <2> QED  BY <1>1, <1>2, <1>3, <2>1, <2>2, WalkKeeps DEF Walk, Check, Goes
  <1>4. CASE j \in Callers /\ Refused(j)
    <2>1. PICK from \in {"idle", "checked"} : Goes(j, from, "over")  BY <1>4 DEF Refused, Asks
    <2>2. Moves(j, "over")  BY <2>1, JobMoves DEF Goes, Inv, Phases
    <2> QED  BY <1>1, <1>4, <2>1, <2>2, WalkKeeps DEF Walk, Refused, Goes
  <1>5. CASE j \in Callers /\ NoPass(j)
    <2>1. PICK to \in {"reviewed", "winding"} : Follows(j, to) /\ pc' = [pc EXCEPT ![j] = to]
      BY <1>5 DEF NoPass
    <2>2. /\ (pc[j] = "freed" /\ to = "reviewed") \/ (pc[j] = "reviewed" /\ to = "winding")
          /\ j \in Turns
      BY <1>5, <2>1, CallerIs DEF Follows, NoPass
    <2>3. Moves(j, to)  BY <2>1, JobMoves DEF Inv, Phases
    <2> QED  BY <1>1, <1>5, <2>2, <2>3, WalkKeeps DEF Walk, NoPass
  <1>6. CASE j \in Turns /\ Begin(j)
    <2>1. Moves(j, "chat") /\ pc[j] = "entered"  BY <1>6, JobMoves DEF Begin, Goes, Inv, Phases
    <2> QED  BY <1>1, <1>6, <2>1, WalkKeeps DEF Walk, Begin
  <1>7. CASE j \in Passes /\ PassEnds(j)
    <2>1. Moves(j, "winding") /\ pc[j] = "running"  BY <1>7, JobMoves DEF PassEnds, Goes, Inv, Phases
    <2> QED  BY <1>1, <1>7, <2>1, WalkKeeps DEF Walk, PassEnds
  <1> QED  BY <1>3, <1>4, <1>5, <1>6, <1>7

-----------------------------------------------------------------------------
LEMMA InvInit ==
  ASSUME Init
  PROVE  Inv
  <1> USE DEF Init
  <1>1. TypeOK
    <2>1. Unmade \in SessionRecord  BY DEF Unmade, SessionRecord
    <2>2. session \in [Callers -> [groups : Budgets \cup {None}, refs : Nat,
                                   retired : BOOLEAN, closed : BOOLEAN]]
      BY <2>1 DEF SessionRecord
    <2>3. calls \in [Turns -> 0 .. MaxCalls]  BY Sets
    <2>4. /\ byProject \in [Works -> Turns \cup {None}]
          /\ pc \in [Jobs -> Phases] /\ holds \in [Jobs -> Callers \cup {None}]
      BY DEF Phases
    <2>5. closing \in [at : {"open", "closing", "waiting", "closed"}, tools : Callers \cup {None}]
      OBVIOUS
    <2> QED  BY <2>2, <2>3, <2>4, <2>5 DEF TypeOK
  <1>2. \A j \in Jobs : pc[j] = "idle" /\ holds[j] = None /\ j \notin wg /\ j \notin cancels  OBVIOUS
  <1>3. \A c \in Callers : ~Made(c)  BY DEF Made, Unmade
  <1>4. \A j \in Jobs : Standing(j)
    BY <1>2 DEF Standing, InGroup, PassPcs, SamplePcs, TurnPcs, Phases
  <1>5. \A j \in Jobs : Holding(j)  BY <1>2, <1>3 DEF Holding, HoldPcs, Busy
  <1>6. \A p \in Passes : Following(p)  BY <1>2, PassIs DEF Following
  <1>7. \A c \in Callers : Kept(c)
    <2>1. \A c \in Callers : Holders(c) = {}  BY <1>2, CallerIs DEF Holders
    <2>2. IsFiniteSet({})  BY FS_EmptySet
    <2> QED  BY <1>3, <2>1, <2>2 DEF Kept
  <1>8. Cached  BY DEF Cached
  <1>9. Closing  BY DEF Closing
  <1>10. OneTurnAtAWork  BY <1>2, TurnIs DEF OneTurnAtAWork, Writing
  <1> QED  BY <1>1, <1>4, <1>5, <1>6, <1>7, <1>8, <1>9, <1>10 DEF Inv

LEMMA OwnStepKeeps ==
  ASSUME Inv, NEW j \in Jobs, OwnStep(j)
  PROVE  Inv'
  <1>1. CASE j \in Callers /\ (Refused(j) \/ NotStarted(j) \/ Track(j) \/ NoPass(j))
    BY <1>1, WalksKeep, NotStartedKeeps, TrackKeeps
  <1>2. CASE j \in Turns /\ (Start(j) \/ Enter(j) \/ TurnedAway(j) \/ Unwritten(j) \/ GivesUp(j) \/ Begin(j) \/ Release(j))
    BY <1>2, StartKeeps, EnterKeeps, FinishKeeps, GivesUpKeeps, WalksKeep
  <1>3. CASE j \in Passes /\ (Admit(j) \/ Launch(j))  BY <1>3, AdmitKeeps, LaunchKeeps
  <1>4. CASE ReleaseSession(j)  BY <1>4, ReleaseSessionKeeps
  <1>5. CASE Leave(j)  BY <1>5, LeaveKeeps
  <1>6. CASE Over(j)  BY <1>6, FinishKeeps, PassOverKeeps
  <1> QED  BY <1>1, <1>2, <1>3, <1>4, <1>5, <1>6 DEF OwnStep

LEMMA InvNext ==
  ASSUME Inv, [Next]_vars
  PROVE  Inv'
  <1>1. ASSUME NEW c \in Callers, Arrives(c) PROVE Inv'
    BY <1>1, CallerIs, WalksKeep, ReuseKeeps, ConnectKeeps DEF Arrives
  <1>2. ASSUME NEW t \in Turns, AtWork(t) \/ Comes(t) \/ Cancel(t) PROVE Inv'
    BY <1>2, LoopWalks, CancelKeeps
  <1>3. ASSUME NEW p \in Passes, PassEnds(p) PROVE Inv'
    BY <1>3, PassIs, WalksKeep
  <1>4. ASSUME NEW j \in Jobs, OwnStep(j) PROVE Inv'
    BY <1>4, OwnStepKeeps
  <1>5. CASE Close \/ CancelAll \/ CloseReturns
    BY <1>5, CloseKeeps, CancelAllKeeps, CloseReturnsKeeps
  <1>6. CASE UNCHANGED vars
    <2>1. UNCHANGED <<closed, tools, session, byProject, cancels, stopped, wg, pc, holds, calls, closing>>
      BY <1>6 DEF vars, registry
    <2>2. TypeOK'  BY <2>1 DEF Inv, TypeOK
    <2>3. \A j \in Jobs : Standing(j)' /\ Holding(j)'  BY <2>1 DEF Inv, Standing, Holding, Made
    <2>4. (\A p \in Passes : Following(p)') /\ \A c \in Callers : Kept(c)'
      BY <2>1 DEF Inv, Following, Kept, Holders, Made
    <2>5. Cached' /\ Closing' /\ OneTurnAtAWork'
      BY <2>1 DEF Inv, Cached, Closing, OneTurnAtAWork, Made
    <2> QED  BY <2>2, <2>3, <2>4, <2>5 DEF Inv
  <1> QED  BY <1>1, <1>2, <1>3, <1>4, <1>5, <1>6 DEF Next

\* Where every job, session and lock stands holds in every state.
THEOREM Invariant == Spec => []Inv
  <1>1. Init => Inv  BY InvInit
  <1>2. Inv /\ [Next]_vars => Inv'  BY InvNext
  <1> QED  BY <1>1, <1>2, PTL DEF Spec

\* Every variable keeps its shape, whatever arrives, is cancelled or closed.
THEOREM Typed == Spec => []TypeOK
  <1>1. Inv => TypeOK  BY DEF Inv
  <1> QED  BY <1>1, Invariant, PTL

\* No turn or pass that may still call a tool has its session closed under it,
\* and none is left behind, however switches flip and Close comes
\* (toolSession.release, retire and Service.session).
THEOREM SessionsAreKept == Spec => []SessionsServe
  <1>1. Inv => SessionsServe
    <2> SUFFICES ASSUME Inv PROVE SessionsServe  OBVIOUS
    <2>1. ASSUME NEW j \in Jobs, pc[j] \in Busy
          PROVE  holds[j] # None /\ ~session[holds[j]].closed
      <3>1. holds[j] # None /\ Made(holds[j])  BY <2>1 DEF Inv, Holding, HoldPcs
      <3>2. PICK c \in Callers : c = holds[j]  BY <3>1 DEF Inv, TypeOK
      <3>3. j \in Holders(c)  BY <3>2 DEF Holders
      <3> QED  BY <3>1, <3>2, <3>3 DEF Inv, Kept
    <2>2. ASSUME NEW c \in Callers, session[c].groups # None
          PROVE  /\ session[c].refs = Cardinality(Holders(c))
                 /\ session[c].retired \/ c = tools \/ c = closing.tools
                 /\ session[c].retired \/ closing.at # "closed"
                 /\ session[c].closed <=> session[c].retired /\ Holders(c) = {}
      BY <2>2 DEF Inv, Kept, Made
    <2> QED  BY <2>1, <2>2 DEF SessionsServe
  <1> QED  BY <1>1, Invariant, PTL

\* One turn at a time writes a work, Close waits on nobody it has not told, and
\* nobody writes once it has returned (runs.track, runs.finish, Service.Close).
THEOREM TurnsKeep == Spec => []TurnsKeepToTheirWork
  <1>1. Inv => TurnsKeepToTheirWork
    <2> SUFFICES ASSUME Inv PROVE TurnsKeepToTheirWork  OBVIOUS
    <2>1. ASSUME closing.at = "closed", NEW j \in Jobs
          PROVE  pc[j] \notin {"entered", "chat", "tools", "wall", "replied", "admitted", "running"}
      <3>1. wg = {} /\ Standing(j)  BY <2>1 DEF Inv, Closing
      <3> QED  BY <3>1 DEF Standing, InGroup
    <2>2. ClosedForGood  BY <2>1 DEF Inv, Closing, ClosedForGood
    <2> QED  BY <2>2 DEF Inv, TurnsKeepToTheirWork
  <1> QED  BY <1>1, Invariant, PTL

-----------------------------------------------------------------------------
(* The sign-in, when one call of Start is under way at a time.                 *)

\* Where everything is.
Signing ==
    /\ Login!TypeOK /\ start \in [Login!Attempts -> {"idle", "stopped", "clean", "bound", "failed", "answered"}]

\* A call of Start that is under way is the newest, and nothing is in flight
\* meanwhile; the attempt in flight is the newest that was begun.
InFlight ==
    /\ \A a, b \in Login!Attempts : a <= b /\ start[b] # "idle" => start[a] # "idle"
    /\ \A a \in Login!UnderWay, b \in Login!Attempts : start[b] # "idle" => b <= a
    /\ Login!UnderWay # {} => current = 0
    /\ current # 0 => start[current] = "answered" /\ \A b \in Login!Attempts : start[b] # "idle" => b <= current
    /\ \A a \in Login!Attempts : start[a] \in {"clean", "bound"} => lastFailure = 0

\* Who is inside fileMu, and what they may do there.
Inside ==
    /\ \A r \in Login!Requests : request[r] = "writing" =>
           fileMu = r /\ r[1] \notin gone /\ credential <= r[1] /\ start[r[1]] = "answered"
    /\ signOut.at = "stopped" => fileMu = <<"logout">>
    /\ credential # 0 => start[credential] = "answered"
    /\ \A a \in gone : start[a] = "answered" /\ a # current

LoginInv ==
    /\ Signing /\ InFlight /\ Inside
    /\ Login!SignedOutForGood /\ Login!CleanSlate /\ Login!NoStrayListener

\* Attempts are numbers, a callback is of one, and nobody inside fileMu is two.
LEMMA LoginNames ==
  /\ \A a \in Login!Attempts : a \in Nat /\ a # 0 /\ a > 0
  /\ \A r \in Login!Requests : r[1] \in Login!Attempts /\ r = <<r[1], r[2]>> /\ r[2] \in Callbacks
                               /\ r # <<>> /\ r # <<"logout">>
  <1>1. \A a \in Login!Attempts : a \in Nat /\ a # 0 /\ a > 0  BY DEF Login!Attempts
  <1>2. \A r \in Login!Requests : r[1] \in Login!Attempts /\ r = <<r[1], r[2]>> /\ r[2] \in Callbacks
    BY DEF Login!Requests
  <1>3. \A r \in Login!Requests : r # <<>> /\ r # <<"logout">>
    <2> TAKE r \in Login!Requests
    <2>1. r = <<r[1], r[2]>>  BY <1>2
    <2>2. DOMAIN <<r[1], r[2]>> = 1..2 /\ DOMAIN <<>> = {} /\ DOMAIN <<"logout">> = 1..1  OBVIOUS
    <2>3. 2 \in 1..2 /\ 2 \notin 1..1 OBVIOUS
    <2> QED  BY <2>1, <2>2, <2>3
  <1> QED  BY <1>1, <1>2, <1>3

\* It holds at first.
LEMMA LoginBegins == Login!Init => LoginInv
  <1> SUFFICES ASSUME Login!Init PROVE LoginInv OBVIOUS
  <1> USE DEF Login!Init, Login!NoAttempt
  <1>1. Login!TypeOK
    BY LoginLimits DEF Login!TypeOK
  <1>2. Signing BY <1>1 DEF Signing
  <1>3. InFlight BY DEF InFlight, Login!UnderWay
  <1>4. Inside BY LoginNames DEF Inside
  <1>5. Login!SignedOutForGood /\ Login!CleanSlate /\ Login!NoStrayListener
    BY DEF Login!SignedOutForGood, Login!CleanSlate, Login!NoStrayListener
  <1> QED BY <1>2, <1>3, <1>4, <1>5 DEF LoginInv


\* One count is the other.
LEMMA SameCount == \A S : Login!Cardinality(S) = Cardinality(S)
  BY DEF Login!Cardinality, Cardinality

\* The steps of a call of Start, and the end of a window.
LEMMA StartingKeeps ==
  ASSUME LoginInv, NEW a \in Login!Attempts, Login!Begin(a) \/ Login!Starting(a) \/ Login!WindowCloses(a)
  PROVE  LoginInv'
  <1> DEFINE Ats == {"idle", "stopped", "clean", "bound", "failed", "answered"}
  <1>a. /\ \A b \in Login!Attempts : b \in Nat /\ b # 0 /\ b > 0
        /\ \A r \in Login!Requests : r[1] \in Login!Attempts
    BY LoginNames
  <1>b. /\ start \in [Login!Attempts -> Ats] /\ current \in Login!Attempts \cup {0}
        /\ lastFailure \in Login!Attempts \cup {0} /\ credential \in Login!Attempts \cup {0}
        /\ listening \subseteq Login!Attempts /\ gone \subseteq Login!Attempts
    BY DEF LoginInv, Signing, Login!TypeOK, Login!NoAttempt
  <1>c. ASSUME start' \in [Login!Attempts -> Ats], current' \in Login!Attempts \cup {0},
               lastFailure' \in {lastFailure, 0}, listening' \subseteq Login!Attempts,
               UNCHANGED <<credential, fileMu, request, signOut, gone>>
        PROVE  Signing'
    BY <1>b, <1>c DEF LoginInv, Signing, Login!TypeOK, Login!NoAttempt
  <1>1. CASE Login!Begin(a)
    <2>1. /\ start[a] = "idle" /\ \A b \in Login!Attempts : b < a => start[b] # "idle"
          /\ current' = 0 /\ listening' = listening \ {current}
          /\ start' = [start EXCEPT ![a] = "stopped"]
          /\ UNCHANGED <<lastFailure, credential, fileMu, request, signOut, gone>>
      BY <1>1 DEF Login!Begin, Login!StopCurrent, Login!NoAttempt
    <2>2. Login!UnderWay = {}
      <3>1. Cardinality(Login!UnderWay) < 1  BY <1>1, LoginLimits, SameCount DEF Login!Begin
      <3>2. IsFiniteSet(Login!UnderWay)
        <4>1. IsFiniteSet(1 .. MaxAttempts)  BY LoginLimits, FS_Interval
        <4>2. Login!UnderWay \subseteq 1 .. MaxAttempts  BY DEF Login!UnderWay, Login!Attempts
        <4> QED  BY <4>1, <4>2, FS_Subset
      <3>3. Cardinality(Login!UnderWay) = 0  BY <3>1, <3>2, FS_CardinalityType
      <3> QED  BY <3>2, <3>3, FS_EmptySet
    <2>3. /\ start' \in [Login!Attempts -> Ats] /\ start'[a] = "stopped"
          /\ \A b \in Login!Attempts \ {a} : start'[b] = start[b]
      BY <1>b, <2>1
    <2>4. \A b \in Login!Attempts : start[b] \notin {"stopped", "clean", "bound"}
      BY <2>2 DEF Login!UnderWay
    <2>5. \A b \in Login!Attempts : b > a => start[b] = "idle"
      BY <1>a, <2>1 DEF LoginInv, InFlight
    <2>6. InFlight'
      <3>1. \A b \in Login!UnderWay' : b = a  BY <2>3, <2>4 DEF Login!UnderWay
      <3>2. \A b \in Login!Attempts : start'[b] # "idle" => b <= a  BY <1>a, <2>3, <2>5
      <3>3. \A b, d \in Login!Attempts : b <= d /\ start'[d] # "idle" => start'[b] # "idle"
        <4> TAKE b, d \in Login!Attempts
        <4>1. CASE d = a  BY <1>a, <2>1, <2>3, <4>1
        <4>2. CASE d # a  BY <1>a, <2>3, <4>2 DEF LoginInv, InFlight
        <4> QED  BY <4>1, <4>2
      <3> QED  BY <2>1, <2>3, <2>4, <3>1, <3>2, <3>3 DEF InFlight, Login!UnderWay
    <2>7. Inside'  BY <1>a, <1>b, <2>1, <2>3 DEF LoginInv, Inside
    <2>8. Login!NoStrayListener'
      BY <1>b, <2>1, <2>3, <2>4 DEF LoginInv, Login!NoStrayListener
    <2>9. Signing'  BY <1>b, <1>c, <2>1, <2>3
    <2> QED
      BY <2>1, <2>6, <2>7, <2>8, <2>9 DEF LoginInv, Login!SignedOutForGood, Login!CleanSlate, Login!NoAttempt
  <1>2. CASE Login!Starting(a)
    <2>1. PICK to \in Ats : /\ start[a] \in {"stopped", "clean", "bound"} /\ start' = [start EXCEPT ![a] = to]
                            /\ to \notin {"idle", "stopped"}
                            /\ UNCHANGED <<credential, fileMu, request, signOut, gone>>
                            /\ \/ start[a] = "stopped" /\ to = "clean" /\ lastFailure' = 0 /\ UNCHANGED <<current, listening>>
                               \/ start[a] = "clean" /\ to = "bound" /\ listening' = listening \cup {a}
                                  /\ UNCHANGED <<current, lastFailure>>
                               \/ start[a] = "clean" /\ to = "failed" /\ UNCHANGED <<current, lastFailure, listening>>
                               \/ start[a] = "bound" /\ to = "answered" /\ current' = a /\ UNCHANGED <<lastFailure, listening>>
      BY <1>2 DEF Login!Starting, Login!Clear, Login!Listen, Login!Publish, Login!NoAttempt
    <2>2. /\ start' \in [Login!Attempts -> Ats] /\ start'[a] = to
          /\ \A b \in Login!Attempts \ {a} : start'[b] = start[b]
      BY <1>b, <2>1
    <2>3. /\ a \in Login!UnderWay /\ current = 0 /\ \A b \in Login!UnderWay : b = a
          /\ \A b \in Login!Attempts : start[b] # "idle" => b <= a
      BY <1>a, <2>1 DEF LoginInv, InFlight, Login!UnderWay
    <2>4. \A b \in Login!Attempts : start'[b] # "idle" <=> start[b] # "idle"  BY <2>1, <2>2
    <2>5. \A b \in Login!UnderWay' : b = a /\ to # "answered"
      <3> TAKE b \in Login!UnderWay'
      <3>1. b \in Login!Attempts /\ start'[b] \in {"stopped", "clean", "bound"}  BY DEF Login!UnderWay
      <3>2. b = a  BY <2>2, <2>3, <3>1 DEF Login!UnderWay
      <3> QED  BY <2>2, <3>1, <3>2
    <2>6. InFlight'
      <3>1. Login!UnderWay' # {} => current' = 0  BY <2>1, <2>3, <2>5
      <3>2. current' # 0 => start'[current'] = "answered" /\ \A b \in Login!Attempts : start'[b] # "idle" => b <= current'
        BY <2>1, <2>2, <2>3, <2>4
      <3>3. \A b \in Login!Attempts : start'[b] \in {"clean", "bound"} => lastFailure' = 0
        <4> TAKE b \in Login!Attempts
        <4>1. CASE b = a  BY <2>1, <2>2, <4>1 DEF LoginInv, InFlight
        <4>2. CASE b # a  BY <2>2, <2>3, <4>2 DEF Login!UnderWay
        <4> QED  BY <4>1, <4>2
      <3>4. \A b, d \in Login!Attempts : b <= d /\ start'[d] # "idle" => start'[b] # "idle"
        BY <2>4 DEF LoginInv, InFlight
      <3> QED  BY <2>3, <2>4, <2>5, <3>1, <3>2, <3>3, <3>4 DEF InFlight
    <2>7. Inside'
      <3>1. \A b \in Login!Attempts : start[b] = "answered" => start'[b] = "answered"  BY <2>1, <2>2
      <3>2. \A b \in gone : b # current'  BY <1>b, <2>1 DEF LoginInv, Inside
      <3> QED  BY <1>a, <1>b, <2>1, <3>1, <3>2 DEF LoginInv, Inside
    <2>8. Login!NoStrayListener'
      <3> SUFFICES ASSUME NEW b \in listening'
                   PROVE  \/ b = current' \/ start'[b] = "bound"
                          \/ \E c \in Callbacks : request'[<<b, c>>] = "draining"
        BY DEF Login!NoStrayListener
      <3>1. CASE b = a
        <4>1. CASE b \in listening
          <5>1. \/ b = current \/ start[b] = "bound" \/ \E c \in Callbacks : request[<<b, c>>] = "draining"
            BY <4>1 DEF LoginInv, Login!NoStrayListener
          <5> QED  BY <2>1, <2>2, <2>3, <3>1, <5>1, <1>a
        <4>2. CASE b \notin listening  BY <2>1, <2>2, <3>1, <4>2
        <4> QED  BY <4>1, <4>2
      <3>2. CASE b # a
        <4>1. b \in listening /\ b \in Login!Attempts  BY <1>b, <2>1, <3>2
        <4>2. \/ b = current \/ start[b] = "bound" \/ \E c \in Callbacks : request[<<b, c>>] = "draining"
          BY <4>1 DEF LoginInv, Login!NoStrayListener
        <4> QED  BY <1>a, <2>1, <2>2, <2>3, <3>2, <4>1, <4>2
      <3> QED  BY <3>1, <3>2
    <2>9. Signing'  BY <1>b, <1>c, <2>1, <2>2
    <2>10. Login!CleanSlate'
      BY <2>1, <2>3 DEF LoginInv, InFlight, Login!CleanSlate, Login!NoAttempt
    <2> QED  BY <2>1, <2>6, <2>7, <2>8, <2>9, <2>10 DEF LoginInv, Login!SignedOutForGood
  <1>3. CASE Login!WindowCloses(a)
    <2>1. listening' = listening \ {a}
          /\ UNCHANGED <<current, lastFailure, credential, fileMu, start, request, signOut, gone>>
      BY <1>3 DEF Login!WindowCloses
    <2>2. Signing'  BY <1>b, <1>c, <2>1
    <2>3. InFlight' /\ Inside'  BY <2>1 DEF LoginInv, InFlight, Inside, Login!UnderWay
    <2> QED
      BY <2>1, <2>2, <2>3 DEF LoginInv, Login!SignedOutForGood, Login!CleanSlate, Login!NoStrayListener
  <1> QED  BY <1>1, <1>2, <1>3

\* The steps of a callback: it moves on, and all others stay.
LEMMA CallbackKeeps ==
  ASSUME LoginInv, NEW r \in Login!Requests, Login!Arrive(r) \/ Login!Handling(r)
  PROVE  LoginInv'
  <1> DEFINE Stages == {"none", "called", "exchanged", "writing", "unwritten", "stopping", "draining", "over"}
             a == r[1]
  <1>a. /\ \A b \in Login!Attempts : b \in Nat /\ b # 0 /\ b > 0
        /\ \A q \in Login!Requests : q[1] \in Login!Attempts /\ q # <<>> /\ q # <<"logout">>
        /\ a \in Login!Attempts /\ r = <<a, r[2]>> /\ r[2] \in Callbacks
    BY LoginNames
  <1>b. /\ request \in [Login!Requests -> Stages] /\ current \in Login!Attempts \cup {0}
        /\ lastFailure \in Login!Attempts \cup {0} /\ credential \in Login!Attempts \cup {0}
        /\ listening \subseteq Login!Attempts /\ gone \subseteq Login!Attempts
        /\ fileMu \in {<<>>, <<"logout">>} \cup Login!Requests
    BY DEF LoginInv, Signing, Login!TypeOK, Login!NoAttempt
  <1> HIDE DEF a
  <1>1. ASSUME NEW to \in Stages, request' = [request EXCEPT ![r] = to],
               current' \in {current, 0}, lastFailure' \in {lastFailure, current},
               credential' \in {credential, a}, fileMu' \in {fileMu, <<>>, r},
               UNCHANGED <<start, signOut, gone>>, listening' \subseteq listening, Inside', Login!NoStrayListener',
               lastFailure' # lastFailure => current' = current,
               Login!SignedOutForGood'
        PROVE  LoginInv'
    <2>1. request' \in [Login!Requests -> Stages]  BY <1>b, <1>1
    <2>2. Signing'
      BY <1>a, <1>b, <1>1, <2>1 DEF LoginInv, Signing, Login!TypeOK, Login!NoAttempt
    <2>3. InFlight'
      <3>1. Login!UnderWay # {} => current = 0  BY DEF LoginInv, InFlight
      <3>2. \A b \in Login!Attempts : start[b] \in {"clean", "bound"} => lastFailure = 0 /\ current = 0
        BY <3>1 DEF LoginInv, InFlight, Login!UnderWay
      <3>3. \A b \in Login!Attempts : start'[b] \in {"clean", "bound"} => lastFailure' = 0  BY <1>1, <3>2
      <3> QED  BY <1>1, <3>1, <3>3 DEF LoginInv, InFlight, Login!UnderWay
    <2>4. Login!CleanSlate'  BY <1>1 DEF LoginInv, Login!CleanSlate, Login!NoAttempt
    <2> QED  BY <1>1, <2>2, <2>3, <2>4 DEF LoginInv
  <1>2. ASSUME NEW to \in Stages, request[r] # "draining", request' = [request EXCEPT ![r] = to],
               current' = current, listening' = listening, start' = start
        PROVE  Login!NoStrayListener'
    <2> SUFFICES ASSUME NEW b \in listening
                 PROVE  \/ b = current \/ start[b] = "bound" \/ \E c \in Callbacks : request'[<<b, c>>] = "draining"
      BY <1>2 DEF Login!NoStrayListener
    <2>1. ASSUME NEW c \in Callbacks, request[<<b, c>>] = "draining" PROVE request'[<<b, c>>] = "draining"
      <3>1. <<b, c>> \in Login!Requests  BY <1>b DEF Login!Requests
      <3> QED  BY <1>b, <1>2, <2>1, <3>1
    <2> QED  BY <2>1 DEF LoginInv, Login!NoStrayListener
  <1>3. ASSUME NEW to \in Stages, to # "writing", request' = [request EXCEPT ![r] = to],
               UNCHANGED <<fileMu, credential, start, signOut, gone>>, current' \in {current, 0}
        PROVE  Inside'
    <2>1. \A q \in Login!Requests : request'[q] = "writing" => request[q] = "writing"  BY <1>b, <1>3
    <2>2. \A b \in gone : b # 0  BY <1>a, <1>b
    <2> QED  BY <1>3, <2>1, <2>2 DEF LoginInv, Inside
  <1>4. UNCHANGED <<credential, gone>> => Login!SignedOutForGood'  BY DEF LoginInv, Login!SignedOutForGood
  <1>5. CASE Login!Arrive(r) \/ Login!Declined(r) \/ Login!Exchange(r) \/ Login!Unwritten(r)
    <2>1. PICK to \in Stages : /\ request' = [request EXCEPT ![r] = to] /\ to # "writing" /\ request[r] # "draining"
                               /\ lastFailure' \in {lastFailure, current}
                               /\ UNCHANGED <<current, credential, fileMu, start, listening, signOut, gone>>
      BY <1>5 DEF Login!Arrive, Login!Declined, Login!Exchange, Login!Unwritten, Login!Moves, Login!Recorded
    <2>2. Inside' /\ Login!NoStrayListener'  BY <1>2, <1>3, <2>1
    <2> QED  BY <1>1, <1>4, <2>1, <2>2
  <1>6. CASE Login!Recheck(r)
    <2>1. /\ fileMu = <<>> /\ request[r] = "exchanged"
          /\ UNCHANGED <<current, lastFailure, credential, start, listening, signOut, gone>>
          /\ \/ current = a /\ request' = [request EXCEPT ![r] = "writing"] /\ fileMu' = r
             \/ request' = [request EXCEPT ![r] = "over"] /\ UNCHANGED fileMu
      BY <1>6 DEF Login!Recheck, Login!Moves, Login!StillCurrent, a
    <2>2. Login!NoStrayListener'  BY <1>2, <2>1
    <2>3. CASE request' = [request EXCEPT ![r] = "over"] /\ UNCHANGED fileMu
      <3>1. Inside'  BY <1>3, <2>1, <2>3
      <3> QED  BY <1>1, <1>4, <2>1, <2>2, <2>3, <3>1
    <2>4. CASE current = a /\ request' = [request EXCEPT ![r] = "writing"] /\ fileMu' = r
      <3>1. \A q \in Login!Requests : request[q] # "writing"  BY <1>a, <2>1 DEF LoginInv, Inside
      <3>2. \A q \in Login!Requests : request'[q] = "writing" => q = r  BY <1>b, <2>4, <3>1
      <3>3. a \notin gone /\ start[a] = "answered"  BY <1>a, <2>4 DEF LoginInv, InFlight, Inside
      <3>4. credential <= a
        <4>1. CASE credential = 0  BY <1>a, <4>1
        <4>2. CASE credential # 0  BY <1>a, <1>b, <2>4, <4>2 DEF LoginInv, InFlight, Inside
        <4> QED  BY <4>1, <4>2
      <3>5. signOut.at # "stopped"
        <4>1. <<>> # <<"logout">>  OBVIOUS
        <4> QED  BY <2>1, <4>1 DEF LoginInv, Inside
      <3>6. \A q \in Login!Requests : request'[q] = "writing" =>
                fileMu' = q /\ q[1] \notin gone' /\ credential' <= q[1] /\ start'[q[1]] = "answered"
        BY <2>1, <2>4, <3>2, <3>3, <3>4 DEF a
      <3>7. Inside'  BY <2>1, <3>5, <3>6 DEF LoginInv, Inside
      <3> QED  BY <1>1, <1>4, <2>1, <2>2, <2>4, <3>7
    <2> QED  BY <2>1, <2>3, <2>4
  <1>7. CASE Login!Store(r)
    <2>1. /\ fileMu' = <<>> /\ request[r] = "writing"
          /\ UNCHANGED <<current, lastFailure, start, listening, signOut, gone>>
          /\ \/ request' = [request EXCEPT ![r] = "stopping"] /\ credential' = a
             \/ request' = [request EXCEPT ![r] = "unwritten"] /\ UNCHANGED credential
      BY <1>7 DEF Login!Store, Login!Moves, a
    <2>2. fileMu = r /\ a \notin gone /\ start[a] = "answered"  BY <2>1 DEF LoginInv, Inside, a
    <2>3. \A q \in Login!Requests : request'[q] # "writing"
      BY <1>b, <2>1, <2>2 DEF LoginInv, Inside
    <2>4. signOut.at # "stopped"  BY <1>a, <2>2 DEF LoginInv, Inside
    <2>5. Inside'  BY <2>1, <2>2, <2>3, <2>4 DEF LoginInv, Inside
    <2>6. Login!SignedOutForGood'  BY <2>1, <2>2 DEF LoginInv, Login!SignedOutForGood
    <2>7. Login!NoStrayListener'  BY <1>2, <2>1
    <2> QED  BY <1>1, <2>1, <2>5, <2>6, <2>7
  <1>8. CASE Login!StopAttempt(r)
    <2>1. /\ request[r] = "stopping"
          /\ UNCHANGED <<lastFailure, credential, fileMu, start, listening, signOut, gone>>
          /\ \/ current = a /\ request' = [request EXCEPT ![r] = "draining"] /\ current' = 0
             \/ request' = [request EXCEPT ![r] = "over"] /\ UNCHANGED current
      BY <1>8 DEF Login!StopAttempt, Login!Moves, Login!NoAttempt, a
    <2>2. Inside'  BY <1>3, <2>1
    <2>3. Login!NoStrayListener'
      <3>1. CASE UNCHANGED current  BY <1>2, <2>1, <3>1
      <3>2. CASE current = a /\ request' = [request EXCEPT ![r] = "draining"]
        <4> SUFFICES ASSUME NEW b \in listening
                     PROVE  start[b] = "bound" \/ \E c \in Callbacks : request'[<<b, c>>] = "draining"
          BY <2>1 DEF Login!NoStrayListener
        <4>1. CASE b = a
          <5>1. request'[<<a, r[2]>>] = "draining"  BY <1>a, <1>b, <3>2
          <5> QED  BY <1>a, <4>1, <5>1
        <4>2. CASE b # a
          <5>1. ASSUME NEW c \in Callbacks, request[<<b, c>>] = "draining" PROVE request'[<<b, c>>] = "draining"
            <6>1. <<b, c>> \in Login!Requests  BY <1>b DEF Login!Requests
            <6> QED  BY <1>b, <3>2, <5>1, <6>1
          <5> QED  BY <3>2, <4>2, <5>1 DEF LoginInv, Login!NoStrayListener
        <4> QED  BY <4>1, <4>2
      <3> QED  BY <2>1, <3>1, <3>2
    <2> QED  BY <1>1, <1>4, <2>1, <2>2, <2>3
  <1>9. CASE Login!Drained(r)
    <2>1. /\ request' = [request EXCEPT ![r] = "over"] /\ listening' = listening \ {a}
          /\ UNCHANGED <<current, lastFailure, credential, fileMu, start, signOut, gone>>
      BY <1>9 DEF Login!Drained, Login!Moves, a
    <2>2. Inside'  BY <1>3, <2>1
    <2>3. Login!NoStrayListener'
      <3> SUFFICES ASSUME NEW b \in listening \ {a}
                   PROVE  \/ b = current \/ start[b] = "bound" \/ \E c \in Callbacks : request'[<<b, c>>] = "draining"
        BY <2>1 DEF Login!NoStrayListener
      <3>1. ASSUME NEW c \in Callbacks, request[<<b, c>>] = "draining" PROVE request'[<<b, c>>] = "draining"
        <4>1. <<b, c>> \in Login!Requests /\ <<b, c>> # r  BY <1>a, <1>b DEF Login!Requests
        <4> QED  BY <1>b, <2>1, <3>1, <4>1
      <3> QED  BY <3>1 DEF LoginInv, Login!NoStrayListener
    <2> QED  BY <1>1, <1>4, <2>1, <2>2, <2>3
  <1> QED  BY <1>5, <1>6, <1>7, <1>8, <1>9 DEF Login!Handling

\* Signing out and quitting.
LEMMA SignOutKeeps ==
  ASSUME LoginInv, Login!SignOut \/ Login!Delete \/ Login!Close PROVE LoginInv'
  <1>a. /\ \A b \in Login!Attempts : b \in Nat /\ b # 0 /\ b > 0
        /\ \A q \in Login!Requests : q[1] \in Login!Attempts /\ q # <<>> /\ q # <<"logout">>
    BY LoginNames
  <1>b. /\ current \in Login!Attempts \cup {0} /\ credential \in Login!Attempts \cup {0}
        /\ listening \subseteq Login!Attempts /\ gone \subseteq Login!Attempts
        /\ signOut \in [at : {"idle", "stopped"}, calls : 0 .. MaxSignOuts]
    BY DEF LoginInv, Signing, Login!TypeOK, Login!NoAttempt
  <1>1. ASSUME current' = 0, listening' = listening \ {current}, UNCHANGED <<start, lastFailure, request>>
        PROVE  InFlight' /\ Login!NoStrayListener' /\ Login!CleanSlate'
    <2>1. InFlight'  BY <1>1 DEF LoginInv, InFlight, Login!UnderWay
    <2>2. Login!NoStrayListener'  BY <1>1 DEF LoginInv, Login!NoStrayListener
    <2> QED  BY <1>1, <2>1, <2>2 DEF Login!CleanSlate, Login!NoAttempt
  <1>2. CASE Login!SignOut
    <2>1. /\ signOut.calls < MaxSignOuts /\ fileMu = <<>> /\ fileMu' = <<"logout">>
          /\ current' = 0 /\ listening' = listening \ {current}
          /\ signOut' = [at |-> "stopped", calls |-> signOut.calls + 1]
          /\ UNCHANGED <<lastFailure, credential, start, request, gone>>
      BY <1>2 DEF Login!SignOut, Login!StopCurrent, Login!NoAttempt
    <2>2. signOut' \in [at : {"idle", "stopped"}, calls : 0 .. MaxSignOuts]  BY <1>b, <2>1, LoginLimits
    <2>3. Signing'  BY <2>1, <2>2 DEF LoginInv, Signing, Login!TypeOK, Login!NoAttempt
    <2>4. \A q \in Login!Requests : request[q] # "writing"  BY <1>a, <2>1 DEF LoginInv, Inside
    <2>5. Inside'  BY <1>a, <1>b, <2>1, <2>4 DEF LoginInv, Inside
    <2> QED  BY <1>1, <2>1, <2>3, <2>5 DEF LoginInv, Login!SignedOutForGood
  <1>3. CASE Login!Delete
    <2>1. /\ signOut.at = "stopped" /\ signOut' = [signOut EXCEPT !.at = "idle"] /\ fileMu' = <<>>
          /\ \/ /\ credential' = 0
                /\ gone' = gone \cup {b \in Login!Attempts : start[b] = "answered" /\ b # current}
             \/ UNCHANGED <<credential, gone>>
          /\ UNCHANGED <<current, lastFailure, start, listening, request>>
      BY <1>3 DEF Login!Delete, Login!NoAttempt
    <2>2. signOut' \in [at : {"idle", "stopped"}, calls : 0 .. MaxSignOuts] /\ signOut'.at = "idle"  BY <1>b, <2>1
    <2>3. \A q \in Login!Requests : request[q] # "writing"  BY <1>a, <2>1 DEF LoginInv, Inside
    <2>4. Signing'  BY <2>1, <2>2 DEF LoginInv, Signing, Login!TypeOK, Login!NoAttempt
    <2>5. InFlight' /\ Login!NoStrayListener' /\ Login!CleanSlate'
      BY <2>1 DEF LoginInv, InFlight, Login!UnderWay, Login!NoStrayListener, Login!CleanSlate
    <2>6. Inside'  BY <2>1, <2>2, <2>3 DEF LoginInv, Inside
    <2>7. Login!SignedOutForGood'  BY <1>a, <1>b, <2>1 DEF LoginInv, Login!SignedOutForGood
    <2> QED  BY <2>4, <2>5, <2>6, <2>7 DEF LoginInv
  <1>4. CASE Login!Close
    <2>1. /\ current' = 0 /\ listening' = listening \ {current}
          /\ UNCHANGED <<lastFailure, credential, fileMu, start, request, signOut, gone>>
      BY <1>4 DEF Login!Close, Login!StopCurrent, Login!NoAttempt
    <2>2. Signing'  BY <2>1 DEF LoginInv, Signing, Login!TypeOK, Login!NoAttempt
    <2>3. Inside'  BY <1>a, <1>b, <2>1 DEF LoginInv, Inside
    <2> QED  BY <1>1, <2>1, <2>2, <2>3 DEF LoginInv, Login!SignedOutForGood
  <1> QED  BY <1>2, <1>3, <1>4

\* Every step keeps it, and so does one of the other part.
LEMMA LoginStays == LoginInv /\ [Login!Next]_loginVars => LoginInv'
  <1> SUFFICES ASSUME LoginInv, [Login!Next]_loginVars PROVE LoginInv'  OBVIOUS
  <1>1. CASE Login!Next  BY <1>1, StartingKeeps, CallbackKeeps, SignOutKeeps DEF Login!Next
  <1>2. CASE UNCHANGED loginVars
    BY <1>2 DEF loginVars, LoginInv, Signing, InFlight, Inside, Login!TypeOK, Login!UnderWay,
                Login!SignedOutForGood, Login!CleanSlate, Login!NoStrayListener
  <1> QED  BY <1>1, <1>2

\* The credential that is put over another is of a later attempt.
LEMMA CredentialsRise ==
  ASSUME LoginInv, [Login!Next]_loginVars PROVE credential' # 0 => credential' >= credential
  <1>1. credential \in Login!Attempts \cup {0} /\ \A b \in Login!Attempts : b \in Nat
    BY LoginNames DEF LoginInv, Signing, Login!TypeOK, Login!NoAttempt
  <1>2. ASSUME NEW r \in Login!Requests, Login!Store(r) PROVE credential' = credential \/ credential <= credential'
    BY <1>2 DEF Login!Store, Login!Moves, LoginInv, Inside
  <1>3. credential' \in {credential, 0} \/ \E r \in Login!Requests : Login!Store(r)
    <2>1. CASE \E a \in Login!Attempts : Login!Begin(a) \/ Login!Starting(a) \/ Login!WindowCloses(a)
      BY <2>1 DEF Login!Begin, Login!Starting, Login!Clear, Login!Listen, Login!Publish, Login!WindowCloses
    <2>2. CASE \E r \in Login!Requests : Login!Arrive(r) \/ Login!Handling(r)
      BY <2>2 DEF Login!Arrive, Login!Handling, Login!Declined, Login!Exchange, Login!Recheck, Login!Unwritten,
                  Login!StopAttempt, Login!Drained
    <2>3. CASE Login!SignOut \/ Login!Delete \/ Login!Close
      BY <2>3 DEF Login!SignOut, Login!Delete, Login!Close, Login!NoAttempt
    <2>4. CASE UNCHANGED loginVars  BY <2>4 DEF loginVars
    <2> QED  BY <2>1, <2>2, <2>3, <2>4 DEF Login!Next
  <1> QED  BY <1>1, <1>2, <1>3

\* A sign-out lasts until the next sign-in, the newest attempt wins, a new attempt
\* starts clean and no abandoned one holds a port, for any number of attempts,
\* callbacks and sign-outs (login.go: Start, storeCredential, Logout, recordAttemptFailure).
THEOREM SignInIsKept == Parts => SignInHolds
  <1>1. Begins => LoginInv  BY LoginBegins DEF Begins
  <1>2. [Turn(Next) \/ SignIn(Login!Next)]_everything => [Login!Next]_loginVars
    BY DEF Turn, SignIn, everything
  <1>3. LoginInv /\ [Turn(Next) \/ SignIn(Login!Next)]_everything => LoginInv'  BY <1>2, LoginStays
  <1>4. LoginInv => Login!TypeOK /\ Login!SignedOutForGood /\ Login!CleanSlate /\ Login!NoStrayListener
    BY DEF LoginInv, Signing
  <1>5. LoginInv /\ [Turn(Next) \/ SignIn(Login!Next)]_everything =>
            [credential' # Login!NoAttempt => credential' >= credential]_(Login!vars)
    BY <1>2, CredentialsRise DEF Login!NoAttempt
  <1> QED  BY <1>1, <1>3, <1>4, <1>5, PTL DEF Parts, SignInHolds, Login!NewestWins

-----------------------------------------------------------------------------
(* The inbox.  Its invariant speaks of the rows as the call under way has them *)
(* (N), the records there are (o), the changes that can be undone (U), the     *)
(* items a call was cut off at (T), what the writer has deleted (D), and how   *)
(* many ids (g) and batches (n) there were.                                    *)
InboxRow == [status : Inbox!Statuses, made : Nat, batch : Nat]
InboxThing == [of : Suggested, by : {"accept", "loose", "match", "clash"}]
InboxLive(r) == r.status \in {"accepted", "reverting"}
InboxOutline(o, g) == o \in [DOMAIN o -> InboxThing] /\ DOMAIN o \subseteq 1 .. g

InboxTypes(N, o, U, g, n) ==
    /\ N \in [Suggested -> InboxRow] /\ g \in Nat /\ n \in Nat /\ Len(U) \in Nat
    /\ \A i \in Suggested : N[i].made <= g /\ N[i].batch <= n
    /\ InboxOutline(o, g)
    /\ \A k \in 1 .. Len(U) : U[k].batch \in 0 .. n /\ InboxOutline(U[k].before, g)

(* A row names a record exactly if its item is accepted or being taken back.   *)
InboxRows(N) == \A i \in Suggested :
    /\ ~InboxLive(N[i]) => N[i].made = 0 /\ N[i].batch = 0
    /\ InboxLive(N[i]) => N[i].made # 0
    /\ N[i].status = "reverting" => N[i].batch # 0

(* Items of a batch go together, and a beat in it goes with its scene.         *)
InboxBatches(N) ==
    /\ \A i, j \in Suggested : N[i].batch = N[j].batch /\ N[i].batch # 0 => N[i].status = N[j].status
    /\ \A i \in Suggested : N[i].batch # 0 /\ ~Inbox!Scene(i) =>
            Inbox!Beat(i) /\ Needs[i] \in Suggested /\ Inbox!Scene(Needs[i]) /\ N[Needs[i]].batch = N[i].batch

(* A batch is in the window once, and no outline from before it has what it    *)
(* made.                                                                       *)
InboxWindow(N, U) ==
    /\ \A k, l \in 1 .. Len(U) : k # l /\ U[k].batch # 0 => U[k].batch # U[l].batch
    /\ \A k \in 1 .. Len(U) : \A t \in DOMAIN U[k].before : Inbox!Scene(U[k].before[t].of)
    /\ \A k, l \in 1 .. Len(U), i \in Suggested :
            k <= l /\ U[l].batch = N[i].batch /\ N[i].batch # 0 => N[i].made \notin DOMAIN U[k].before

(* What was a scene before one is a scene if it is still there.                *)
InboxSorts(o, U) == \A k \in 1 .. Len(U) : \A t \in DOMAIN U[k].before \cap DOMAIN o : Inbox!Scene(o[t].of)

(* What an outline has of an item is what its row names.                       *)
InboxNamed(N, T, o) ==
    /\ \A i \in Suggested : N[i].made \in DOMAIN o => o[N[i].made].of = i
    /\ \A t \in DOMAIN o : o[t].by \in {"accept", "loose"} /\ o[t].of \notin T => t = N[o[t].of].made

(* A beat has its scene's batch, so that the two are taken back together.      *)
InboxBeats(N, T, o) == \A t \in DOMAIN o :
    Inbox!Beat(o[t].of) /\ o[t].by = "accept" /\ o[t].of \notin T /\ Needs[o[t].of] \in Suggested \ T =>
        N[o[t].of].batch = N[Needs[o[t].of]].batch /\ InboxLive(N[Needs[o[t].of]])

(* Nothing of the scenes of a batch is left, nor can come back.                *)
InboxGone(N, o, U, b) == \A i \in Suggested : Inbox!Scene(i) /\ N[i].batch = b =>
    N[i].made \notin DOMAIN o /\ \A k \in 1 .. Len(U) : N[i].made \notin DOMAIN U[k].before

(* What an item has made is there, unless the writer has deleted it, and would *)
(* be after an undo of another batch.                                          *)
InboxStands(N, o, U, D, i) ==
    /\ N[i].made \in DOMAIN o \cup D
    /\ Inbox!Scene(i) => \A k \in 1 .. Len(U) :
        \/ N[i].made \in DOMAIN U[k].before \cup D
        \/ \E l \in k .. Len(U) : U[l].batch = N[i].batch /\ N[i].batch # 0

InboxCovered(N, b) == {i \in Suggested : N[i].batch = b}

(* An accepted item stands; a batch that is being taken back is still there,   *)
(* all of it, or its scenes are gone.                                          *)
InboxStanding(N, o, U, T, D) ==
    /\ \A i \in Suggested \ T : N[i].status = "accepted" => InboxStands(N, o, U, D, i)
    /\ \A i \in Suggested : N[i].status = "reverting" =>
            \/ InboxGone(N, o, U, N[i].batch)
            \/ \A j \in InboxCovered(N, N[i].batch) \ T : InboxStands(N, o, U, D, j)

InboxWorld(N, o, U, T, D, g, n) ==
    /\ InboxTypes(N, o, U, g, n) /\ InboxRows(N) /\ InboxBatches(N) /\ InboxWindow(N, U) /\ InboxSorts(o, U)
    /\ InboxNamed(N, T, o) /\ (\A k \in 1 .. Len(U) : InboxNamed(N, T, U[k].before))
    /\ InboxBeats(N, T, o) /\ InboxStanding(N, o, U, T, D)

LEMMA InboxConstants ==
    /\ Asker # "engine" /\ NoItem \notin Suggested
    /\ \A i \in Suggested : Sort[i] \in {"scene", "beat", "person"}
    /\ \A i \in Suggested : Needs[i] # NoItem => Needs[i] \in Suggested /\ ~Inbox!Beat(Needs[i])
    /\ \A i \in Suggested : Inbox!Scene(i) /\ Needs[i] # NoItem => Inbox!Scene(Needs[i])
    /\ \A i : Inbox!Scene(i) <=> Sort[i] = "scene"
    /\ \A i : Inbox!Beat(i) <=> Sort[i] = "beat"
    /\ MaxUndoable \in Nat /\ MaxThings \in Nat
BY InboxAssumption DEF Inbox!LetIn, Inbox!In, Inbox!Scene, Inbox!Beat, Inbox!Engine

LEMMA InboxOutlines ==
    ASSUME NEW v, NEW h \in Nat, InboxOutline(v, h), NEW t \in DOMAIN v
    PROVE  t \in Nat /\ t # 0 /\ t <= h /\ v[t].of \in Suggested /\ v[t].by \in {"accept", "loose", "match", "clash"}
<1>1. v[t] \in InboxThing
  BY DEF InboxOutline
<1> QED
  BY <1>1 DEF InboxOutline, InboxThing

-----------------------------------------------------------------------------
(* A call is cut off: of an item it was at, the row says less than it did.     *)
LEMMA InboxTear ==
    ASSUME NEW N, NEW o, NEW U, NEW T, NEW D, NEW g, NEW n, InboxWorld(N, o, U, T, D, g, n),
           NEW M \in [Suggested -> InboxRow], NEW S, T \subseteq S,
           \A i \in Suggested : i \notin S => M[i] = N[i],
           \A i \in Suggested : M[i] # N[i] =>
                /\ M[i].batch = 0 /\ M[i].status # "reverting"
                /\ InboxLive(M[i]) => M[i].made = N[i].made /\ M[i].made # 0
                /\ ~InboxLive(M[i]) => M[i].made = 0
                /\ \A j \in Suggested : Inbox!Beat(j) /\ Needs[j] = i => M[j].batch = 0
    PROVE  InboxWorld(M, o, U, S, D, g, n)
<1>0. /\ InboxTypes(N, o, U, g, n)
      /\ \A i \in Suggested : M[i].made = N[i].made \/ M[i].made = 0
      /\ \A i \in Suggested : M[i].batch = N[i].batch \/ M[i].batch = 0
  BY DEF InboxWorld
<1> USE DEF InboxRow
<1>1. InboxTypes(M, o, U, g, n)
  BY <1>0 DEF InboxTypes
<1>2. InboxRows(M)
  BY DEF InboxWorld, InboxRows, InboxTypes, InboxLive
<1>3. InboxBatches(M)
  <2>1. InboxBatches(N)
    BY DEF InboxWorld
  <2>2. \A i \in Suggested : M[i].batch # 0 => M[i] = N[i]
    OBVIOUS
  <2>3. ASSUME NEW i \in Suggested, M[i].batch # 0, ~Inbox!Scene(i)
        PROVE  Inbox!Beat(i) /\ Needs[i] \in Suggested /\ Inbox!Scene(Needs[i]) /\ M[Needs[i]].batch = M[i].batch
    BY <2>1, <2>2, <2>3 DEF InboxBatches
  <2> QED
    BY <2>1, <2>2, <2>3 DEF InboxBatches
<1>4. InboxWindow(M, U)
  BY DEF InboxWorld, InboxWindow, InboxTypes
<1>5. ASSUME NEW v, NEW h, h \in Nat, InboxOutline(v, h), InboxNamed(N, T, v)
      PROVE  InboxNamed(M, S, v)
  <2>1. ASSUME NEW i \in Suggested, M[i].made \in DOMAIN v  PROVE v[M[i].made].of = i
    BY <1>5, <2>1, InboxOutlines DEF InboxNamed
  <2>2. ASSUME NEW t \in DOMAIN v, v[t].by \in {"accept", "loose"}, v[t].of \notin S  PROVE t = M[v[t].of].made
    BY <1>5, <2>2, InboxOutlines DEF InboxNamed
  <2> QED
    BY <2>1, <2>2 DEF InboxNamed
<1>6. InboxBeats(M, S, o)
  BY InboxConstants DEF InboxWorld, InboxBeats, InboxTypes, InboxOutline, InboxThing
<1>7. \A b \in Nat : b # 0 /\ InboxGone(N, o, U, b) => InboxGone(M, o, U, b)
  BY DEF InboxGone
<1>8. \A i \in Suggested : i \notin S /\ InboxStands(N, o, U, D, i) => InboxStands(M, o, U, D, i)
  BY DEF InboxStands
<1>9. InboxStanding(M, o, U, S, D)
  BY <1>7, <1>8 DEF InboxWorld, InboxStanding, InboxTypes, InboxRows, InboxCovered
<1> QED
  BY <1>1, <1>2, <1>3, <1>4, <1>5, <1>6, <1>9 DEF InboxWorld, InboxTypes

(* The engine stops: nothing can be undone by the window any more.             *)
LEMMA InboxForgets ==
    ASSUME NEW N, NEW o, NEW U, NEW T, NEW D, NEW g, NEW n, InboxWorld(N, o, U, T, D, g, n)
    PROVE  InboxWorld(N, o, <<>>, T, D, g, n)
<1>1. \A b \in Nat : InboxGone(N, o, U, b) => InboxGone(N, o, <<>>, b)
  BY DEF InboxGone
<1>2. \A i \in Suggested : InboxStands(N, o, U, D, i) => InboxStands(N, o, <<>>, D, i)
  BY DEF InboxStands
<1>3. InboxStanding(N, o, <<>>, T, D)
  BY <1>1, <1>2 DEF InboxWorld, InboxStanding, InboxTypes, InboxRow, InboxCovered
<1> QED
  BY <1>3 DEF InboxWorld, InboxTypes, InboxWindow, InboxSorts

(* What the writer deletes stands no more, and that is no news.                *)
LEMMA InboxDrops ==
    ASSUME NEW N, NEW o, NEW U, NEW T, NEW D, NEW g, NEW n, InboxWorld(N, o, U, T, D, g, n),
           NEW S, NEW E, E = D \cup S, NEW p, p = [t \in DOMAIN o \ S |-> o[t]]
    PROVE  /\ InboxWorld(N, p, U, T, E, g, n)
           /\ \A b \in Nat : InboxGone(N, o, U, b) => InboxGone(N, p, U, b)
           /\ \A i \in Suggested : InboxStands(N, o, U, D, i) => InboxStands(N, p, U, E, i)
<1>1. DOMAIN p = DOMAIN o \ S /\ \A t \in DOMAIN p : t \in DOMAIN o /\ p[t] = o[t]
  OBVIOUS
<1>2. \A b \in Nat : InboxGone(N, o, U, b) => InboxGone(N, p, U, b)
  BY <1>1 DEF InboxGone
<1>3. \A i \in Suggested : InboxStands(N, o, U, D, i) => InboxStands(N, p, U, E, i)
  BY <1>1 DEF InboxStands
<1>4. InboxOutline(p, g)
  BY <1>1 DEF InboxWorld, InboxTypes, InboxOutline
<1>5. InboxNamed(N, T, p)
  BY <1>1 DEF InboxWorld, InboxNamed
<1>6. InboxBeats(N, T, p)
  BY <1>1 DEF InboxWorld, InboxBeats
<1>7. InboxStanding(N, p, U, T, E)
  <2>1. \A i \in Suggested : N[i].batch \in Nat
    BY DEF InboxWorld, InboxTypes, InboxRow
  <2> QED
    BY <1>2, <1>3, <2>1 DEF InboxWorld, InboxStanding, InboxCovered
<1>8. InboxSorts(p, U)
  BY <1>1 DEF InboxWorld, InboxSorts
<1> QED
  BY <1>2, <1>3, <1>4, <1>5, <1>6, <1>7, <1>8 DEF InboxWorld, InboxTypes

(* The beats of a batch go last, once its scenes are gone.                     *)
LEMMA InboxDeletes ==
    ASSUME NEW N, NEW o, NEW U, NEW T, NEW D, NEW g, NEW n, InboxWorld(N, o, U, T, D, g, n),
           NEW i \in Suggested, Inbox!Beat(i), N[i].status = "reverting", InboxGone(N, o, U, N[i].batch),
           NEW p, p = [t \in DOMAIN o \ {N[i].made} |-> o[t]]
    PROVE  /\ InboxWorld(N, p, U, T, D, g, n)
           /\ \A b \in Nat : InboxGone(N, o, U, b) => InboxGone(N, p, U, b)
<1>1. DOMAIN p = DOMAIN o \ {N[i].made} /\ \A t \in DOMAIN p : t \in DOMAIN o /\ p[t] = o[t]
  OBVIOUS
<1>2. \A b \in Nat : InboxGone(N, o, U, b) => InboxGone(N, p, U, b)
  BY <1>1 DEF InboxGone
<1>3. \A j \in Suggested : j # i /\ InboxStands(N, o, U, D, j) => InboxStands(N, p, U, D, j)
  BY <1>1 DEF InboxStands, InboxWorld, InboxNamed
<1>4. InboxOutline(p, g)
  BY <1>1 DEF InboxWorld, InboxTypes, InboxOutline
<1>5. InboxNamed(N, T, p)
  BY <1>1 DEF InboxWorld, InboxNamed
<1>6. InboxBeats(N, T, p)
  BY <1>1 DEF InboxWorld, InboxBeats
<1>7. InboxStanding(N, p, U, T, D)
  <2>1. \A j \in Suggested : N[j].batch \in Nat
    BY DEF InboxWorld, InboxTypes, InboxRow
  <2>2. ASSUME NEW j \in Suggested, N[j].status = "reverting"
        PROVE  InboxGone(N, p, U, N[j].batch) \/ \A k \in InboxCovered(N, N[j].batch) \ T : InboxStands(N, p, U, D, k)
    <3>1. CASE N[j].batch = N[i].batch
      BY <1>2, <2>1, <3>1
    <3>2. CASE N[j].batch # N[i].batch
      BY <1>2, <1>3, <2>1, <2>2, <3>2 DEF InboxWorld, InboxStanding, InboxCovered
    <3> QED
      BY <3>1, <3>2
  <2>3. ASSUME NEW j \in Suggested \ T, N[j].status = "accepted"  PROVE InboxStands(N, p, U, D, j)
    BY <1>3, <2>3 DEF InboxWorld, InboxStanding
  <2> QED
    BY <2>2, <2>3 DEF InboxStanding
<1>8. InboxSorts(p, U)
  BY <1>1 DEF InboxWorld, InboxSorts
<1> QED
  BY <1>2, <1>4, <1>5, <1>6, <1>7, <1>8 DEF InboxWorld, InboxTypes

(* The writer makes a record, which no row names.                              *)
LEMMA InboxNames ==
    ASSUME NEW N, NEW o, NEW U, NEW T, NEW D, NEW g, NEW n, InboxWorld(N, o, U, T, D, g, n),
           NEW r \in InboxThing, r.by \in {"match", "clash"},
           NEW p, p = [t \in DOMAIN o \cup {g + 1} |-> IF t = g + 1 THEN r ELSE o[t]]
    PROVE  /\ InboxWorld(N, p, U, T, D, g + 1, n)
           /\ \A b \in Nat : InboxGone(N, o, U, b) => InboxGone(N, p, U, b)
           /\ \A i \in Suggested : InboxStands(N, o, U, D, i) => InboxStands(N, p, U, D, i)
<1>1. /\ DOMAIN p = DOMAIN o \cup {g + 1} /\ p[g + 1] = r
      /\ \A t \in DOMAIN o : t # g + 1 /\ t \in DOMAIN p /\ p[t] = o[t]
  BY DEF InboxWorld, InboxTypes, InboxOutline
<1>2. \A i \in Suggested : N[i].made # g + 1
  BY DEF InboxWorld, InboxTypes, InboxRow
<1>3. \A b \in Nat : InboxGone(N, o, U, b) => InboxGone(N, p, U, b)
  BY <1>1, <1>2 DEF InboxGone
<1>4. \A i \in Suggested : InboxStands(N, o, U, D, i) => InboxStands(N, p, U, D, i)
  BY <1>1 DEF InboxStands
<1>5. g \in Nat /\ \A v : InboxOutline(v, g) => InboxOutline(v, g + 1)
  BY DEF InboxWorld, InboxTypes, InboxOutline
<1>6. InboxOutline(p, g + 1)
  BY <1>1, <1>5 DEF InboxWorld, InboxTypes, InboxOutline
<1>7. InboxTypes(N, p, U, g + 1, n)
  BY <1>5, <1>6 DEF InboxWorld, InboxTypes, InboxRow
<1>8. InboxNamed(N, T, p)
  BY <1>1, <1>2 DEF InboxWorld, InboxNamed
<1>9. InboxBeats(N, T, p)
  BY <1>1 DEF InboxWorld, InboxBeats
<1>10. InboxStanding(N, p, U, T, D)
  <2>1. \A j \in Suggested : N[j].batch \in Nat
    BY DEF InboxWorld, InboxTypes, InboxRow
  <2> QED
    BY <1>3, <1>4, <2>1 DEF InboxWorld, InboxStanding, InboxCovered
<1>11. InboxSorts(p, U)
  BY <1>1 DEF InboxWorld, InboxSorts, InboxTypes, InboxOutline
<1> QED
  BY <1>3, <1>4, <1>7, <1>8, <1>9, <1>10, <1>11 DEF InboxWorld

-----------------------------------------------------------------------------
(* The outline is changed: the window has it as it was.                        *)
LEMMA InboxAppends ==
    ASSUME NEW N, NEW o, NEW U, NEW T, NEW D, NEW g, NEW n, InboxWorld(N, o, U, T, D, g, n),
           NEW V, NEW m, NEW h \in Nat, n <= h, (m = 0 /\ h = n) \/ (m = n + 1 /\ h = n + 1), Len(V) = Len(U) + 1,
           \A k \in 1 .. Len(U) : V[k].batch = U[k].batch /\ V[k].before = U[k].before,
           V[Len(V)].batch = m, InboxOutline(V[Len(V)].before, g),
           DOMAIN V[Len(V)].before = {t \in DOMAIN o : Inbox!Scene(o[t].of)},
           \A t \in DOMAIN V[Len(V)].before : V[Len(V)].before[t] = o[t]
    PROVE  /\ InboxWorld(N, o, V, T, D, g, h)
           /\ \A b \in Nat : InboxGone(N, o, U, b) => InboxGone(N, o, V, b)
           /\ \A i \in Suggested : InboxStands(N, o, U, D, i) => InboxStands(N, o, V, D, i)
<1> DEFINE L == Len(V)
           v == V[L].before
<1>1. DOMAIN v = {t \in DOMAIN o : Inbox!Scene(o[t].of)} /\ (\A t \in DOMAIN v : v[t] = o[t]) /\ InboxOutline(v, g)
  OBVIOUS
<1>2. /\ L \in Nat /\ L \in 1 .. L /\ n \in Nat /\ m \in Nat /\ m <= h
      /\ \A k \in 1 .. L : k = L \/ k \in 1 .. Len(U)
      /\ \A k \in 1 .. Len(U) : k \in 1 .. L /\ k # L /\ V[k].before = U[k].before /\ V[k].batch = U[k].batch
  BY DEF InboxWorld, InboxTypes
<1> HIDE DEF L, v
<1>d. L = Len(V) /\ v = V[L].before /\ V[L].batch = m
  BY DEF L, v
<1>3. \A b \in Nat : InboxGone(N, o, U, b) => InboxGone(N, o, V, b)
  BY <1>1, <1>2, <1>d DEF InboxGone
<1>4. ASSUME NEW i \in Suggested, InboxStands(N, o, U, D, i)  PROVE InboxStands(N, o, V, D, i)
  <2>1. Inbox!Scene(i) /\ N[i].made \in DOMAIN o => N[i].made \in DOMAIN v
    BY <1>1 DEF InboxWorld, InboxNamed
  <2>2. ASSUME NEW k \in 1 .. Len(V), Inbox!Scene(i)
        PROVE  \/ N[i].made \in DOMAIN V[k].before \cup D
               \/ \E l \in k .. Len(V) : V[l].batch = N[i].batch /\ N[i].batch # 0
    <3>1. CASE k = L
      BY <1>4, <2>1, <2>2, <3>1, <1>d DEF InboxStands
    <3>2. CASE k \in 1 .. Len(U)
      <4>1. CASE N[i].made \in DOMAIN U[k].before \cup D
        BY <1>2, <3>2, <4>1
      <4>2. CASE \E l \in k .. Len(U) : U[l].batch = N[i].batch /\ N[i].batch # 0
        <5>1. PICK l \in k .. Len(U) : U[l].batch = N[i].batch /\ N[i].batch # 0
          BY <4>2
        <5>2. l \in 1 .. Len(U) /\ l \in k .. Len(V)
          BY <5>1, <3>2, <1>2, <1>d
        <5> QED
          BY <5>1, <5>2, <1>2
      <4> QED
        BY <1>4, <2>2, <3>2, <4>1, <4>2 DEF InboxStands
    <3> QED
      BY <1>2, <1>d, <3>1, <3>2
  <2> QED
    BY <1>4, <2>2 DEF InboxStands
<1>5. InboxTypes(N, o, V, g, h)
  <2>2. \A k \in 1 .. Len(V) : V[k].batch \in 0 .. h /\ InboxOutline(V[k].before, g)
    BY <1>1, <1>2, <1>d DEF InboxWorld, InboxTypes
  <2>3. \A i \in Suggested : N[i].made <= g /\ N[i].batch <= h
    BY <1>2 DEF InboxWorld, InboxTypes, InboxRow
  <2> QED
    BY <1>2, <1>d, <2>2, <2>3 DEF InboxWorld, InboxTypes
<1>6. InboxWindow(N, V)
  <2>1. \A i \in Suggested : N[i].batch # 0 => N[i].batch # m
    BY <1>2 DEF InboxWorld, InboxTypes, InboxRow
  <2>2. \A k \in 1 .. Len(U) : U[k].batch # 0 => U[k].batch # m
    BY <1>2 DEF InboxWorld, InboxTypes
  <2>3. \A k, l \in 1 .. Len(V) : k # l /\ V[k].batch # 0 => V[k].batch # V[l].batch
    BY <1>2, <1>d, <2>2 DEF InboxWorld, InboxWindow
  <2>4. \A k \in 1 .. Len(V) : \A t \in DOMAIN V[k].before : Inbox!Scene(V[k].before[t].of)
    BY <1>1, <1>2, <1>d DEF InboxWorld, InboxWindow
  <2>5. ASSUME NEW k \in 1 .. Len(V), NEW l \in 1 .. Len(V), NEW i \in Suggested, k <= l,
               V[l].batch = N[i].batch, N[i].batch # 0
        PROVE  N[i].made \notin DOMAIN V[k].before
    <3>1. l \in 1 .. Len(U) /\ k \in 1 .. Len(U)
      BY <1>2, <1>d, <2>1, <2>5
    <3> QED
      BY <1>2, <2>5, <3>1 DEF InboxWorld, InboxWindow
  <2> QED
    BY <2>3, <2>4, <2>5 DEF InboxWindow
<1>7. \A k \in 1 .. Len(V) : InboxNamed(N, T, V[k].before)
  <2>1. InboxNamed(N, T, v)
    BY <1>1 DEF InboxWorld, InboxNamed
  <2> QED
    BY <1>2, <1>d, <2>1 DEF InboxWorld
<1>8. InboxSorts(o, V)
  BY <1>1, <1>2, <1>d DEF InboxWorld, InboxSorts
<1>9. InboxStanding(N, o, V, T, D)
  <2>1. \A j \in Suggested : N[j].batch \in Nat
    BY DEF InboxWorld, InboxTypes, InboxRow
  <2> QED
    BY <1>3, <1>4, <2>1 DEF InboxWorld, InboxStanding, InboxCovered
<1> QED
  BY <1>3, <1>4, <1>5, <1>6, <1>7, <1>8, <1>9 DEF InboxWorld

(* Scenes are accepted, in the batch the window has last.                      *)
LEMMA InboxAccepts ==
    ASSUME NEW N, NEW o, NEW U, NEW T, NEW D, NEW g, NEW n, InboxWorld(N, o, U, T, D, g, n),
           NEW S, S \subseteq Suggested, \A i \in S : Inbox!Scene(i) /\ ~InboxLive(N[i]),
           NEW b \in 1 .. n, \A i \in Suggested : N[i].batch # b, Len(U) # 0, U[Len(U)].batch = b,
           NEW h \in Nat, g <= h, NEW M \in [Suggested -> InboxRow], \A i \in Suggested \ S : M[i] = N[i],
           \A i \in S : M[i].status = "accepted" /\ M[i].batch = b /\ M[i].made \in g + 1 .. h,
           NEW p, InboxOutline(p, h), DOMAIN p = DOMAIN o \cup {M[i].made : i \in S}, \A t \in DOMAIN o : p[t] = o[t],
           \A i \in S : p[M[i].made].of = i /\ p[M[i].made].by = "accept"
    PROVE  InboxWorld(M, p, U, T, D, h, n)
<1>2. /\ g \in Nat /\ n \in Nat /\ Len(U) \in Nat /\ Len(U) \in 1 .. Len(U) /\ b # 0 /\ b \in Nat
      /\ \A i \in S : i \in Suggested /\ N[i].made = 0 /\ N[i].batch = 0 /\ M[i].made \in Nat /\ M[i].made > g /\ M[i].made <= h
      /\ \A i \in Suggested : N[i] \in InboxRow /\ N[i].made \in Nat /\ N[i].batch \in Nat /\ N[i].made <= g
  BY DEF InboxWorld, InboxTypes, InboxRows, InboxRow
<1>3. \A t \in DOMAIN o : t \in Nat /\ t # 0 /\ t <= g /\ o[t].of \in Suggested
  BY <1>2, InboxOutlines DEF InboxWorld, InboxTypes
<1>4. \A t \in DOMAIN p : (t \in DOMAIN o /\ p[t] = o[t]) \/ \E i \in S : t = M[i].made /\ p[t].of = i /\ p[t].by = "accept"
  OBVIOUS
<1>5. \A k \in 1 .. Len(U) : InboxOutline(U[k].before, g) /\ \A t \in DOMAIN U[k].before : t \in Nat /\ t # 0 /\ t <= g
  BY <1>2, InboxOutlines DEF InboxWorld, InboxTypes
<1>6. InboxTypes(M, p, U, h, n)
  <2>1. ASSUME NEW i \in Suggested  PROVE M[i].made <= h /\ M[i].batch <= n
    <3>1. CASE i \in S
      BY <1>2, <3>1
    <3>2. CASE i \notin S
      BY <1>2, <3>2 DEF InboxWorld, InboxTypes
    <3> QED
      BY <3>1, <3>2
  <2>2. \A k \in 1 .. Len(U) : U[k].batch \in 0 .. n /\ InboxOutline(U[k].before, h)
    BY <1>2 DEF InboxWorld, InboxTypes, InboxOutline
  <2> QED
    BY <1>2, <2>1, <2>2 DEF InboxTypes
<1>7. InboxRows(M)
  <2>1. ASSUME NEW i \in Suggested
        PROVE  /\ ~InboxLive(M[i]) => M[i].made = 0 /\ M[i].batch = 0
               /\ InboxLive(M[i]) => M[i].made # 0
               /\ M[i].status = "reverting" => M[i].batch # 0
    <3>1. CASE i \in S
      BY <1>2, <3>1 DEF InboxLive
    <3>2. CASE i \notin S
      BY <3>2 DEF InboxWorld, InboxRows
    <3> QED
      BY <3>1, <3>2
  <2> QED
    BY <2>1 DEF InboxRows
<1>8. InboxBatches(M)
  <2>1. ASSUME NEW i \in Suggested, NEW j \in Suggested, M[i].batch = M[j].batch, M[i].batch # 0
        PROVE  M[i].status = M[j].status
    <3>1. M[i].batch = b <=> i \in S
      OBVIOUS
    <3>2. M[j].batch = b <=> j \in S
      OBVIOUS
    <3> QED
      BY <2>1, <3>1, <3>2 DEF InboxWorld, InboxBatches
  <2>2. ASSUME NEW i \in Suggested, M[i].batch # 0, ~Inbox!Scene(i)
        PROVE  Inbox!Beat(i) /\ Needs[i] \in Suggested /\ Inbox!Scene(Needs[i]) /\ M[Needs[i]].batch = M[i].batch
    <3>1. i \notin S /\ M[i] = N[i]
      BY <2>2
    <3>2. Inbox!Beat(i) /\ Needs[i] \in Suggested /\ Inbox!Scene(Needs[i]) /\ N[Needs[i]].batch = N[i].batch
      BY <2>2, <3>1 DEF InboxWorld, InboxBatches
    <3> QED
      BY <1>2, <2>2, <3>1, <3>2
  <2> QED
    BY <2>1, <2>2 DEF InboxBatches
<1>9. InboxWindow(M, U)
  <2>1. ASSUME NEW k \in 1 .. Len(U), NEW l \in 1 .. Len(U), NEW i \in Suggested, k <= l,
               U[l].batch = M[i].batch, M[i].batch # 0
        PROVE  M[i].made \notin DOMAIN U[k].before
    <3>1. CASE i \in S
      BY <1>2, <1>5, <3>1
    <3>2. CASE i \notin S
      BY <2>1, <3>2 DEF InboxWorld, InboxWindow
    <3> QED
      BY <3>1, <3>2
  <2> QED
    BY <2>1 DEF InboxWorld, InboxWindow
<1>10. InboxSorts(p, U)
  BY <1>2, <1>4, <1>5 DEF InboxWorld, InboxSorts
<1>11. ASSUME NEW v, InboxOutline(v, g), InboxNamed(N, T, v)  PROVE InboxNamed(M, T, v)
  <2>1. ASSUME NEW t \in DOMAIN v  PROVE t \in Nat /\ t # 0 /\ t <= g /\ v[t].of \in Suggested
    BY <1>11, <1>2, InboxOutlines
  <2>2. ASSUME NEW i \in Suggested, M[i].made \in DOMAIN v  PROVE v[M[i].made].of = i
    BY <1>2, <1>11, <2>1, <2>2 DEF InboxNamed
  <2>3. ASSUME NEW t \in DOMAIN v, v[t].by \in {"accept", "loose"}, v[t].of \notin T  PROVE t = M[v[t].of].made
    BY <1>2, <1>11, <2>1, <2>3 DEF InboxNamed
  <2> QED
    BY <2>2, <2>3 DEF InboxNamed
<1>12. InboxNamed(M, T, p)
  <2>1. InboxNamed(M, T, o)
    BY <1>11 DEF InboxWorld, InboxTypes
  <2>2. ASSUME NEW i \in Suggested, M[i].made \in DOMAIN p  PROVE p[M[i].made].of = i
    <3>1. CASE i \in S
      BY <1>3, <3>1
    <3>2. CASE i \notin S
      BY <1>2, <1>3, <2>1, <2>2, <3>2 DEF InboxNamed
    <3> QED
      BY <3>1, <3>2
  <2>3. ASSUME NEW t \in DOMAIN p, p[t].by \in {"accept", "loose"}, p[t].of \notin T  PROVE t = M[p[t].of].made
    BY <1>4, <2>1, <2>3 DEF InboxNamed
  <2> QED
    BY <2>2, <2>3 DEF InboxNamed
<1>13. InboxBeats(M, T, p)
  <2> SUFFICES ASSUME NEW t \in DOMAIN p, Inbox!Beat(p[t].of), p[t].by = "accept", p[t].of \notin T, Needs[p[t].of] \in Suggested \ T
               PROVE  M[p[t].of].batch = M[Needs[p[t].of]].batch /\ InboxLive(M[Needs[p[t].of]])
    BY DEF InboxBeats
  <2>1. t \in DOMAIN o /\ p[t] = o[t] /\ o[t].of \in Suggested
    <3>1. \A i \in S : ~Inbox!Beat(i)
      BY InboxConstants
    <3> QED
      BY <1>4, <3>1, <1>2, InboxOutlines DEF InboxWorld, InboxTypes
  <2>2. N[o[t].of].batch = N[Needs[o[t].of]].batch /\ InboxLive(N[Needs[o[t].of]])
    BY <2>1 DEF InboxWorld, InboxBeats
  <2>3. o[t].of \notin S /\ Needs[o[t].of] \notin S
    BY <2>1, <2>2, InboxConstants
  <2> QED
    BY <2>1, <2>2, <2>3
<1>14. InboxStanding(M, p, U, T, D)
  <2>1. ASSUME NEW i \in Suggested, i \notin S, InboxStands(N, o, U, D, i)  PROVE InboxStands(M, p, U, D, i)
    BY <1>3, <2>1 DEF InboxStands
  <2>2. ASSUME NEW i \in S  PROVE InboxStands(M, p, U, D, i)
    <3>1. ASSUME NEW k \in 1 .. Len(U)  PROVE Len(U) \in k .. Len(U)
      BY <1>2
    <3> QED
      BY <1>2, <1>3, <3>1 DEF InboxStands
  <2>3. ASSUME NEW c \in Nat, c # b, c # 0, InboxGone(N, o, U, c)  PROVE InboxGone(M, p, U, c)
    <3> SUFFICES ASSUME NEW i \in Suggested, Inbox!Scene(i), M[i].batch = c
                 PROVE  M[i].made \notin DOMAIN p /\ \A k \in 1 .. Len(U) : M[i].made \notin DOMAIN U[k].before
      BY DEF InboxGone
    <3>1. i \notin S /\ M[i] = N[i]
      BY <2>3
    <3>2. N[i].made \notin DOMAIN o /\ \A k \in 1 .. Len(U) : N[i].made \notin DOMAIN U[k].before
      BY <2>3, <3>1 DEF InboxGone
    <3>3. N[i].made \notin {M[j].made : j \in S}
      BY <1>2
    <3> QED
      BY <1>3, <3>1, <3>2, <3>3
  <2>4. ASSUME NEW i \in Suggested, M[i].status = "reverting"
        PROVE  InboxGone(M, p, U, M[i].batch) \/ \A j \in InboxCovered(M, M[i].batch) \ T : InboxStands(M, p, U, D, j)
    <3>1. i \notin S /\ M[i] = N[i] /\ N[i].batch # b /\ N[i].batch # 0 /\ N[i].batch \in Nat
      BY <1>2, <2>4 DEF InboxWorld, InboxRows
    <3>2. \A j \in InboxCovered(M, N[i].batch) : j \notin S /\ j \in InboxCovered(N, N[i].batch)
      BY <3>1 DEF InboxCovered
    <3>3. \A j \in InboxCovered(M, N[i].batch) : j \in Suggested
      BY DEF InboxCovered
    <3> QED
      BY <2>1, <2>3, <2>4, <3>1, <3>2, <3>3 DEF InboxWorld, InboxStanding
  <2>5. ASSUME NEW i \in Suggested \ T, M[i].status = "accepted"  PROVE InboxStands(M, p, U, D, i)
    BY <2>1, <2>2, <2>5 DEF InboxWorld, InboxStanding
  <2> QED
    BY <2>4, <2>5 DEF InboxStanding
<1> QED
  BY <1>2, <1>6, <1>7, <1>8, <1>9, <1>10, <1>11, <1>12, <1>13, <1>14 DEF InboxWorld, InboxTypes

(* An item of which nothing was made fails, is rejected or is open again.      *)
LEMMA InboxFails ==
    ASSUME NEW N, NEW o, NEW U, NEW T, NEW D, NEW g, NEW n, InboxWorld(N, o, U, T, D, g, n),
           NEW M \in [Suggested -> InboxRow],
           \A i \in Suggested :
               \/ M[i] = N[i]
               \/ ~InboxLive(N[i]) /\ ~InboxLive(M[i]) /\ M[i].made = 0 /\ M[i].batch = 0
    PROVE  InboxWorld(M, o, U, T, D, g, n)
<1>1. \A i \in Suggested : /\ M[i].made = N[i].made /\ M[i].batch = N[i].batch /\ M[i].batch \in Nat
                           /\ InboxLive(M[i]) <=> InboxLive(N[i])
                           /\ InboxLive(M[i]) => M[i].status = N[i].status
  BY DEF InboxWorld, InboxTypes, InboxRows, InboxRow
<1>2. InboxTypes(M, o, U, g, n)
  BY <1>1 DEF InboxWorld, InboxTypes
<1>3. InboxRows(M)
  BY <1>1 DEF InboxWorld, InboxRows, InboxLive
<1>4. InboxBatches(M)
  <2>1. ASSUME NEW i \in Suggested, NEW j \in Suggested, M[i].batch = M[j].batch, M[i].batch # 0
        PROVE  M[i].status = M[j].status
    <3>1. InboxLive(N[i]) /\ InboxLive(N[j])
      BY <1>1, <2>1 DEF InboxWorld, InboxRows
    <3> QED
      BY <1>1, <2>1, <3>1 DEF InboxWorld, InboxBatches
  <2>2. ASSUME NEW i \in Suggested, M[i].batch # 0, ~Inbox!Scene(i)
        PROVE  Inbox!Beat(i) /\ Needs[i] \in Suggested /\ Inbox!Scene(Needs[i]) /\ M[Needs[i]].batch = M[i].batch
    BY <1>1, <2>2 DEF InboxWorld, InboxBatches
  <2> QED
    BY <2>1, <2>2 DEF InboxBatches
<1>5. InboxWindow(M, U)
  BY <1>1 DEF InboxWorld, InboxWindow
<1>6. ASSUME NEW v, InboxOutline(v, g), InboxNamed(N, T, v)  PROVE InboxNamed(M, T, v)
  <2>1. \A t \in DOMAIN v : v[t].of \in Suggested
    BY <1>6, InboxOutlines DEF InboxWorld, InboxTypes
  <2> QED
    BY <1>1, <1>6, <2>1 DEF InboxNamed
<1>7. InboxBeats(M, T, o)
  <2>1. \A t \in DOMAIN o : o[t].of \in Suggested
    BY InboxOutlines DEF InboxWorld, InboxTypes
  <2> QED
    BY <1>1, <2>1 DEF InboxWorld, InboxBeats
<1>8. InboxStanding(M, o, U, T, D)
  <2>1. \A b \in Nat : InboxGone(N, o, U, b) => InboxGone(M, o, U, b)
    BY <1>1 DEF InboxGone
  <2>2. \A i \in Suggested : InboxStands(N, o, U, D, i) => InboxStands(M, o, U, D, i)
    BY <1>1 DEF InboxStands
  <2>3. \A b \in Nat : InboxCovered(M, b) = InboxCovered(N, b) /\ InboxCovered(M, b) \subseteq Suggested
    BY <1>1 DEF InboxCovered
  <2>4. \A i \in Suggested : M[i].status \in {"accepted", "reverting"} => N[i].status = M[i].status
    BY <1>1 DEF InboxLive
  <2>5. ASSUME NEW i \in Suggested, M[i].status = "reverting"
        PROVE  InboxGone(M, o, U, M[i].batch) \/ \A j \in InboxCovered(M, M[i].batch) \ T : InboxStands(M, o, U, D, j)
    BY <1>1, <2>1, <2>2, <2>3, <2>4, <2>5 DEF InboxWorld, InboxStanding
  <2> QED
    BY <2>2, <2>4, <2>5 DEF InboxWorld, InboxStanding
<1> QED
  BY <1>2, <1>3, <1>4, <1>5, <1>6, <1>7, <1>8 DEF InboxWorld, InboxTypes

(* An item that is no scene is accepted: a beat in the batch of its scene, or  *)
(* an item in no batch.  What it made is new, or it is a person's record.      *)
InboxRidden(N, i, b, loose) ==
    /\ b # 0 => /\ Inbox!Beat(i) /\ Needs[i] \in Suggested /\ Inbox!Scene(Needs[i])
                /\ N[Needs[i]].batch = b /\ N[Needs[i]].status = "accepted"
    /\ ~loose /\ Inbox!Beat(i) /\ Needs[i] \in Suggested => N[Needs[i]].batch = b /\ InboxLive(N[Needs[i]])

LEMMA InboxMakes ==
    ASSUME NEW N, NEW o, NEW U, NEW T, NEW D, NEW g, NEW n, InboxWorld(N, o, U, T, D, g, n),
           NEW i \in Suggested, ~Inbox!Scene(i), ~InboxLive(N[i]),
           NEW b \in Nat, NEW by \in {"accept", "loose"}, InboxRidden(N, i, b, by = "loose"),
           NEW M \in [Suggested -> InboxRow], \A j \in Suggested \ {i} : M[j] = N[j],
           M[i].status = "accepted", M[i].batch = b, M[i].made = g + 1,
           NEW p, InboxOutline(p, g + 1), DOMAIN p = DOMAIN o \cup {g + 1}, \A t \in DOMAIN o : p[t] = o[t],
           p[g + 1].of = i, p[g + 1].by = by
    PROVE  InboxWorld(M, p, U, T, D, g + 1, n)
<1>1. /\ g \in Nat /\ n \in Nat /\ N[i].made = 0 /\ N[i].batch = 0
      /\ \A j \in Suggested : N[j] \in InboxRow /\ N[j].made \in Nat /\ N[j].batch \in Nat /\ N[j].made <= g /\ N[j].batch <= n
  BY DEF InboxWorld, InboxTypes, InboxRows, InboxRow
<1>2. \A t \in DOMAIN o : t \in Nat /\ t # 0 /\ t <= g /\ o[t].of \in Suggested
  BY <1>1, InboxOutlines DEF InboxWorld, InboxTypes
<1>3. \A t \in DOMAIN p : (t \in DOMAIN o /\ p[t] = o[t]) \/ t = g + 1
  OBVIOUS
<1>4. \A k \in 1 .. Len(U) : InboxOutline(U[k].before, g) /\ \A t \in DOMAIN U[k].before : t \in Nat /\ t # 0 /\ t <= g
  BY <1>1, InboxOutlines DEF InboxWorld, InboxTypes
<1>5. b <= n /\ (b # 0 => Needs[i] # i)
  BY <1>1, InboxConstants DEF InboxRidden
<1>6. InboxTypes(M, p, U, g + 1, n)
  <2>1. ASSUME NEW j \in Suggested  PROVE M[j].made <= g + 1 /\ M[j].batch <= n
    BY <1>1, <1>5
  <2>2. \A k \in 1 .. Len(U) : U[k].batch \in 0 .. n /\ InboxOutline(U[k].before, g + 1)
    BY <1>1 DEF InboxWorld, InboxTypes, InboxOutline
  <2> QED
    BY <1>1, <2>1, <2>2 DEF InboxWorld, InboxTypes
<1>7. InboxRows(M)
  BY <1>1 DEF InboxWorld, InboxRows, InboxLive
<1>8. InboxBatches(M)
  <2>1. ASSUME NEW j \in Suggested, M[j].batch = b, b # 0  PROVE M[j].status = "accepted"
    BY <1>1, <2>1 DEF InboxWorld, InboxBatches, InboxRidden
  <2>2. ASSUME NEW j \in Suggested, NEW k \in Suggested, M[j].batch = M[k].batch, M[j].batch # 0
        PROVE  M[j].status = M[k].status
    BY <2>1, <2>2 DEF InboxWorld, InboxBatches
  <2>3. ASSUME NEW j \in Suggested, M[j].batch # 0, ~Inbox!Scene(j)
        PROVE  Inbox!Beat(j) /\ Needs[j] \in Suggested /\ Inbox!Scene(Needs[j]) /\ M[Needs[j]].batch = M[j].batch
    <3>1. CASE j = i
      BY <1>5, <2>3, <3>1 DEF InboxRidden
    <3>2. CASE j # i
      BY <2>3, <3>2 DEF InboxWorld, InboxBatches
    <3> QED
      BY <3>1, <3>2
  <2> QED
    BY <2>2, <2>3 DEF InboxBatches
<1>9. InboxWindow(M, U)
  <2>1. ASSUME NEW k \in 1 .. Len(U), NEW l \in 1 .. Len(U), NEW j \in Suggested, k <= l,
               U[l].batch = M[j].batch, M[j].batch # 0
        PROVE  M[j].made \notin DOMAIN U[k].before
    <3>1. CASE j = i
      BY <1>1, <1>4, <3>1
    <3>2. CASE j # i
      BY <2>1, <3>2 DEF InboxWorld, InboxWindow
    <3> QED
      BY <3>1, <3>2
  <2> QED
    BY <2>1 DEF InboxWorld, InboxWindow
<1>10. InboxSorts(p, U)
  BY <1>1, <1>3, <1>4 DEF InboxWorld, InboxSorts
<1>11. ASSUME NEW v, InboxOutline(v, g), InboxNamed(N, T, v)  PROVE InboxNamed(M, T, v)
  <2>1. ASSUME NEW t \in DOMAIN v  PROVE t \in Nat /\ t # 0 /\ t <= g /\ v[t].of \in Suggested
    BY <1>11, <1>1, InboxOutlines
  <2>2. ASSUME NEW j \in Suggested, M[j].made \in DOMAIN v  PROVE v[M[j].made].of = j
    BY <1>1, <1>11, <2>1, <2>2 DEF InboxNamed
  <2>3. ASSUME NEW t \in DOMAIN v, v[t].by \in {"accept", "loose"}, v[t].of \notin T  PROVE t = M[v[t].of].made
    BY <1>1, <1>11, <2>1, <2>3 DEF InboxNamed
  <2> QED
    BY <2>2, <2>3 DEF InboxNamed
<1>12. InboxNamed(M, T, p)
  <2>1. InboxNamed(M, T, o)
    BY <1>11 DEF InboxWorld, InboxTypes
  <2>2. ASSUME NEW j \in Suggested, M[j].made \in DOMAIN p  PROVE p[M[j].made].of = j
    BY <1>1, <1>2, <1>3, <2>1, <2>2 DEF InboxNamed
  <2>3. ASSUME NEW t \in DOMAIN p, p[t].by \in {"accept", "loose"}, p[t].of \notin T  PROVE t = M[p[t].of].made
    BY <1>3, <2>1, <2>3 DEF InboxNamed
  <2> QED
    BY <2>2, <2>3 DEF InboxNamed
<1>13. InboxBeats(M, T, p)
  <2> SUFFICES ASSUME NEW t \in DOMAIN p, Inbox!Beat(p[t].of), p[t].by = "accept", p[t].of \notin T, Needs[p[t].of] \in Suggested \ T
               PROVE  M[p[t].of].batch = M[Needs[p[t].of]].batch /\ InboxLive(M[Needs[p[t].of]])
    BY DEF InboxBeats
  <2>1. CASE t = g + 1
    <3>1. Needs[i] # i
      BY <2>1, InboxConstants
    <3> QED
      BY <2>1, <3>1 DEF InboxRidden
  <2>2. CASE t \in DOMAIN o /\ p[t] = o[t]
    <3>1. N[o[t].of].batch = N[Needs[o[t].of]].batch /\ InboxLive(N[Needs[o[t].of]])
      BY <2>2 DEF InboxWorld, InboxBeats
    <3>2. t = N[o[t].of].made
      BY <2>2 DEF InboxWorld, InboxNamed
    <3>3. o[t].of # i /\ Needs[o[t].of] # i
      BY <1>1, <1>2, <2>2, <3>1, <3>2
    <3> QED
      BY <1>2, <2>2, <3>1, <3>3
  <2> QED
    BY <1>3, <2>1, <2>2
<1>14. InboxStanding(M, p, U, T, D)
  <2>1. ASSUME NEW j \in Suggested, j # i, InboxStands(N, o, U, D, j)  PROVE InboxStands(M, p, U, D, j)
    BY <2>1 DEF InboxStands
  <2>2. InboxStands(M, p, U, D, i)
    BY DEF InboxStands
  <2>3. ASSUME NEW c \in Nat, InboxGone(N, o, U, c)  PROVE InboxGone(M, p, U, c)
    BY <1>1, <1>3, <2>3 DEF InboxGone
  <2>4. ASSUME NEW j \in Suggested, M[j].status = "reverting"
        PROVE  InboxGone(M, p, U, M[j].batch) \/ \A k \in InboxCovered(M, M[j].batch) \ T : InboxStands(M, p, U, D, k)
    <3>1. j # i /\ M[j] = N[j]
      BY <2>4
    <3>2. \A k \in InboxCovered(M, N[j].batch) : k \in Suggested /\ (k # i => k \in InboxCovered(N, N[j].batch))
      BY DEF InboxCovered
    <3> QED
      BY <1>1, <2>1, <2>2, <2>3, <2>4, <3>1, <3>2 DEF InboxWorld, InboxStanding
  <2>5. ASSUME NEW j \in Suggested \ T, M[j].status = "accepted"  PROVE InboxStands(M, p, U, D, j)
    BY <2>1, <2>2, <2>5 DEF InboxWorld, InboxStanding
  <2> QED
    BY <2>4, <2>5 DEF InboxStanding
<1> QED
  BY <1>1, <1>6, <1>7, <1>8, <1>9, <1>10, <1>11, <1>12, <1>13, <1>14 DEF InboxWorld, InboxTypes

LEMMA InboxLinks ==
    ASSUME NEW N, NEW o, NEW U, NEW T, NEW D, NEW g, NEW n, InboxWorld(N, o, U, T, D, g, n),
           NEW i \in Suggested, Sort[i] = "person", ~InboxLive(N[i]), NEW t \in DOMAIN o, o[t].of = i,
           NEW M \in [Suggested -> InboxRow], \A j \in Suggested \ {i} : M[j] = N[j],
           M[i].status = "accepted", M[i].batch = 0, M[i].made = t
    PROVE  InboxWorld(M, o, U, T, D, g, n)
<1>1. /\ g \in Nat /\ n \in Nat /\ N[i].made = 0 /\ N[i].batch = 0 /\ ~Inbox!Scene(i) /\ ~Inbox!Beat(i)
      /\ \A j \in Suggested : N[j] \in InboxRow /\ N[j].made \in Nat /\ N[j].batch \in Nat
  BY InboxConstants DEF InboxWorld, InboxTypes, InboxRows, InboxRow
<1>2. \A s \in DOMAIN o : s \in Nat /\ s # 0 /\ s <= g /\ o[s].of \in Suggested
  BY <1>1, InboxOutlines DEF InboxWorld, InboxTypes
<1>3. \A k \in 1 .. Len(U) : t \notin DOMAIN U[k].before
  BY <1>1 DEF InboxWorld, InboxSorts
<1>4. InboxTypes(M, o, U, g, n)
  <2>1. \A j \in Suggested : M[j].made <= g /\ M[j].batch <= n
    BY <1>1, <1>2 DEF InboxWorld, InboxTypes
  <2> QED
    BY <2>1 DEF InboxWorld, InboxTypes
<1>5. InboxRows(M)
  BY <1>2 DEF InboxWorld, InboxRows, InboxLive
<1>6. InboxBatches(M)
  <2>1. ASSUME NEW j \in Suggested, NEW k \in Suggested, M[j].batch = M[k].batch, M[j].batch # 0
        PROVE  M[j].status = M[k].status
    BY <2>1 DEF InboxWorld, InboxBatches
  <2>2. ASSUME NEW j \in Suggested, M[j].batch # 0, ~Inbox!Scene(j)
        PROVE  Inbox!Beat(j) /\ Needs[j] \in Suggested /\ Inbox!Scene(Needs[j]) /\ M[Needs[j]].batch = M[j].batch
    BY <1>1, <2>2 DEF InboxWorld, InboxBatches
  <2> QED
    BY <2>1, <2>2 DEF InboxBatches
<1>7. InboxWindow(M, U)
  BY DEF InboxWorld, InboxWindow
<1>8. \A k \in 1 .. Len(U) : InboxNamed(M, T, U[k].before)
  <2> SUFFICES ASSUME NEW k \in 1 .. Len(U)  PROVE InboxNamed(M, T, U[k].before)
    OBVIOUS
  <2>1. InboxNamed(N, T, U[k].before)
    BY DEF InboxWorld
  <2>2. \A s \in DOMAIN U[k].before : U[k].before[s].of \in Suggested /\ Inbox!Scene(U[k].before[s].of)
    BY <1>1, InboxOutlines DEF InboxWorld, InboxTypes, InboxWindow
  <2> QED
    BY <1>1, <1>3, <2>1, <2>2 DEF InboxNamed
<1>9. InboxNamed(M, T, o)
  <2>1. ASSUME NEW s \in DOMAIN o, o[s].by \in {"accept", "loose"}, o[s].of \notin T  PROVE s = M[o[s].of].made
    <3>1. s = N[o[s].of].made
      BY <2>1 DEF InboxWorld, InboxNamed
    <3> QED
      BY <1>1, <1>2, <3>1
  <2> QED
    BY <2>1 DEF InboxWorld, InboxNamed
<1>10. InboxBeats(M, T, o)
  <2> SUFFICES ASSUME NEW s \in DOMAIN o, Inbox!Beat(o[s].of), o[s].by = "accept", o[s].of \notin T, Needs[o[s].of] \in Suggested \ T
               PROVE  M[o[s].of].batch = M[Needs[o[s].of]].batch /\ InboxLive(M[Needs[o[s].of]])
    BY DEF InboxBeats
  <2>1. N[o[s].of].batch = N[Needs[o[s].of]].batch /\ InboxLive(N[Needs[o[s].of]])
    BY DEF InboxWorld, InboxBeats
  <2> QED
    BY <1>1, <1>2, <2>1
<1>11. InboxStanding(M, o, U, T, D)
  <2>1. ASSUME NEW j \in Suggested, j # i, InboxStands(N, o, U, D, j)  PROVE InboxStands(M, o, U, D, j)
    BY <2>1 DEF InboxStands
  <2>2. InboxStands(M, o, U, D, i)
    BY <1>1 DEF InboxStands
  <2>3. ASSUME NEW c \in Nat, InboxGone(N, o, U, c)  PROVE InboxGone(M, o, U, c)
    BY <1>1, <2>3 DEF InboxGone
  <2>4. ASSUME NEW j \in Suggested, M[j].status = "reverting"
        PROVE  InboxGone(M, o, U, M[j].batch) \/ \A k \in InboxCovered(M, M[j].batch) \ T : InboxStands(M, o, U, D, k)
    <3>1. j # i /\ M[j] = N[j]
      BY <2>4
    <3>2. \A k \in InboxCovered(M, N[j].batch) : k \in Suggested /\ (k # i => k \in InboxCovered(N, N[j].batch))
      BY DEF InboxCovered
    <3> QED
      BY <1>1, <2>1, <2>2, <2>3, <2>4, <3>1, <3>2 DEF InboxWorld, InboxStanding
  <2>5. ASSUME NEW j \in Suggested \ T, M[j].status = "accepted"  PROVE InboxStands(M, o, U, D, j)
    BY <2>1, <2>2, <2>5 DEF InboxWorld, InboxStanding
  <2> QED
    BY <2>4, <2>5 DEF InboxStanding
<1> QED
  BY <1>4, <1>5, <1>6, <1>7, <1>8, <1>9, <1>10, <1>11 DEF InboxWorld, InboxSorts

-----------------------------------------------------------------------------
(* A batch is taken back: its items are reverting, or accepted again.          *)
LEMMA InboxTurns ==
    ASSUME NEW N, NEW o, NEW U, NEW T, NEW D, NEW g, NEW n, InboxWorld(N, o, U, T, D, g, n),
           NEW b \in Nat, b # 0, NEW s \in {"accepted", "reverting"},
           s = "accepted" => \A i \in InboxCovered(N, b) \ T : InboxStands(N, o, U, D, i),
           NEW M \in [Suggested -> InboxRow],
           \A i \in Suggested : /\ M[i].made = N[i].made /\ M[i].batch = N[i].batch
                                /\ M[i].status = IF N[i].batch = b THEN s ELSE N[i].status
    PROVE  /\ InboxWorld(M, o, U, T, D, g, n)
           /\ \A c \in Nat : InboxGone(N, o, U, c) => InboxGone(M, o, U, c)
           /\ \A i \in Suggested : InboxStands(N, o, U, D, i) => InboxStands(M, o, U, D, i)
<1>1. /\ g \in Nat /\ n \in Nat
      /\ \A i \in Suggested : /\ N[i].made \in Nat /\ N[i].batch \in Nat
                              /\ InboxLive(M[i]) <=> InboxLive(N[i])
                              /\ N[i].batch = b => InboxLive(N[i]) /\ M[i].status = s
                              /\ N[i].batch # b => M[i].status = N[i].status
  BY DEF InboxWorld, InboxTypes, InboxRows, InboxRow, InboxLive
<1>2. InboxTypes(M, o, U, g, n)
  BY DEF InboxWorld, InboxTypes
<1>3. InboxRows(M)
  BY <1>1 DEF InboxWorld, InboxRows
<1>4. InboxBatches(M)
  BY <1>1 DEF InboxWorld, InboxBatches
<1>5. InboxWindow(M, U)
  BY DEF InboxWorld, InboxWindow
<1>6. ASSUME NEW v, InboxOutline(v, g), InboxNamed(N, T, v)  PROVE InboxNamed(M, T, v)
  <2>1. \A t \in DOMAIN v : v[t].of \in Suggested
    BY <1>1, <1>6, InboxOutlines
  <2> QED
    BY <1>6, <2>1 DEF InboxNamed
<1>7. InboxBeats(M, T, o)
  <2>1. \A t \in DOMAIN o : o[t].of \in Suggested
    BY <1>1, InboxOutlines DEF InboxWorld, InboxTypes
  <2> QED
    BY <1>1, <2>1 DEF InboxWorld, InboxBeats
<1>8. \A c \in Nat : InboxGone(N, o, U, c) => InboxGone(M, o, U, c)
  BY DEF InboxGone
<1>9. \A i \in Suggested : InboxStands(N, o, U, D, i) => InboxStands(M, o, U, D, i)
  BY DEF InboxStands
<1>10. InboxStanding(M, o, U, T, D)
  <2>1. \A c : InboxCovered(M, c) = InboxCovered(N, c) /\ InboxCovered(M, c) \subseteq Suggested
    BY DEF InboxCovered
  <2>2. ASSUME NEW i \in Suggested, M[i].status = "reverting"
        PROVE  InboxGone(M, o, U, M[i].batch) \/ \A j \in InboxCovered(M, M[i].batch) \ T : InboxStands(M, o, U, D, j)
    <3>1. CASE N[i].status = "reverting"
      BY <1>1, <1>8, <1>9, <2>1, <3>1 DEF InboxWorld, InboxStanding
    <3>2. CASE N[i].status # "reverting"
      <4>1. N[i].batch = b /\ N[i].status = "accepted"
        BY <1>1, <2>2, <3>2 DEF InboxLive
      <4>2. \A j \in InboxCovered(N, b) : N[j].status = "accepted"
        BY <4>1 DEF InboxWorld, InboxBatches, InboxCovered
      <4>3. \A j \in InboxCovered(N, b) \ T : InboxStands(N, o, U, D, j)
        BY <2>1, <4>2 DEF InboxWorld, InboxStanding
      <4> QED
        BY <1>9, <2>1, <4>1, <4>3
    <3> QED
      BY <3>1, <3>2
  <2>3. ASSUME NEW i \in Suggested \ T, M[i].status = "accepted"  PROVE InboxStands(M, o, U, D, i)
    <3>1. CASE N[i].batch = b
      BY <1>1, <1>9, <2>3, <3>1 DEF InboxCovered
    <3>2. CASE N[i].batch # b
      BY <1>1, <1>9, <2>3, <3>2 DEF InboxWorld, InboxStanding
    <3> QED
      BY <3>1, <3>2
  <2> QED
    BY <2>2, <2>3 DEF InboxStanding
<1> QED
  BY <1>1, <1>2, <1>3, <1>4, <1>5, <1>6, <1>7, <1>8, <1>9, <1>10 DEF InboxWorld, InboxTypes

(* The outline is put back: of the batch nothing is left, and no other batch   *)
(* loses anything.                                                             *)
LEMMA InboxPutsBack ==
    ASSUME NEW N, NEW o, NEW U, NEW T, NEW D, NEW g, NEW n, InboxWorld(N, o, U, T, D, g, n),
           Len(U) # 0, NEW m, m = U[Len(U)].batch,
           \A i \in Suggested : N[i].batch = m /\ m # 0 => N[i].status = "reverting",
           NEW V, Len(V) = Len(U) - 1,
           \A k \in 1 .. Len(V) : V[k].batch = U[k].batch /\ V[k].before = U[k].before,
           NEW p, InboxOutline(p, g),
           DOMAIN p = {t \in DOMAIN o : ~Inbox!Scene(o[t].of)} \cup DOMAIN U[Len(U)].before,
           \A t \in DOMAIN p : p[t] = IF t \in DOMAIN U[Len(U)].before THEN U[Len(U)].before[t] ELSE o[t]
    PROVE  /\ InboxWorld(N, p, V, T, D, g, n)
           /\ m # 0 => InboxGone(N, p, V, m)
           /\ \A b \in Nat : InboxGone(N, o, U, b) => InboxGone(N, p, V, b)
<1> DEFINE L == Len(U)
           v == U[L].before
<1>1. /\ g \in Nat /\ n \in Nat /\ L \in Nat /\ L \in 1 .. L /\ L # 0
      /\ Len(V) \in Nat /\ \A k \in 1 .. Len(V) : k \in 1 .. L /\ k # L
      /\ \A k \in 1 .. L : k = L \/ k \in 1 .. Len(V)
      /\ \A i \in Suggested : N[i].made \in Nat /\ N[i].batch \in Nat
  BY DEF InboxWorld, InboxTypes, InboxRow
<1>2. \A t \in DOMAIN v : v[t].of \in Suggested /\ Inbox!Scene(v[t].of)
  BY <1>1, InboxOutlines DEF InboxWorld, InboxTypes, InboxWindow
<1> HIDE DEF L, v
<1>d. L = Len(U) /\ v = U[L].before /\ m = U[L].batch
  BY DEF L, v
<1>3. \A t \in DOMAIN p : \/ t \in DOMAIN v /\ p[t] = v[t]
                          \/ t \notin DOMAIN v /\ t \in DOMAIN o /\ p[t] = o[t] /\ ~Inbox!Scene(o[t].of)
  BY <1>d
<1>4. /\ \A t \in DOMAIN v : t \in DOMAIN p
      /\ \A t \in DOMAIN o : ~Inbox!Scene(o[t].of) => t \in DOMAIN p
  BY <1>d
<1>5. InboxTypes(N, p, V, g, n)
  BY <1>1 DEF InboxWorld, InboxTypes
<1>6. InboxWindow(N, V)
  <2>0. \A k \in 1 .. Len(V) : k \in 1 .. Len(U) /\ V[k].batch = U[k].batch /\ V[k].before = U[k].before
    BY <1>1, <1>d
  <2>1. \A k, l \in 1 .. Len(V) : k # l /\ V[k].batch # 0 => V[k].batch # V[l].batch
    BY <2>0 DEF InboxWorld, InboxWindow
  <2>2. \A k \in 1 .. Len(V) : \A t \in DOMAIN V[k].before : Inbox!Scene(V[k].before[t].of)
    BY <2>0 DEF InboxWorld, InboxWindow
  <2>3. \A k, l \in 1 .. Len(V), i \in Suggested :
            k <= l /\ V[l].batch = N[i].batch /\ N[i].batch # 0 => N[i].made \notin DOMAIN V[k].before
    BY <2>0 DEF InboxWorld, InboxWindow
  <2> QED
    BY <2>1, <2>2, <2>3 DEF InboxWindow
<1>7. InboxSorts(p, V)
  BY <1>1, <1>d, <1>2, <1>3 DEF InboxWorld, InboxSorts
<1>8. \A k \in 1 .. Len(V) : InboxNamed(N, T, V[k].before)
  BY <1>1, <1>d DEF InboxWorld
<1>9. InboxNamed(N, T, v) /\ InboxNamed(N, T, o)
  BY <1>1, <1>d DEF InboxWorld
<1>10. InboxNamed(N, T, p)
  BY <1>3, <1>9 DEF InboxNamed
<1>11. InboxBeats(N, T, p)
  BY <1>2, <1>3, InboxConstants DEF InboxWorld, InboxBeats
<1>12. m # 0 => InboxGone(N, p, V, m)
  <2> SUFFICES ASSUME m # 0, NEW i \in Suggested, Inbox!Scene(i), N[i].batch = m
               PROVE  N[i].made \notin DOMAIN p /\ \A k \in 1 .. Len(V) : N[i].made \notin DOMAIN V[k].before
    BY DEF InboxGone
  <2>1. ASSUME NEW k \in 1 .. L  PROVE N[i].made \notin DOMAIN U[k].before
    <3>1. k \in 1 .. Len(U) /\ L \in 1 .. Len(U) /\ k <= L /\ U[L].batch = N[i].batch /\ N[i].batch # 0
      BY <1>1, <1>d
    <3> HIDE DEF L
    <3> QED
      BY <3>1 DEF InboxWorld, InboxWindow
  <2>2. N[i].made \notin DOMAIN p
    BY <1>1, <1>3, <1>9, <1>d, <2>1 DEF InboxNamed
  <2> QED
    BY <1>1, <2>1, <2>2
<1>13. \A b \in Nat : InboxGone(N, o, U, b) => InboxGone(N, p, V, b)
  <2> SUFFICES ASSUME NEW b \in Nat, InboxGone(N, o, U, b), NEW i \in Suggested, Inbox!Scene(i), N[i].batch = b
               PROVE  N[i].made \notin DOMAIN p /\ \A k \in 1 .. Len(V) : N[i].made \notin DOMAIN V[k].before
    BY DEF InboxGone
  <2>1. N[i].made \notin DOMAIN o /\ \A k \in 1 .. L : N[i].made \notin DOMAIN U[k].before
    BY <1>d DEF InboxGone
  <2> QED
    BY <1>1, <1>3, <1>d, <2>1
<1>14. ASSUME NEW i \in Suggested, InboxStands(N, o, U, D, i), m = 0 \/ N[i].batch # m  PROVE InboxStands(N, p, V, D, i)
  <2>1. CASE ~Inbox!Scene(i)
    <3>1. N[i].made \in DOMAIN o => N[i].made \in DOMAIN p
      BY <1>4, <1>9, <2>1 DEF InboxNamed
    <3> QED
      BY <1>14, <2>1, <3>1 DEF InboxStands
  <2>2. CASE Inbox!Scene(i)
    <3>1. \A l \in L .. L : l = L
      BY <1>1
    <3>2. N[i].made \in DOMAIN v \cup D
      <4>1. \/ N[i].made \in DOMAIN U[L].before \cup D
            \/ \E l \in L .. Len(U) : U[l].batch = N[i].batch /\ N[i].batch # 0
        BY <1>1, <1>14, <2>2 DEF InboxStands
      <4> QED
        BY <1>d, <1>14, <3>1, <4>1
    <3>3. ASSUME NEW k \in 1 .. Len(V)
          PROVE  \/ N[i].made \in DOMAIN V[k].before \cup D
                 \/ \E l \in k .. Len(V) : V[l].batch = N[i].batch /\ N[i].batch # 0
      <4>1. CASE N[i].made \in DOMAIN U[k].before \cup D
        BY <4>1
      <4>2. CASE \E l \in k .. Len(U) : U[l].batch = N[i].batch /\ N[i].batch # 0
        <5>1. PICK l \in k .. Len(U) : U[l].batch = N[i].batch /\ N[i].batch # 0
          BY <4>2
        <5>2. l # L
          BY <1>d, <1>14, <5>1
        <5>3. l \in k .. Len(V) /\ l \in 1 .. Len(V)
          BY <1>1, <1>d, <5>1, <5>2
        <5> QED
          BY <5>1, <5>3
      <4> QED
        BY <1>1, <1>14, <2>2, <4>1, <4>2 DEF InboxStands
    <3> QED
      BY <1>4, <3>2, <3>3 DEF InboxStands
  <2> QED
    BY <2>1, <2>2
<1>15. InboxStanding(N, p, V, T, D)
  <2>1. ASSUME NEW i \in Suggested \ T, N[i].status = "accepted"  PROVE InboxStands(N, p, V, D, i)
    BY <1>14, <2>1 DEF InboxWorld, InboxStanding
  <2>2. ASSUME NEW i \in Suggested, N[i].status = "reverting"
        PROVE  InboxGone(N, p, V, N[i].batch) \/ \A j \in InboxCovered(N, N[i].batch) \ T : InboxStands(N, p, V, D, j)
    <3>1. CASE N[i].batch = m
      BY <1>12, <2>2, <3>1 DEF InboxWorld, InboxRows
    <3>2. CASE N[i].batch # m
      BY <1>1, <1>13, <1>14, <2>2, <3>2 DEF InboxWorld, InboxStanding, InboxCovered
    <3> QED
      BY <3>1, <3>2
  <2> QED
    BY <2>1, <2>2 DEF InboxStanding
<1> QED
  BY <1>5, <1>6, <1>7, <1>8, <1>10, <1>11, <1>12, <1>13, <1>15 DEF InboxWorld

(* A batch is taken back for good: its items are open again.                   *)
LEMMA InboxEnds ==
    ASSUME NEW N, NEW o, NEW U, NEW T, NEW D, NEW g, NEW n, InboxWorld(N, o, U, T, D, g, n),
           NEW b \in Nat, b # 0, InboxGone(N, o, U, b),
           \A i \in Suggested : N[i].batch = b /\ Inbox!Beat(i) => N[i].made \notin DOMAIN o,
           NEW M \in [Suggested -> InboxRow],
           \A i \in Suggested : N[i].batch # b => M[i] = N[i],
           \A i \in Suggested : N[i].batch = b => ~InboxLive(M[i]) /\ M[i].made = 0 /\ M[i].batch = 0
    PROVE  InboxWorld(M, o, U, T, D, g, n)
<1>1. /\ g \in Nat /\ n \in Nat
      /\ \A i \in Suggested : N[i].made \in Nat /\ N[i].batch \in Nat /\ (M[i].batch # 0 => M[i] = N[i] /\ N[i].batch # b)
  BY DEF InboxWorld, InboxTypes, InboxRow
<1>2. InboxTypes(M, o, U, g, n)
  <2>1. \A i \in Suggested : M[i].made <= g /\ M[i].batch <= n
    BY <1>1 DEF InboxWorld, InboxTypes
  <2> QED
    BY <2>1 DEF InboxWorld, InboxTypes
<1>3. InboxRows(M)
  BY DEF InboxWorld, InboxRows, InboxLive
<1>4. InboxBatches(M)
  <2>1. ASSUME NEW i \in Suggested, NEW j \in Suggested, M[i].batch = M[j].batch, M[i].batch # 0
        PROVE  M[i].status = M[j].status
    BY <1>1, <2>1 DEF InboxWorld, InboxBatches
  <2>2. ASSUME NEW i \in Suggested, M[i].batch # 0, ~Inbox!Scene(i)
        PROVE  Inbox!Beat(i) /\ Needs[i] \in Suggested /\ Inbox!Scene(Needs[i]) /\ M[Needs[i]].batch = M[i].batch
    BY <1>1, <2>2 DEF InboxWorld, InboxBatches
  <2> QED
    BY <2>1, <2>2 DEF InboxBatches
<1>5. InboxWindow(M, U)
  BY <1>1 DEF InboxWorld, InboxWindow
<1>6. ASSUME NEW v, InboxOutline(v, g), InboxNamed(N, T, v),
             \A i \in Suggested : N[i].batch = b => N[i].made \notin DOMAIN v
      PROVE  InboxNamed(M, T, v)
  <2>1. \A t \in DOMAIN v : t # 0 /\ v[t].of \in Suggested
    BY <1>1, <1>6, InboxOutlines
  <2>2. ASSUME NEW i \in Suggested, M[i].made \in DOMAIN v  PROVE v[M[i].made].of = i
    BY <1>6, <2>1, <2>2 DEF InboxNamed
  <2>3. ASSUME NEW t \in DOMAIN v, v[t].by \in {"accept", "loose"}, v[t].of \notin T  PROVE t = M[v[t].of].made
    BY <1>6, <2>1, <2>3 DEF InboxNamed
  <2> QED
    BY <2>2, <2>3 DEF InboxNamed
<1>7. \A i \in Suggested : N[i].batch = b => Inbox!Scene(i) \/ Inbox!Beat(i)
  BY DEF InboxWorld, InboxBatches
<1>8. \A i \in Suggested : N[i].batch = b => N[i].made \notin DOMAIN o
  BY <1>7 DEF InboxGone
<1>9. ASSUME NEW k \in 1 .. Len(U)  PROVE InboxNamed(M, T, U[k].before)
  <2>1. InboxOutline(U[k].before, g) /\ InboxNamed(N, T, U[k].before)
    BY DEF InboxWorld, InboxTypes
  <2>2. ASSUME NEW i \in Suggested, N[i].batch = b  PROVE N[i].made \notin DOMAIN U[k].before
    <3>1. CASE Inbox!Scene(i)
      BY <2>2, <3>1 DEF InboxGone
    <3>2. CASE ~Inbox!Scene(i)
      BY <2>1, <3>2 DEF InboxWorld, InboxWindow, InboxNamed
    <3> QED
      BY <3>1, <3>2
  <2> QED
    BY <1>6, <2>1, <2>2
<1>10. InboxNamed(M, T, o)
  BY <1>6, <1>8 DEF InboxWorld, InboxTypes
<1>11. InboxBeats(M, T, o)
  <2> SUFFICES ASSUME NEW t \in DOMAIN o, Inbox!Beat(o[t].of), o[t].by = "accept", o[t].of \notin T, Needs[o[t].of] \in Suggested \ T
               PROVE  M[o[t].of].batch = M[Needs[o[t].of]].batch /\ InboxLive(M[Needs[o[t].of]])
    BY DEF InboxBeats
  <2>1. N[o[t].of].batch = N[Needs[o[t].of]].batch /\ InboxLive(N[Needs[o[t].of]])
    BY DEF InboxWorld, InboxBeats
  <2>2. t = N[o[t].of].made /\ o[t].of \in Suggested
    BY <1>1, InboxOutlines DEF InboxWorld, InboxNamed, InboxTypes
  <2> QED
    BY <1>8, <2>1, <2>2
<1>12. InboxStanding(M, o, U, T, D)
  <2>1. \A c \in Nat : c # 0 /\ InboxGone(N, o, U, c) => InboxGone(M, o, U, c)
    BY <1>1 DEF InboxGone
  <2>2. \A i \in Suggested : N[i].batch # b /\ InboxStands(N, o, U, D, i) => InboxStands(M, o, U, D, i)
    BY DEF InboxStands
  <2>3. \A i \in Suggested : M[i].status \in {"accepted", "reverting"} => M[i] = N[i] /\ N[i].batch # b
    BY DEF InboxLive
  <2>4. \A c \in Nat : c # 0 => \A i \in InboxCovered(M, c) : i \in InboxCovered(N, c) /\ i \in Suggested /\ N[i].batch # b
    BY <1>1 DEF InboxCovered
  <2>5. ASSUME NEW i \in Suggested, M[i].status = "reverting"
        PROVE  InboxGone(M, o, U, M[i].batch) \/ \A j \in InboxCovered(M, M[i].batch) \ T : InboxStands(M, o, U, D, j)
    <3>1. M[i] = N[i] /\ N[i].batch \in Nat /\ N[i].batch # 0
      BY <1>1, <2>3, <2>5 DEF InboxWorld, InboxRows
    <3> QED
      BY <2>1, <2>2, <2>4, <2>5, <3>1 DEF InboxWorld, InboxStanding
  <2> QED
    BY <2>2, <2>3, <2>5 DEF InboxWorld, InboxStanding
<1> QED
  BY <1>2, <1>3, <1>4, <1>5, <1>9, <1>10, <1>11, <1>12 DEF InboxWorld

-----------------------------------------------------------------------------
(* The window.                                                                 *)
InboxChange == [batch : Nat, kept : BOOLEAN, before : UNION {[S -> InboxThing] : S \in SUBSET Nat}]

InboxLonger(w, e, V) ==
    /\ V \in Seq(InboxChange) /\ Len(V) = Len(w) + 1 /\ Len(w) \in Nat
    /\ \A k \in 1 .. Len(w) : V[k].batch = w[k].batch /\ V[k].before = w[k].before
    /\ V[Len(V)].batch = e.batch /\ V[Len(V)].before = e.before

LEMMA InboxCounts == \A S : Inbox!Cardinality(S) = Cardinality(S)
BY DEF Inbox!Cardinality, Cardinality

LEMMA InboxLeast ==
    ASSUME NEW S \in SUBSET Nat, S # {}
    PROVE  \E k \in S : \A j \in S : k <= j
<1> DEFINE R == OpToRel(<, Nat)
<1>1. IsWellFoundedOn(R, Nat)
  BY NatLessThanWellFounded
<1>2. \A j, k \in Nat : j < k => <<j, k>> \in R
  BY DEF OpToRel
<1> HIDE DEF R
<1>3. \E k \in S : \A j \in S : ~ (<<j, k>> \in R)
  BY <1>1, WFMin
<1>4. PICK k \in S : \A j \in S : ~ (<<j, k>> \in R)
  BY <1>3
<1>5. ASSUME NEW j \in S  PROVE k <= j
  <2>1. j \in Nat /\ k \in Nat
    OBVIOUS
  <2>2. ~(j < k)
    BY <1>2, <1>4, <2>1
  <2> QED
    BY <2>1, <2>2
<1> QED
  BY <1>5

LEMMA InboxKeptFinite ==
    ASSUME NEW w \in Seq(InboxChange)
    PROVE  /\ IsFiniteSet(Inbox!Kept(w)) /\ Cardinality(Inbox!Kept(w)) \in Nat /\ Inbox!Kept(w) \in SUBSET Nat
           /\ Inbox!Kept(w) \subseteq 1 .. Len(w)
<1>1. Inbox!Kept(w) \in SUBSET (1 .. Len(w)) /\ Len(w) \in Nat
  BY DEF Inbox!Kept
<1>2. IsFiniteSet(1 .. Len(w))
  BY <1>1, FS_Interval
<1>3. IsFiniteSet(Inbox!Kept(w))
  BY <1>1, <1>2, FS_Subset
<1> QED
  BY <1>1, <1>3, FS_CardinalityType

(* A change is the last there is, and the window keeps no more than it may.    *)
LEMMA InboxFits ==
    ASSUME NEW w \in Seq(InboxChange), Cardinality(Inbox!Kept(w)) <= MaxUndoable, NEW e \in InboxChange,
           NEW V, V = Inbox!Fitted(Append(w, e))
    PROVE  /\ InboxLonger(w, e, V)
           /\ Cardinality(Inbox!Kept(V)) <= MaxUndoable
<1> DEFINE a == Append(w, e)
<1>1. /\ a \in Seq(InboxChange) /\ Len(a) = Len(w) + 1 /\ Len(w) \in Nat /\ DOMAIN a = 1 .. Len(w) + 1
      /\ a[Len(w) + 1] = e /\ \A k \in 1 .. Len(w) : a[k] = w[k]
  OBVIOUS
<1>f. V = Inbox!Fitted(a)
  OBVIOUS
<1> HIDE DEF a
<1>2. Inbox!Kept(a) \subseteq Inbox!Kept(w) \cup {Len(w) + 1}
  BY <1>1 DEF Inbox!Kept
<1>3. /\ IsFiniteSet(Inbox!Kept(w) \cup {Len(w) + 1})
      /\ Cardinality(Inbox!Kept(w) \cup {Len(w) + 1}) <= Cardinality(Inbox!Kept(w)) + 1
      /\ Cardinality(Inbox!Kept(w)) \in Nat
  <2>1. IsFiniteSet(Inbox!Kept(w)) /\ Cardinality(Inbox!Kept(w)) \in Nat
    BY InboxKeptFinite
  <2>2. /\ IsFiniteSet(Inbox!Kept(w) \cup {Len(w) + 1})
        /\ Cardinality(Inbox!Kept(w) \cup {Len(w) + 1}) =
             IF Len(w) + 1 \in Inbox!Kept(w) THEN Cardinality(Inbox!Kept(w)) ELSE Cardinality(Inbox!Kept(w)) + 1
    BY <2>1, FS_AddElement
  <2> QED
    BY <2>1, <2>2
<1>4. IsFiniteSet(Inbox!Kept(a)) /\ Cardinality(Inbox!Kept(a)) \in Nat /\ Cardinality(Inbox!Kept(a)) <= MaxUndoable + 1
  <2>1. Inbox!Kept(a) \in SUBSET (Inbox!Kept(w) \cup {Len(w) + 1})
    BY <1>2
  <2>2. Cardinality(Inbox!Kept(a)) <= Cardinality(Inbox!Kept(w) \cup {Len(w) + 1})
    BY <1>3, <2>1, FS_Subset
  <2>3. IsFiniteSet(Inbox!Kept(a)) /\ Cardinality(Inbox!Kept(a)) \in Nat
    BY <1>1, InboxKeptFinite
  <2>4. Cardinality(Inbox!Kept(w) \cup {Len(w) + 1}) \in Nat
    BY <1>3, FS_CardinalityType
  <2> QED
    BY <1>3, <2>2, <2>3, <2>4, InboxConstants
<1>5. CASE Cardinality(Inbox!Kept(a)) <= MaxUndoable
  <2>1. V = a
    BY <1>5, <1>f, InboxCounts DEF Inbox!Fitted
  <2> QED
    BY <1>1, <1>5, <2>1 DEF InboxLonger
<1>6. CASE ~(Cardinality(Inbox!Kept(a)) <= MaxUndoable)
  <2> DEFINE k == CHOOSE k \in Inbox!Kept(a) : \A j \in Inbox!Kept(a) : k <= j
  <2>1. V = [a EXCEPT ![k].kept = FALSE]
    BY <1>6, <1>f, InboxCounts DEF Inbox!Fitted
  <2>2. Inbox!Kept(a) # {} /\ Inbox!Kept(a) \in SUBSET Nat
    <3>1. Inbox!Kept(a) = {} => Cardinality(Inbox!Kept(a)) = 0
      BY FS_EmptySet
    <3> QED
      BY <1>1, <1>6, <3>1, InboxConstants, InboxKeptFinite
  <2>3. k \in Inbox!Kept(a)
    <3>1. \E j \in Inbox!Kept(a) : \A l \in Inbox!Kept(a) : j <= l
      BY <2>2, InboxLeast
    <3> QED
      BY <3>1
  <2> HIDE DEF k
  <2>4. k \in DOMAIN a /\ a[k] \in InboxChange
    BY <1>1, <2>3 DEF Inbox!Kept
  <2> DEFINE c == [a[k] EXCEPT !.kept = FALSE]
  <2>5. c \in InboxChange /\ c.batch = a[k].batch /\ c.before = a[k].before /\ c.kept = FALSE
    BY <2>4 DEF InboxChange
  <2>6. V = [a EXCEPT ![k] = c]
    BY <2>1
  <2> HIDE DEF c
  <2>7. V \in Seq(InboxChange) /\ Len(V) = Len(a) /\ DOMAIN V = DOMAIN a /\ \A j \in DOMAIN a : V[j] = IF j = k THEN c ELSE a[j]
    BY <1>1, <2>4, <2>5, <2>6
  <2>8. Inbox!Kept(V) = Inbox!Kept(a) \ {k}
    BY <2>5, <2>7 DEF Inbox!Kept
  <2>9. Cardinality(Inbox!Kept(V)) = Cardinality(Inbox!Kept(a)) - 1
    BY <1>4, <2>3, <2>8, FS_RemoveElement
  <2>10. \A j \in DOMAIN a : V[j].batch = a[j].batch /\ V[j].before = a[j].before
    BY <2>5, <2>7
  <2>11. Cardinality(Inbox!Kept(V)) <= MaxUndoable
    BY <1>4, <2>9, InboxConstants
  <2> QED
    BY <1>1, <2>7, <2>10, <2>11 DEF InboxLonger
<1> QED
  BY <1>5, <1>6

LEMMA InboxAppended ==
    ASSUME NEW w \in Seq(InboxChange), NEW e \in InboxChange, e.batch = 0, NEW V, V = Append(w, e)
    PROVE  /\ InboxLonger(w, e, V)
           /\ Inbox!Kept(V) = Inbox!Kept(w)
<1>1. /\ V \in Seq(InboxChange) /\ Len(V) = Len(w) + 1 /\ Len(w) \in Nat /\ DOMAIN V = 1 .. Len(w) + 1 /\ DOMAIN w = 1 .. Len(w)
      /\ V[Len(w) + 1] = e /\ \A k \in 1 .. Len(w) : V[k] = w[k]
  OBVIOUS
<1> QED
  BY <1>1 DEF Inbox!Kept, InboxLonger

LEMMA InboxShortened ==
    ASSUME NEW w \in Seq(InboxChange), Len(w) # 0, NEW V, V = Inbox!Without(w, Len(w))
    PROVE  /\ V \in Seq(InboxChange) /\ Len(V) = Len(w) - 1
           /\ \A k \in 1 .. Len(V) : V[k].batch = w[k].batch /\ V[k].before = w[k].before
           /\ Cardinality(Inbox!Kept(V)) <= Cardinality(Inbox!Kept(w)) /\ Cardinality(Inbox!Kept(V)) \in Nat
<1>1. V = [n \in 1 .. Len(w) - 1 |-> w[n]] /\ Len(w) \in Nat
  BY DEF Inbox!Without
<1>2. /\ V \in Seq(InboxChange) /\ Len(V) = Len(w) - 1 /\ DOMAIN V = 1 .. Len(w) - 1 /\ DOMAIN w = 1 .. Len(w)
      /\ \A k \in 1 .. Len(w) - 1 : V[k] = w[k] /\ k \in 1 .. Len(w)
  BY <1>1
<1>3. Inbox!Kept(V) \in SUBSET Inbox!Kept(w)
  BY <1>2 DEF Inbox!Kept
<1>4. IsFiniteSet(Inbox!Kept(w))
  BY InboxKeptFinite
<1>5. Cardinality(Inbox!Kept(V)) \in Nat
  BY <1>2, InboxKeptFinite
<1> QED
  BY <1>2, <1>3, <1>4, <1>5, FS_Subset

-----------------------------------------------------------------------------
(* The calls under way: the caller's, and the start of the engine.             *)
InboxPcs == {"idle", "accept", "outline", "reject", "revert", "undo", "check", "restore", "finish", "boot"}
InboxCall == [pc : InboxPcs, want : SUBSET Suggested, loose : SUBSET Suggested,
              left : SUBSET (Inbox!Submitted \cup Nat), rows : [Suggested -> InboxRow],
              todo : SUBSET Suggested, marks : SUBSET Suggested, tags : SUBSET Suggested,
              batch : Nat, items : SUBSET Suggested]

InboxTyped ==
    /\ inbox \in [Suggested -> InboxRow] /\ undoable \in Seq(InboxChange)
    /\ Cardinality(Inbox!Kept(undoable)) <= MaxUndoable
    /\ asked \in [{Asker, Inbox!Engine} -> InboxCall]
    /\ serving \in BOOLEAN /\ torn \subseteq Suggested
    /\ lastId \in 0 .. MaxThings /\ dropped \subseteq 1 .. MaxThings

InboxAsking == asked[Asker]
InboxStarting == asked[Inbox!Engine]
InboxUnwritten == InboxAsking.marks \cup InboxAsking.tags

(* A row as the call under way has it, written down or not.                    *)
InboxNow == [i \in Suggested |-> IF i \in InboxUnwritten THEN InboxAsking.rows[i] ELSE inbox[i]]

(* Where the caller stands: what it is to apply is as it read it.              *)
InboxAsks ==
    /\ InboxAsking.pc # "boot"
    /\ InboxUnwritten # {} => InboxAsking.pc = "accept"
    /\ InboxAsking.todo # {} => InboxAsking.pc \in {"accept", "outline"}
    /\ InboxAsking.pc = "outline" => InboxAsking.todo # {}
    /\ InboxAsking.pc = "reject" => \A i \in InboxAsking.want : ~InboxLive(inbox[i])
    /\ InboxAsking.todo \cap InboxUnwritten = {}
    /\ \A i \in InboxAsking.todo :
        /\ ~InboxLive(inbox[i]) /\ (InboxAsking.pc = "accept" => ~Inbox!Scene(i))
        /\ \A j \in Suggested : j \notin InboxUnwritten => InboxAsking.rows[j] = inbox[j]

(* What it has applied and not written down.                                   *)
InboxWrites ==
    \A i \in InboxUnwritten :
        /\ inbox[i].batch = 0 /\ InboxAsking.rows[i].status # "reverting"
        /\ i \in InboxAsking.marks => ~InboxLive(inbox[i]) /\ inbox[i].made = 0
        /\ i \notin InboxAsking.marks => /\ inbox[i].status = InboxAsking.rows[i].status
                                         /\ inbox[i].made = InboxAsking.rows[i].made
        /\ i \notin InboxAsking.tags => InboxAsking.rows[i].batch = 0
        /\ \A j \in Suggested : Inbox!Beat(j) /\ Needs[j] = i => InboxNow[j].batch = 0

InboxUndoing(p) == p \in {"revert", "undo", "check", "restore", "finish"}

(* Where an undo stands, or the start of the engine settling one.              *)
InboxUndoes(c, N, o, U, T, D) ==
    InboxUndoing(c.pc) =>
        /\ c.batch # 0
        /\ c.pc # "check" =>
            /\ c.items = InboxCovered(N, c.batch)
            /\ \A i \in c.items : c.rows[i].made = N[i].made /\ c.rows[i].batch = N[i].batch /\ InboxLive(c.rows[i])
            /\ \A i, j \in c.items : c.rows[i].status = c.rows[j].status
        /\ c.pc \in {"undo", "restore", "finish"} => \A i \in c.items : N[i].status = "reverting"
        /\ c.pc \in {"revert", "undo", "restore"} =>
            \A i \in c.items : c.rows[i].status = "accepted" => \A j \in c.items \ T : InboxStands(N, o, U, D, j)
        /\ c.pc # "finish" => Len(U) = 0 \/ U[Len(U)].batch = c.batch
        /\ c.pc = "finish" => InboxGone(N, o, U, c.batch)

(* Where the start of the engine stands: what is half taken back is yet to be  *)
(* settled.                                                                    *)
InboxBoots(c, N, T) ==
    /\ c.pc \in {"boot", "check", "restore", "finish"} /\ c.left \subseteq Nat \ {0}
    /\ c.pc = "restore" => \A i \in c.items : c.rows[i].status = "accepted"
    /\ \A i \in Suggested \ T : N[i].status = "reverting" =>
            N[i].batch \in c.left \/ (c.pc # "boot" /\ N[i].batch = c.batch)

InboxStarts ==
    /\ InboxStarting.marks = {} /\ InboxStarting.tags = {} /\ InboxStarting.todo = {}
    /\ InboxStarting.pc # "idle" => ~serving /\ InboxBoots(InboxStarting, inbox, torn)
    /\ ~serving => InboxAsking.pc = "idle" /\ undoable = <<>>

InboxInv ==
    /\ InboxTyped /\ InboxWorld(InboxNow, things, undoable, torn, dropped, lastId, batched)
    /\ InboxAsks /\ InboxWrites /\ InboxUndoes(InboxAsking, InboxNow, things, undoable, torn, dropped)
    /\ InboxStarts /\ InboxUndoes(InboxStarting, InboxNow, things, undoable, torn, dropped)

(* What the invariant says of the rows, whoever acts.                          *)
LEMMA InboxFacts ==
    ASSUME InboxInv
    PROVE  /\ Asker # Inbox!Engine /\ InboxAsking \in InboxCall /\ InboxStarting \in InboxCall
           /\ InboxNow \in [Suggested -> InboxRow] /\ lastId \in Nat /\ batched \in Nat
           /\ InboxUnwritten \subseteq Suggested
           /\ \A i \in Suggested : i \notin InboxUnwritten => InboxNow[i] = inbox[i]
           /\ \A i \in InboxUnwritten : InboxNow[i] = InboxAsking.rows[i]
           /\ InboxUnwritten = {} => InboxNow = inbox
           /\ InboxUnwritten = Inbox!Unwritten(Asker) /\ Inbox!Unwritten(Inbox!Engine) = {}
           /\ ~serving => InboxUnwritten = {} /\ InboxAsking.pc = "idle"
           /\ InboxAsking.pc # "idle" => serving /\ InboxStarting.pc = "idle"
           /\ InboxAsking.pc # "accept" => InboxUnwritten = {}
<1> USE DEF InboxInv
<1>1. Asker # Inbox!Engine
  BY InboxAssumption
<1>2. InboxAsking \in InboxCall /\ InboxStarting \in InboxCall
  BY DEF InboxTyped, InboxAsking, InboxStarting
<1>3. InboxUnwritten \subseteq Suggested
  BY <1>2 DEF InboxUnwritten, InboxCall
<1>4. \A i \in Suggested : InboxNow[i] = IF i \in InboxUnwritten THEN InboxAsking.rows[i] ELSE inbox[i]
  BY DEF InboxNow
<1>5. InboxUnwritten = {} => InboxNow = inbox
  BY DEF InboxNow, InboxTyped
<1>6. InboxUnwritten = Inbox!Unwritten(Asker)
  BY DEF InboxUnwritten, Inbox!Unwritten, InboxAsking
<1>7. Inbox!Unwritten(Inbox!Engine) = {}
  BY DEF InboxStarts, InboxStarting, Inbox!Unwritten
<1>8. InboxNow \in [Suggested -> InboxRow] /\ lastId \in Nat /\ batched \in Nat
  BY DEF InboxWorld, InboxTypes
<1> QED
  BY <1>1, <1>2, <1>3, <1>4, <1>5, <1>6, <1>7, <1>8 DEF InboxAsks, InboxStarts

(* The caller goes on, and nothing else does.                                  *)
LEMMA InboxAskerMoves ==
    ASSUME InboxTyped, InboxStarts, serving, Asker # Inbox!Engine,
           NEW r \in InboxCall, asked' = [asked EXCEPT ![Asker] = r], serving' = serving
    PROVE  /\ asked' \in [{Asker, Inbox!Engine} -> InboxCall]
           /\ InboxAsking' = r /\ InboxUnwritten' = r.marks \cup r.tags
           /\ InboxStarts' /\ InboxUndoes(InboxStarting, InboxNow, things, undoable, torn, dropped)'
<1>1. asked' \in [{Asker, Inbox!Engine} -> InboxCall] /\ InboxAsking' = r /\ InboxStarting' = InboxStarting
  BY DEF InboxTyped, InboxAsking, InboxStarting
<1>2. InboxStarting.pc = "idle"
  BY DEF InboxStarts
<1>3. InboxStarts'
  BY <1>1, <1>2 DEF InboxStarts
<1>4. InboxUndoes(InboxStarting, InboxNow, things, undoable, torn, dropped)'
  BY <1>1, <1>2 DEF InboxUndoes, InboxUndoing
<1> QED
  BY <1>1, <1>3, <1>4 DEF InboxUnwritten

(* The start of the engine goes on, before there is any caller.                *)
LEMMA InboxEngineMoves ==
    ASSUME InboxInv, InboxStarting.pc # "idle" \/ ~serving,
           NEW r \in InboxCall, asked' = [asked EXCEPT ![Inbox!Engine] = r]
    PROVE  /\ asked' \in [{Asker, Inbox!Engine} -> InboxCall]
           /\ InboxStarting' = r /\ InboxAsking' = InboxAsking /\ InboxUnwritten' = {} /\ InboxUnwritten = {}
           /\ InboxNow = inbox /\ (inbox' \in [Suggested -> InboxRow] => InboxNow' = inbox')
           /\ InboxAsking.pc = "idle" /\ undoable = <<>>
           /\ InboxAsks' /\ InboxWrites' /\ InboxUndoes(InboxAsking, InboxNow, things, undoable, torn, dropped)'
<1>1. ~serving /\ InboxAsking.pc = "idle" /\ undoable = <<>> /\ InboxUnwritten = {} /\ InboxNow = inbox
  BY InboxFacts DEF InboxInv, InboxStarts
<1>2. asked' \in [{Asker, Inbox!Engine} -> InboxCall] /\ InboxAsking' = InboxAsking /\ InboxStarting' = r
  BY InboxFacts DEF InboxInv, InboxTyped, InboxAsking, InboxStarting
<1>3. InboxUnwritten' = {}
  BY <1>1, <1>2 DEF InboxUnwritten
<1>4. InboxAsking.todo = {}
  BY <1>1 DEF InboxInv, InboxAsks
<1>5. InboxAsks'
  BY <1>1, <1>2, <1>3, <1>4 DEF InboxAsks
<1>6. InboxWrites'
  BY <1>3 DEF InboxWrites
<1>7. InboxUndoes(InboxAsking, InboxNow, things, undoable, torn, dropped)'
  BY <1>1, <1>2 DEF InboxUndoes, InboxUndoing
<1>8. inbox' \in [Suggested -> InboxRow] => InboxNow' = inbox'
  BY <1>3 DEF InboxNow
<1> QED
  BY <1>1, <1>2, <1>3, <1>5, <1>6, <1>7, <1>8

(* What is done elsewhere disturbs no undo.                                    *)
LEMMA InboxUndoesStay ==
    ASSUME NEW c \in InboxCall, NEW N, NEW o, NEW U, NEW T, NEW D, InboxUndoes(c, N, o, U, T, D),
           NEW p, NEW V, NEW S, T \subseteq S, NEW E, InboxUndoing(c.pc) /\ c.pc # "finish" => V = U,
           \A b \in Nat : InboxGone(N, o, U, b) => InboxGone(N, p, V, b),
           \A i \in Suggested : V = U /\ InboxStands(N, o, U, D, i) => InboxStands(N, p, V, E, i)
    PROVE  InboxUndoes(c, N, p, V, S, E)
<1>1. c.batch \in Nat /\ c.items \subseteq Suggested
  BY DEF InboxCall
<1> QED
  BY <1>1 DEF InboxUndoes, InboxUndoing

LEMMA InboxIdle ==
    /\ Inbox!Idle \in InboxCall /\ Inbox!Idle.pc = "idle" /\ Inbox!Idle.todo = {} /\ Inbox!Idle.marks = {}
    /\ Inbox!Idle.tags = {} /\ Inbox!Idle.left = {} /\ Inbox!Idle.batch = 0
    /\ \A i \in Suggested : Inbox!Idle.rows[i] = [status |-> "pending", made |-> 0, batch |-> 0]
    /\ Inbox!Idle.rows \in [Suggested -> InboxRow]
BY DEF Inbox!Idle, InboxCall, InboxPcs, InboxRow, Inbox!Statuses

(* The caller goes on, with nothing to write down, and nothing is changed yet. *)
LEMMA InboxRests ==
    ASSUME InboxInv, serving, InboxUnwritten = {}, NEW r \in InboxCall, asked' = [asked EXCEPT ![Asker] = r],
           UNCHANGED <<inbox, things, lastId, batched, undoable, serving, torn, dropped>>,
           r.marks = {}, r.tags = {}, r.pc # "boot",
           r.todo # {} => r.pc \in {"accept", "outline"} /\ r.rows = inbox, r.pc = "outline" => r.todo # {},
           \A i \in r.todo : ~InboxLive(inbox[i]) /\ (r.pc = "accept" => ~Inbox!Scene(i)),
           r.pc = "reject" => \A i \in r.want : ~InboxLive(inbox[i]),
           InboxUndoes(r, inbox, things, undoable, torn, dropped)
    PROVE  InboxInv'
<1>1. /\ asked' \in [{Asker, Inbox!Engine} -> InboxCall] /\ InboxAsking' = r /\ InboxUnwritten' = {}
      /\ InboxStarts' /\ InboxUndoes(InboxStarting, InboxNow, things, undoable, torn, dropped)'
  BY InboxFacts, InboxAskerMoves DEF InboxInv
<1>2. InboxNow = inbox /\ InboxNow' = inbox /\ inbox' = inbox
  <2>1. InboxNow = inbox /\ inbox' = inbox
    BY InboxFacts
  <2>2. InboxNow' = [i \in Suggested |-> inbox[i]]
    BY <1>1, <2>1 DEF InboxNow
  <2> QED
    BY <2>1, <2>2 DEF InboxInv, InboxTyped
<1>3. InboxTyped'
  BY <1>1 DEF InboxInv, InboxTyped
<1>4. InboxWorld(InboxNow, things, undoable, torn, dropped, lastId, batched)'
  BY <1>2 DEF InboxInv
<1>5. InboxAsks'
  BY <1>1, <1>2 DEF InboxAsks
<1>6. InboxWrites'
  BY <1>1 DEF InboxWrites
<1>7. InboxUndoes(InboxAsking, InboxNow, things, undoable, torn, dropped)'
  BY <1>1, <1>2
<1> QED
  BY <1>1, <1>3, <1>4, <1>5, <1>6, <1>7 DEF InboxInv

(* No undo is under way.                                                       *)
LEMMA InboxNoUndo ==
    ASSUME NEW r, ~InboxUndoing(r.pc), NEW N, NEW o, NEW U, NEW T, NEW D
    PROVE  InboxUndoes(r, N, o, U, T, D)
BY DEF InboxUndoes

LEMMA InboxOpens == \A r : Inbox!Open(r) => ~InboxLive(r)
BY DEF Inbox!Open, InboxLive

LEMMA InboxBeginsAccept ==
    ASSUME InboxInv, Inbox!BeginAccept(Asker)
    PROVE  InboxInv'
<1>1. PICK want \in SUBSET {i \in Suggested : Inbox!Open(inbox[i])} \ {{}} :
        \E loose \in SUBSET {i \in want : Inbox!Beat(i)} :
            Inbox!Begin(Asker, [Inbox!Idle EXCEPT !.pc = "accept", !.want = want, !.loose = loose,
                                !.left = {q \in Inbox!Submitted : Inbox!In(q) \cap want # {}}])
  BY DEF Inbox!BeginAccept
<1>2. PICK loose \in SUBSET {i \in want : Inbox!Beat(i)} :
            Inbox!Begin(Asker, [Inbox!Idle EXCEPT !.pc = "accept", !.want = want, !.loose = loose,
                                !.left = {q \in Inbox!Submitted : Inbox!In(q) \cap want # {}}])
  BY <1>1
<1> DEFINE left == {q \in Inbox!Submitted : Inbox!In(q) \cap want # {}}
           r == [Inbox!Idle EXCEPT !.pc = "accept", !.want = want, !.loose = loose, !.left = left]
<1>3. left \in SUBSET (Inbox!Submitted \cup Nat) /\ want \in SUBSET Suggested /\ loose \in SUBSET Suggested
  BY <1>1, <1>2
<1>4. asked' = [asked EXCEPT ![Asker] = r] /\ serving /\ InboxAsking.pc = "idle"
  BY <1>2 DEF Inbox!Begin, InboxAsking
<1> HIDE DEF left
<1>5. /\ r \in InboxCall /\ r.pc = "accept" /\ r.todo = {} /\ r.marks = {} /\ r.tags = {}
  BY <1>3, InboxIdle DEF InboxCall, InboxPcs
<1> HIDE DEF r
<1>6. UNCHANGED <<inbox, things, lastId, batched, undoable, serving, torn, dropped>>
  BY DEF Inbox!BeginAccept
<1>7. InboxUndoes(r, inbox, things, undoable, torn, dropped)
  BY <1>5, InboxNoUndo DEF InboxUndoing
<1>8. InboxUnwritten = {}
  BY <1>4, InboxFacts
<1> QED
  BY <1>4, <1>5, <1>6, <1>7, <1>8, InboxRests

LEMMA InboxOpensProposal ==
    ASSUME InboxInv, Inbox!OpenProposal(Asker)
    PROVE  InboxInv'
<1>1. InboxAsking.pc = "accept" /\ InboxUnwritten = {}
  BY InboxFacts DEF Inbox!OpenProposal, Inbox!AtRest, InboxAsking
<1>2. PICK q \in InboxAsking.left :
        asked' = [asked EXCEPT ![Asker] = [InboxAsking EXCEPT
            !.left = InboxAsking.left \ {q}, !.rows = inbox,
            !.todo = {i \in Inbox!In(q) \cap InboxAsking.want : Inbox!Open(inbox[i])},
            !.pc = IF \E i \in {i \in Inbox!In(q) \cap InboxAsking.want : Inbox!Open(inbox[i])} : Inbox!Scene(i)
                   THEN "outline" ELSE InboxAsking.pc]]
  BY Zenon DEF Inbox!OpenProposal, InboxAsking
<1> DEFINE wanted == {i \in Inbox!In(q) \cap InboxAsking.want : Inbox!Open(inbox[i])}
           goes == IF \E i \in wanted : Inbox!Scene(i) THEN "outline" ELSE InboxAsking.pc
           r == [InboxAsking EXCEPT !.left = @ \ {q}, !.rows = inbox, !.todo = wanted, !.pc = goes]
<1>3. asked' = [asked EXCEPT ![Asker] = r]
  BY <1>2
<1>4. /\ wanted \subseteq Suggested /\ \A i \in wanted : Inbox!Open(inbox[i])
      /\ goes \in {"accept", "outline"} /\ (goes = "accept" => \A i \in wanted : ~Inbox!Scene(i)) /\ (goes = "outline" => wanted # {})
  BY <1>1 DEF Inbox!In
<1> HIDE DEF wanted, goes
<1>5. /\ r \in InboxCall /\ r.pc = goes /\ r.todo = wanted /\ r.rows = inbox /\ r.marks = {} /\ r.tags = {}
  BY <1>1, <1>4, InboxFacts DEF InboxCall, InboxPcs, InboxInv, InboxTyped, InboxUnwritten
<1> HIDE DEF r
<1>6. UNCHANGED <<inbox, things, lastId, batched, undoable, serving, torn, dropped>>
  BY DEF Inbox!OpenProposal, Inbox!elsewhere
<1>7. InboxUndoes(r, inbox, things, undoable, torn, dropped)
  BY <1>4, <1>5, InboxNoUndo DEF InboxUndoing
<1>8. serving
  BY <1>1, InboxFacts
<1>9. \A i \in r.todo : ~InboxLive(inbox[i]) /\ (r.pc = "accept" => ~Inbox!Scene(i))
  BY <1>4, <1>5, InboxOpens
<1> QED
  BY <1>1, <1>3, <1>4, <1>5, <1>6, <1>7, <1>8, <1>9, InboxRests

(* A call is over.                                                             *)
LEMMA InboxReturns ==
    ASSUME InboxInv, InboxAsking.pc # "idle", InboxUnwritten = {}, asked' = [asked EXCEPT ![Asker] = Inbox!Idle],
           UNCHANGED <<inbox, things, lastId, batched, undoable, serving, torn, dropped>>
    PROVE  InboxInv'
<1>1. InboxUndoes(Inbox!Idle, inbox, things, undoable, torn, dropped)
  BY InboxIdle, InboxNoUndo DEF InboxUndoing
<1>2. serving
  BY InboxFacts
<1> QED
  BY <1>1, <1>2, InboxIdle, InboxRests

LEMMA InboxEndsAccept ==
    ASSUME InboxInv, Inbox!EndAccept(Asker)
    PROVE  InboxInv'
BY InboxFacts, InboxReturns DEF Inbox!EndAccept, Inbox!AtRest, Inbox!elsewhere, InboxAsking

LEMMA InboxBeginsReject ==
    ASSUME InboxInv, Inbox!BeginReject(Asker)
    PROVE  InboxInv'
<1>1. PICK want \in SUBSET Suggested \ {{}} :
        Inbox!Begin(Asker, [Inbox!Idle EXCEPT !.pc = "reject", !.rows = inbox, !.want = {i \in want : Inbox!Open(inbox[i])}])
  BY DEF Inbox!BeginReject
<1> DEFINE open == {i \in want : Inbox!Open(inbox[i])}
           r == [Inbox!Idle EXCEPT !.pc = "reject", !.rows = inbox, !.want = open]
<1>2. asked' = [asked EXCEPT ![Asker] = r] /\ serving /\ InboxAsking.pc = "idle"
  BY <1>1 DEF Inbox!Begin, InboxAsking
<1>3. open \in SUBSET Suggested /\ \A i \in open : ~InboxLive(inbox[i])
  BY <1>1, InboxOpens
<1> HIDE DEF open
<1>4. r \in InboxCall /\ r.pc = "reject" /\ r.todo = {} /\ r.marks = {} /\ r.tags = {} /\ r.want = open
  BY <1>3, InboxIdle DEF InboxCall, InboxPcs, InboxInv, InboxTyped
<1> HIDE DEF r
<1>5. UNCHANGED <<inbox, things, lastId, batched, undoable, serving, torn, dropped>>
  BY DEF Inbox!BeginReject
<1>6. InboxUndoes(r, inbox, things, undoable, torn, dropped)
  BY <1>4, InboxNoUndo DEF InboxUndoing
<1>7. InboxUnwritten = {}
  BY <1>2, InboxFacts
<1> QED
  BY <1>2, <1>3, <1>4, <1>5, <1>6, <1>7, InboxRests

LEMMA InboxBeginsUndo ==
    ASSUME InboxInv, Inbox!BeginUndo(Asker)
    PROVE  InboxInv'
<1>1. PICK b \in 1 .. batched :
        LET covered == {i \in Suggested : inbox[i].batch = b} IN
        /\ FALSE \/ \A k \in DOMAIN undoable : undoable[Len(undoable)].batch = b
        /\ Inbox!Begin(Asker, [Inbox!Idle EXCEPT !.pc = "revert", !.batch = b, !.rows = inbox, !.items = covered])
  BY DEF Inbox!BeginUndo
<1> DEFINE covered == {i \in Suggested : inbox[i].batch = b}
           r == [Inbox!Idle EXCEPT !.pc = "revert", !.batch = b, !.rows = inbox, !.items = covered]
<1>2. /\ asked' = [asked EXCEPT ![Asker] = r] /\ serving /\ InboxAsking.pc = "idle"
      /\ \A k \in DOMAIN undoable : undoable[Len(undoable)].batch = b
  BY <1>1 DEF Inbox!Begin, InboxAsking
<1>3. InboxUnwritten = {} /\ InboxNow = inbox /\ batched \in Nat /\ b \in Nat /\ b # 0
  BY <1>2, InboxFacts
<1>4. covered \in SUBSET Suggested /\ covered = InboxCovered(inbox, b)
  BY DEF InboxCovered
<1> HIDE DEF covered
<1>5. /\ r \in InboxCall /\ r.pc = "revert" /\ r.todo = {} /\ r.marks = {} /\ r.tags = {}
      /\ r.batch = b /\ r.rows = inbox /\ r.items = covered
  BY <1>3, <1>4, InboxIdle DEF InboxCall, InboxPcs, InboxInv, InboxTyped
<1> HIDE DEF r
<1>6. UNCHANGED <<inbox, things, lastId, batched, undoable, serving, torn, dropped>>
  BY DEF Inbox!BeginUndo
<1>7. InboxUndoes(r, inbox, things, undoable, torn, dropped)
  <2>1. InboxWorld(inbox, things, undoable, torn, dropped, lastId, batched)
    BY <1>3 DEF InboxInv
  <2>2. \A i \in covered : i \in Suggested /\ InboxLive(inbox[i])
    BY <1>3, <1>4, <2>1 DEF InboxWorld, InboxRows, InboxCovered
  <2>3. \A i, j \in covered : inbox[i].status = inbox[j].status
    BY <1>3, <1>4, <2>1 DEF InboxWorld, InboxBatches, InboxCovered
  <2>4. \A i \in covered : inbox[i].status = "accepted" =>
            \A j \in covered \ torn : InboxStands(inbox, things, undoable, dropped, j)
    BY <1>4, <2>1, <2>3 DEF InboxWorld, InboxStanding
  <2>5. Len(undoable) = 0 \/ undoable[Len(undoable)].batch = b
    BY <1>2 DEF InboxInv, InboxTyped
  <2> QED
    BY <1>3, <1>4, <1>5, <2>2, <2>3, <2>4, <2>5 DEF InboxUndoes
<1> QED
  BY <1>2, <1>3, <1>5, <1>6, <1>7, InboxRests

(* The caller has applied something, which it will write down next.            *)
LEMMA InboxApplies ==
    ASSUME InboxInv, InboxUnwritten = {}, InboxAsking.pc # "idle", NEW r \in InboxCall,
           asked' = [asked EXCEPT ![Asker] = r], UNCHANGED <<inbox, serving, torn, dropped>>,
           r.pc = "accept", r.tags \subseteq r.marks, r.todo \cap r.marks = {}, r.todo \subseteq InboxAsking.todo,
           \A i \in r.todo : ~Inbox!Scene(i),
           \A j \in Suggested : j \notin r.marks => r.rows[j] = inbox[j],
           \A i \in r.marks : ~InboxLive(inbox[i]) /\ r.rows[i].status # "reverting" /\ (i \notin r.tags => r.rows[i].batch = 0),
           \A i, j \in r.marks : Inbox!Beat(j) => Needs[j] # i,
           lastId' \in 0 .. MaxThings, undoable' \in Seq(InboxChange), Cardinality(Inbox!Kept(undoable')) <= MaxUndoable,
           InboxWorld(r.rows, things', undoable', torn, dropped, lastId', batched')
    PROVE  InboxInv'
<1>1. /\ asked' \in [{Asker, Inbox!Engine} -> InboxCall] /\ InboxAsking' = r /\ InboxUnwritten' = r.marks
      /\ InboxStarts' /\ InboxUndoes(InboxStarting, InboxNow, things, undoable, torn, dropped)'
  BY InboxFacts, InboxAskerMoves DEF InboxInv
<1>2. /\ inbox' = inbox /\ inbox \in [Suggested -> InboxRow] /\ r.rows \in [Suggested -> InboxRow]
      /\ r.marks \subseteq Suggested /\ r.todo \subseteq Suggested /\ serving
  BY InboxFacts DEF InboxInv, InboxTyped, InboxCall
<1>3. InboxNow' = r.rows
  <2>1. InboxNow' = [i \in Suggested |-> IF i \in r.marks THEN r.rows[i] ELSE inbox[i]]
    BY <1>1, <1>2 DEF InboxNow
  <2> QED
    BY <1>2, <2>1
<1>4. InboxTyped'
  BY <1>1, <1>2 DEF InboxInv, InboxTyped
<1>5. InboxWorld(InboxNow, things, undoable, torn, dropped, lastId, batched)'
  BY <1>3
<1>6. InboxAsks'
  BY <1>1, <1>2 DEF InboxAsks, InboxInv
<1>7. InboxWorld(inbox, things, undoable, torn, dropped, lastId, batched)
  BY InboxFacts DEF InboxInv
<1>8. InboxWrites'
  <2> SUFFICES ASSUME NEW i \in r.marks
               PROVE  /\ inbox[i].batch = 0 /\ inbox[i].made = 0
                      /\ \A j \in Suggested : Inbox!Beat(j) /\ Needs[j] = i => r.rows[j].batch = 0
    BY <1>1, <1>2, <1>3 DEF InboxWrites
  <2>1. inbox[i].batch = 0 /\ inbox[i].made = 0
    BY <1>2, <1>7 DEF InboxWorld, InboxRows
  <2>2. ASSUME NEW j \in Suggested, Inbox!Beat(j), Needs[j] = i  PROVE r.rows[j].batch = 0
    <3>1. j \notin r.marks /\ ~Inbox!Scene(j)
      BY <2>2, InboxConstants
    <3>2. inbox[j].batch = 0
      BY <1>7, <2>1, <2>2, <3>1 DEF InboxWorld, InboxBatches
    <3> QED
      BY <3>1, <3>2
  <2> QED
    BY <2>1, <2>2
<1>9. InboxUndoes(InboxAsking, InboxNow, things, undoable, torn, dropped)'
  BY <1>1 DEF InboxUndoes, InboxUndoing
<1> QED
  BY <1>1, <1>4, <1>5, <1>6, <1>8, <1>9 DEF InboxInv

LEMMA InboxChanges ==
    ASSUME InboxInv, NEW b \in Nat
    PROVE  /\ Inbox!Change(b) \in InboxChange /\ Inbox!Change(b).batch = b
           /\ InboxOutline(Inbox!Change(b).before, lastId)
           /\ DOMAIN Inbox!Change(b).before = {t \in DOMAIN things : Inbox!Scene(things[t].of)}
           /\ \A t \in DOMAIN Inbox!Change(b).before : Inbox!Change(b).before[t] = things[t]
<1> DEFINE S == {t \in DOMAIN things : Inbox!Scene(things[t].of)}
           v == [t \in S |-> things[t]]
<1>1. Inbox!Change(b) = [batch |-> b, kept |-> TRUE, before |-> v]
  BY DEF Inbox!Change, Inbox!Scenes
<1>2. InboxOutline(things, lastId) /\ lastId \in Nat
  BY DEF InboxInv, InboxWorld, InboxTypes
<1>3. v \in [S -> InboxThing] /\ S \in SUBSET Nat /\ S \subseteq 1 .. lastId /\ DOMAIN v = S /\ \A t \in S : v[t] = things[t]
  BY <1>2 DEF InboxOutline
<1> HIDE DEF v
<1>4. v \in UNION {[X -> InboxThing] : X \in SUBSET Nat} /\ InboxOutline(v, lastId)
  BY <1>3 DEF InboxOutline
<1> HIDE DEF S
<1>5. Inbox!Change(b) \in InboxChange
  BY <1>1, <1>4 DEF InboxChange
<1> QED
  BY <1>1, <1>3, <1>4, <1>5 DEF S

LEMMA InboxAppliesOutline ==
    ASSUME InboxInv, Inbox!ApplyOutline(Asker)
    PROVE  InboxInv'
<1> DEFINE scenes == Inbox!Structural(Asker)
           n == Cardinality(scenes)
<1>1. InboxAsking.pc = "outline" /\ InboxUnwritten = {} /\ InboxNow = inbox /\ lastId \in Nat /\ batched \in Nat
  BY InboxFacts DEF Inbox!ApplyOutline, InboxAsking
<1>2. /\ scenes = {i \in InboxAsking.todo : Inbox!Scene(i)} /\ scenes \in SUBSET Suggested /\ n \in Nat
  <2>1. scenes = {i \in InboxAsking.todo : Inbox!Scene(i)} /\ InboxAsking.todo \subseteq Suggested
    BY InboxFacts DEF Inbox!Structural, InboxAsking, InboxCall
  <2>2. IsFiniteSet(scenes)
    BY <2>1, InboxAssumption, FS_Subset
  <2> QED
    BY <2>1, <2>2, FS_CardinalityType
<1>3. (\A i \in InboxAsking.todo : ~InboxLive(inbox[i])) /\ \A j \in Suggested : InboxAsking.rows[j] = inbox[j]
  BY <1>1 DEF InboxInv, InboxAsks
<1>4. PICK id \in [scenes -> lastId + 1 .. lastId + n] :
        /\ \A i, j \in scenes : id[i] = id[j] => i = j
        /\ things' = [t \in DOMAIN things \cup {id[i] : i \in scenes} |->
                         IF t \in DOMAIN things THEN things[t]
                         ELSE Inbox!Thing(CHOOSE i \in scenes : id[i] = t, "accept")]
        /\ asked' = [asked EXCEPT ![Asker] = [asked[Asker] EXCEPT
              !.pc = "accept", !.todo = @ \ scenes, !.marks = scenes, !.tags = scenes,
              !.rows = [i \in Suggested |-> IF i \in scenes THEN Inbox!Accepted(id[i], batched + 1) ELSE @[i]]]]
  BY InboxCounts DEF Inbox!ApplyOutline
<1>5. /\ lastId + n <= MaxThings /\ lastId' = lastId + n /\ batched' = batched + 1
      /\ undoable' = Inbox!Fitted(Append(undoable, Inbox!Change(batched + 1)))
      /\ UNCHANGED <<inbox, serving, torn, dropped>>
  BY InboxCounts DEF Inbox!ApplyOutline, Inbox!Remember, Inbox!elsewhere
<1> HIDE DEF n
<1> DEFINE rows == [i \in Suggested |-> IF i \in scenes THEN Inbox!Accepted(id[i], batched + 1) ELSE InboxAsking.rows[i]]
           r == [InboxAsking EXCEPT !.pc = "accept", !.todo = InboxAsking.todo \ scenes,
                                    !.marks = scenes, !.tags = scenes, !.rows = rows]
<1>6. asked' = [asked EXCEPT ![Asker] = r]
  BY <1>4 DEF InboxAsking
<1> HIDE DEF scenes
<1>7. /\ \A i \in scenes : id[i] \in Nat /\ id[i] > lastId /\ id[i] <= lastId'
      /\ rows \in [Suggested -> InboxRow] /\ \A i \in Suggested : i \notin scenes => rows[i] = InboxAsking.rows[i]
      /\ \A i \in scenes : rows[i].status = "accepted" /\ rows[i].made = id[i] /\ rows[i].batch = batched + 1
  <2>1. \A i \in scenes : id[i] \in Nat /\ id[i] > lastId /\ id[i] <= lastId'
    BY <1>1, <1>2, <1>5
  <2>2. \A i \in scenes : Inbox!Accepted(id[i], batched + 1) \in InboxRow
    BY <1>1, <2>1 DEF Inbox!Accepted, InboxRow, Inbox!Statuses
  <2>3. InboxAsking.rows \in [Suggested -> InboxRow]
    BY InboxFacts DEF InboxCall
  <2> QED
    BY <1>2, <2>1, <2>2, <2>3 DEF Inbox!Accepted
<1> HIDE DEF rows
<1>8. /\ r \in InboxCall /\ r.pc = "accept" /\ r.todo = InboxAsking.todo \ scenes /\ r.rows = rows
      /\ r.marks = scenes /\ r.tags = scenes
  BY <1>2, <1>7, InboxFacts DEF InboxCall, InboxPcs
<1> HIDE DEF r
<1>9. InboxWorld(inbox, things, undoable, torn, dropped, lastId, batched)
  BY <1>1 DEF InboxInv
<1>10. InboxLonger(undoable, Inbox!Change(batched + 1), undoable') /\ Cardinality(Inbox!Kept(undoable')) <= MaxUndoable
  <2>1. undoable \in Seq(InboxChange) /\ Cardinality(Inbox!Kept(undoable)) <= MaxUndoable
    BY DEF InboxInv, InboxTyped
  <2>2. Inbox!Change(batched + 1) \in InboxChange
    BY <1>1, InboxChanges
  <2> QED
    BY <1>5, <2>1, <2>2, InboxFits
<1>11. InboxWorld(inbox, things, undoable', torn, dropped, lastId, batched')
  <2> DEFINE e == Inbox!Change(batched + 1)
  <2>1. /\ e.batch = batched + 1 /\ InboxOutline(e.before, lastId)
        /\ DOMAIN e.before = {t \in DOMAIN things : Inbox!Scene(things[t].of)}
        /\ \A t \in DOMAIN e.before : e.before[t] = things[t]
    BY <1>1, InboxChanges
  <2> HIDE DEF e
  <2>2. InboxLonger(undoable, e, undoable')
    BY <1>10 DEF e
  <2> QED
    BY <1>1, <1>5, <1>9, <2>1, <2>2, InboxAppends DEF InboxLonger
<1>12. /\ InboxOutline(things', lastId') /\ DOMAIN things' = DOMAIN things \cup {rows[i].made : i \in scenes}
       /\ \A t \in DOMAIN things : things'[t] = things[t]
       /\ \A i \in scenes : things'[rows[i].made].of = i /\ things'[rows[i].made].by = "accept"
  <2>1. DOMAIN things' = DOMAIN things \cup {id[i] : i \in scenes} /\ \A t \in DOMAIN things : things'[t] = things[t]
    BY <1>4
  <2>2. \A t \in DOMAIN things : t \in Nat /\ t # 0 /\ t <= lastId /\ things[t] \in InboxThing
    BY <1>1, <1>9 DEF InboxWorld, InboxTypes, InboxOutline
  <2>3. \A i \in scenes : things'[id[i]] = Inbox!Thing(i, "accept")
    <3> SUFFICES ASSUME NEW i \in scenes  PROVE things'[id[i]] = Inbox!Thing(i, "accept")
      OBVIOUS
    <3>1. id[i] \notin DOMAIN things
      BY <1>1, <1>7, <2>2
    <3>2. (CHOOSE j \in scenes : id[j] = id[i]) = i
      BY <1>4
    <3> QED
      BY <1>4, <3>1, <3>2
  <2>4. \A i \in scenes : Inbox!Thing(i, "accept") \in InboxThing /\ Inbox!Thing(i, "accept").of = i /\ Inbox!Thing(i, "accept").by = "accept"
    BY <1>2 DEF Inbox!Thing, InboxThing
  <2>5. \A t \in DOMAIN things' : things'[t] \in InboxThing /\ t \in 1 .. lastId'
    BY <1>1, <1>2, <1>5, <1>7, <2>1, <2>2, <2>3, <2>4
  <2>6. things' = [t \in DOMAIN things' |-> things'[t]]
    BY <1>4
  <2>7. InboxOutline(things', lastId')
    BY <2>5, <2>6 DEF InboxOutline
  <2>8. {rows[i].made : i \in scenes} = {id[i] : i \in scenes}
    BY <1>7
  <2> QED
    BY <1>7, <2>1, <2>3, <2>4, <2>7, <2>8
<1>13. InboxWorld(rows, things', undoable', torn, dropped, lastId', batched')
  <2>1. \A i \in scenes : Inbox!Scene(i) /\ ~InboxLive(inbox[i])
    BY <1>2, <1>3
  <2>2. batched + 1 \in 1 .. batched' /\ \A i \in Suggested : inbox[i].batch # batched + 1
    BY <1>1, <1>5, <1>9 DEF InboxWorld, InboxTypes, InboxRow
  <2>3. Len(undoable') # 0 /\ lastId <= lastId' /\ lastId' \in Nat
    BY <1>1, <1>2, <1>5, <1>10 DEF InboxLonger
  <2>4. \A i \in Suggested \ scenes : rows[i] = inbox[i]
    BY <1>3, <1>7
  <2>5. \A i \in scenes : rows[i].made \in lastId + 1 .. lastId'
    BY <1>1, <1>2, <1>5, <1>7
  <2>6. undoable'[Len(undoable')].batch = batched + 1 /\ scenes \subseteq Suggested
    BY <1>1, <1>2, <1>10, InboxChanges DEF InboxLonger
  <2>7. \A i \in scenes : rows[i].status = "accepted" /\ rows[i].batch = batched + 1 /\ rows[i].made \in lastId + 1 .. lastId'
    BY <1>7, <2>5
  <2> QED
    BY <1>7, <1>11, <1>12, <2>1, <2>2, <2>3, <2>4, <2>6, <2>7, InboxAccepts, SMTT(100)
<1> QED
  <2>1. \A i \in r.todo : ~Inbox!Scene(i)
    BY <1>2, <1>8
  <2>2. \A j \in Suggested : j \notin r.marks => r.rows[j] = inbox[j]
    BY <1>2, <1>3, <1>7, <1>8
  <2>3. \A i \in r.marks : ~InboxLive(inbox[i]) /\ r.rows[i].status # "reverting" /\ (i \notin r.tags => r.rows[i].batch = 0)
    BY <1>2, <1>3, <1>7, <1>8
  <2>4. \A i, j \in r.marks : Inbox!Beat(j) => Needs[j] # i
    BY <1>2, <1>8, InboxConstants
  <2>5. lastId' \in 0 .. MaxThings
    BY <1>1, <1>2, <1>5
  <2>6. undoable' \in Seq(InboxChange)
    BY <1>10 DEF InboxLonger
  <2> QED
    BY <1>1, <1>5, <1>6, <1>8, <1>10, <1>13, <2>6, <2>1, <2>2, <2>3, <2>4, <2>5, InboxApplies

(* Nothing but the rows of what the caller refuses is changed.                 *)
LEMMA InboxRefuses ==
    ASSUME InboxInv, InboxUnwritten = {}, InboxAsking.todo # {}, NEW S \in SUBSET InboxAsking.todo,
           NEW rows \in [Suggested -> InboxRow],
           \A i \in Suggested : rows[i] = IF i \in S THEN Inbox!Failed(InboxAsking.rows[i]) ELSE InboxAsking.rows[i],
           NEW r \in InboxCall, r.pc = "accept", r.todo = InboxAsking.todo \ S, r.marks = S, r.tags = {}, r.rows = rows,
           asked' = [asked EXCEPT ![Asker] = r], \A i \in r.todo : ~Inbox!Scene(i),
           \A i, j \in S : Inbox!Beat(j) => Needs[j] # i,
           UNCHANGED <<inbox, things, lastId, batched, undoable, serving, torn, dropped>>
    PROVE  InboxInv'
<1>1. /\ InboxNow = inbox /\ InboxAsking.todo \subseteq Suggested
      /\ inbox \in [Suggested -> InboxRow]
  BY InboxFacts DEF InboxInv, InboxTyped, InboxCall
<1>2. (\A i \in InboxAsking.todo : ~InboxLive(inbox[i])) /\ \A j \in Suggested : InboxAsking.rows[j] = inbox[j]
  BY DEF InboxInv, InboxAsks
<1>3. InboxWorld(inbox, things, undoable, torn, dropped, lastId, batched)
  BY <1>1 DEF InboxInv
<1>4. \A i \in S : /\ rows[i].status = "failed" /\ rows[i].made = 0 /\ rows[i].batch = 0
                   /\ ~InboxLive(rows[i]) /\ ~InboxLive(inbox[i])
  <2> SUFFICES ASSUME NEW i \in S
               PROVE  rows[i].status = "failed" /\ rows[i].made = 0 /\ rows[i].batch = 0 /\ ~InboxLive(inbox[i])
    BY DEF InboxLive
  <2>1. i \in Suggested /\ ~InboxLive(inbox[i]) /\ rows[i] = Inbox!Failed(inbox[i]) /\ inbox[i] \in InboxRow
    BY <1>1, <1>2
  <2>2. inbox[i].batch = 0
    BY <1>3, <2>1 DEF InboxWorld, InboxRows
  <2> QED
    BY <2>1, <2>2 DEF Inbox!Failed, InboxRow
<1>5. InboxWorld(rows, things, undoable, torn, dropped, lastId, batched)
  <2>1. \A i \in Suggested :
            \/ rows[i] = inbox[i]
            \/ ~InboxLive(inbox[i]) /\ ~InboxLive(rows[i]) /\ rows[i].made = 0 /\ rows[i].batch = 0
    <3> SUFFICES ASSUME NEW i \in Suggested
                 PROVE  \/ rows[i] = inbox[i]
                        \/ ~InboxLive(inbox[i]) /\ ~InboxLive(rows[i]) /\ rows[i].made = 0 /\ rows[i].batch = 0
      OBVIOUS
    <3>1. CASE i \in S
      BY <1>4, <3>1
    <3>2. CASE i \notin S
      <4>1. rows[i] = InboxAsking.rows[i]
        BY <3>2
      <4>2. InboxAsking.rows[i] = inbox[i]
        BY <1>2
      <4> QED
        BY <4>1, <4>2
    <3> QED
      BY <3>1, <3>2
  <2> QED
    BY <1>3, <2>1, InboxFails
<1>6. InboxWorld(r.rows, things', undoable', torn, dropped, lastId', batched')
  BY <1>5
<1>7. InboxAsking.pc # "idle"
  BY DEF InboxInv, InboxAsks
<1>8. \A i \in r.marks : ~InboxLive(inbox[i]) /\ r.rows[i].status # "reverting" /\ (i \notin r.tags => r.rows[i].batch = 0)
  BY <1>4
<1>9. \A j \in Suggested : j \notin r.marks => r.rows[j] = inbox[j]
  BY <1>2
<1>10. lastId' \in 0 .. MaxThings /\ undoable' \in Seq(InboxChange) /\ Cardinality(Inbox!Kept(undoable')) <= MaxUndoable
  BY DEF InboxInv, InboxTyped
<1> QED
  BY <1>6, <1>7, <1>8, <1>9, <1>10, InboxApplies

LEMMA InboxRefusesOutline ==
    ASSUME InboxInv, Inbox!RefuseOutline(Asker)
    PROVE  InboxInv'
<1> DEFINE scenes == Inbox!Structural(Asker)
           rows == [i \in Suggested |-> IF i \in scenes THEN Inbox!Failed(InboxAsking.rows[i]) ELSE InboxAsking.rows[i]]
           r == [InboxAsking EXCEPT !.pc = "accept", !.todo = InboxAsking.todo \ scenes, !.marks = scenes, !.rows = rows]
<1>1. InboxAsking.pc = "outline" /\ InboxUnwritten = {}
  BY InboxFacts DEF Inbox!RefuseOutline, InboxAsking
<1>2. InboxAsking.todo # {} /\ InboxAsking.todo \subseteq Suggested /\ InboxAsking.tags = {}
  BY <1>1, InboxFacts DEF InboxInv, InboxAsks, InboxCall, InboxUnwritten
<1>3. scenes = {i \in InboxAsking.todo : Inbox!Scene(i)} /\ scenes \in SUBSET InboxAsking.todo
  BY DEF Inbox!Structural, InboxAsking
<1>4. asked' = [asked EXCEPT ![Asker] = r] /\ UNCHANGED <<inbox, things, lastId, batched, undoable, serving, torn, dropped>>
  BY DEF Inbox!RefuseOutline, InboxAsking, Inbox!elsewhere
<1> HIDE DEF scenes
<1>5. rows \in [Suggested -> InboxRow]
  <2>1. InboxAsking.rows \in [Suggested -> InboxRow]
    BY InboxFacts DEF InboxCall
  <2>2. \A x \in InboxRow : Inbox!Failed(x) \in InboxRow
    BY DEF Inbox!Failed, InboxRow, Inbox!Statuses
  <2> QED
    BY <2>1, <2>2
<1>6. \A i \in Suggested : rows[i] = IF i \in scenes THEN Inbox!Failed(InboxAsking.rows[i]) ELSE InboxAsking.rows[i]
  OBVIOUS
<1> HIDE DEF rows
<1>7. /\ r \in InboxCall /\ r.pc = "accept" /\ r.todo = InboxAsking.todo \ scenes
      /\ r.marks = scenes /\ r.tags = {} /\ r.rows = rows
  BY <1>2, <1>3, <1>5, InboxFacts DEF InboxCall, InboxPcs
<1> HIDE DEF r
<1>8. (\A i \in r.todo : ~Inbox!Scene(i)) /\ \A i, j \in scenes : Inbox!Beat(j) => Needs[j] # i
  BY <1>2, <1>3, <1>7, InboxConstants
<1> QED
  BY <1>1, <1>2, <1>3, <1>4, <1>5, <1>6, <1>7, <1>8, InboxRefuses

LEMMA InboxOneItem == \A i \in Suggested : Inbox!Beat(i) => Needs[i] # i
BY InboxConstants

LEMMA InboxRefusesItem ==
    ASSUME InboxInv, Inbox!AtRest(Asker), NEW i \in InboxAsking.todo, Inbox!RefuseItem(Asker, i),
           UNCHANGED <<inbox, batched, undoable, serving, torn, dropped>>
    PROVE  InboxInv'
<1> DEFINE rows == [InboxAsking.rows EXCEPT ![i] = Inbox!Failed(InboxAsking.rows[i])]
           r == [InboxAsking EXCEPT !.todo = InboxAsking.todo \ {i}, !.marks = {i}, !.rows = rows]
<1>1. InboxAsking.pc = "accept" /\ InboxUnwritten = {} /\ InboxAsking.tags = {}
  BY InboxFacts DEF Inbox!AtRest, InboxAsking, InboxUnwritten
<1>2. InboxAsking.todo \subseteq Suggested /\ i \in Suggested /\ \A j \in InboxAsking.todo : ~Inbox!Scene(j)
  BY <1>1, InboxFacts DEF InboxInv, InboxAsks, InboxCall
<1>3. asked' = [asked EXCEPT ![Asker] = r] /\ UNCHANGED <<things, lastId>>
  BY DEF Inbox!RefuseItem, InboxAsking
<1>4. rows \in [Suggested -> InboxRow] /\ \A j \in Suggested : rows[j] = IF j \in {i} THEN Inbox!Failed(InboxAsking.rows[j]) ELSE InboxAsking.rows[j]
  <2>1. InboxAsking.rows \in [Suggested -> InboxRow]
    BY InboxFacts DEF InboxCall
  <2>2. \A x \in InboxRow : Inbox!Failed(x) \in InboxRow
    BY DEF Inbox!Failed, InboxRow, Inbox!Statuses
  <2> QED
    BY <1>2, <2>1, <2>2
<1> HIDE DEF rows
<1>5. /\ r \in InboxCall /\ r.pc = "accept" /\ r.todo = InboxAsking.todo \ {i}
      /\ r.marks = {i} /\ r.tags = {} /\ r.rows = rows
  BY <1>1, <1>2, <1>4, InboxFacts DEF InboxCall, InboxPcs
<1> HIDE DEF r
<1>6. (\A j \in r.todo : ~Inbox!Scene(j)) /\ \A j, k \in {i} : Inbox!Beat(k) => Needs[k] # j
  BY <1>2, <1>5, InboxOneItem
<1>7. {i} \in SUBSET InboxAsking.todo /\ InboxAsking.todo # {}
  OBVIOUS
<1> QED
  BY <1>1, <1>3, <1>4, <1>5, <1>6, <1>7, InboxRefuses

InboxApplied(r, b, i, t) ==
    /\ asked' = [asked EXCEPT ![Asker] = r] /\ r.pc = "accept"
    /\ r.todo = InboxAsking.todo \ {i} /\ r.marks = {i} /\ r.tags = (IF b = 0 THEN {} ELSE {i})
    /\ \A j \in Suggested \ {i} : r.rows[j] = inbox[j]
    /\ r.rows[i].status = "accepted" /\ r.rows[i].made = t /\ r.rows[i].batch = b
    /\ InboxRidden(inbox, i, b, i \in InboxAsking.loose) /\ (Sort[i] = "person" => b = 0)

(* An item is accepted: what is known of its batch, and where the call stands. *)
LEMMA InboxAppliesItem ==
    ASSUME InboxInv, Inbox!AtRest(Asker), NEW i \in InboxAsking.todo, NEW t \in Nat, Inbox!Applied(Asker, i, t),
           i \in InboxAsking.loose \/ Needs[i] = NoItem \/ Inbox!Known(InboxAsking.rows, Needs[i]) \in DOMAIN things
    PROVE  \E r \in InboxCall, b \in Nat : InboxApplied(r, b, i, t)
<1>1. InboxAsking.pc = "accept" /\ InboxUnwritten = {} /\ InboxNow = inbox
  BY InboxFacts DEF Inbox!AtRest, InboxAsking, InboxUnwritten
<1>2. /\ InboxAsking.todo \subseteq Suggested /\ i \in Suggested /\ InboxAsking \in InboxCall
      /\ ~InboxLive(inbox[i]) /\ ~Inbox!Scene(i) /\ \A j \in Suggested : InboxAsking.rows[j] = inbox[j]
  BY <1>1, InboxFacts DEF InboxInv, InboxAsks, InboxCall
<1>3. InboxWorld(inbox, things, undoable, torn, dropped, lastId, batched) /\ inbox \in [Suggested -> InboxRow]
  BY <1>1 DEF InboxInv, InboxTyped
<1>4. inbox[i].batch = 0 /\ \A j \in Suggested : inbox[j].batch \in Nat
  BY <1>2, <1>3 DEF InboxWorld, InboxRows, InboxRow
<1> DEFINE b == Inbox!Rides(InboxAsking, i)
           tags == IF b = 0 THEN {} ELSE {i}
           rows == [InboxAsking.rows EXCEPT ![i] = Inbox!Accepted(t, b)]
           r == [InboxAsking EXCEPT !.todo = InboxAsking.todo \ {i}, !.marks = {i}, !.tags = tags, !.rows = rows]
<1>5. b \in Nat
  BY <1>2, <1>4, InboxConstants DEF Inbox!Rides
<1>6. asked' = [asked EXCEPT ![Asker] = r]
  <2>1. (IF Inbox!Rides(InboxAsking, i) # 0 THEN Inbox!Rides(InboxAsking, i) ELSE InboxAsking.rows[i].batch) = b
    BY <1>2, <1>4
  <2> QED
    BY <2>1 DEF Inbox!Applied, InboxAsking
<1>7. InboxRidden(inbox, i, b, i \in InboxAsking.loose)
  <2>1. CASE Inbox!Beat(i) /\ i \notin InboxAsking.loose /\ Needs[i] # NoItem
    <3>1. Needs[i] \in Suggested /\ b = inbox[Needs[i]].batch
      BY <1>2, <2>1, InboxConstants DEF Inbox!Rides
    <3>2. inbox[Needs[i]].status = "accepted"
      <4>1. \A s \in DOMAIN things : s # 0
        BY <1>3, InboxFacts, InboxOutlines DEF InboxWorld, InboxTypes
      <4> QED
        BY <1>2, <2>1, <3>1, <4>1 DEF Inbox!Known
    <3>3. b # 0 => Inbox!Scene(Needs[i])
      <4>1. ~Inbox!Beat(Needs[i])
        BY <1>2, <2>1, InboxConstants
      <4>2. inbox[Needs[i]].batch # 0 => Inbox!Scene(Needs[i]) \/ Inbox!Beat(Needs[i])
        BY <1>3, <3>1 DEF InboxWorld, InboxBatches
      <4> HIDE DEF b
      <4> QED
        BY <3>1, <4>1, <4>2
    <3> QED
      BY <2>1, <3>1, <3>2, <3>3 DEF InboxRidden, InboxLive
  <2>2. CASE ~(Inbox!Beat(i) /\ i \notin InboxAsking.loose /\ Needs[i] # NoItem)
    <3>1. b = 0
      BY <2>2 DEF Inbox!Rides
    <3> QED
      BY <2>2, <3>1, InboxConstants DEF InboxRidden
  <2> QED
    BY <2>1, <2>2
<1>8. Sort[i] = "person" => b = 0
  BY InboxConstants DEF Inbox!Rides
<1> HIDE DEF b
<1>9. rows \in [Suggested -> InboxRow] /\ rows[i] = Inbox!Accepted(t, b) /\ \A j \in Suggested \ {i} : rows[j] = inbox[j]
  <2>1. Inbox!Accepted(t, b) \in InboxRow
    BY <1>5 DEF Inbox!Accepted, InboxRow, Inbox!Statuses
  <2> QED
    BY <1>2, <2>1 DEF InboxCall
<1> HIDE DEF rows
<1>10. tags \subseteq Suggested
  BY <1>2
<1>11. tags = IF b = 0 THEN {} ELSE {i}
  OBVIOUS
<1> HIDE DEF tags
<1>12. /\ r \in InboxCall /\ r.pc = "accept" /\ r.todo = InboxAsking.todo \ {i}
       /\ r.marks = {i} /\ r.tags = tags /\ r.rows = rows
  BY <1>1, <1>2, <1>9, <1>10 DEF InboxCall
<1> HIDE DEF r
<1>13. rows[i].status = "accepted" /\ rows[i].made = t /\ rows[i].batch = b
  BY <1>9 DEF Inbox!Accepted
<1> QED
  <2>1. InboxApplied(r, b, i, t)
    BY <1>6, <1>7, <1>8, <1>9, <1>11, <1>12, <1>13 DEF InboxApplied
  <2> QED
    BY <1>5, <1>12, <2>1

LEMMA InboxLinksItem ==
    ASSUME InboxInv, Inbox!AtRest(Asker), NEW i \in InboxAsking.todo, Inbox!LinkItem(Asker, i),
           UNCHANGED <<inbox, batched, undoable, serving, torn, dropped>>
    PROVE  InboxInv'
<1>1. PICK t \in Inbox!Of(i) : Inbox!Applied(Asker, i, t)
  BY DEF Inbox!LinkItem
<1>2. /\ Sort[i] = "person" /\ UNCHANGED <<things, lastId>> /\ t \in DOMAIN things /\ things[t].of = i
      /\ (i \in InboxAsking.loose \/ Needs[i] = NoItem \/ Inbox!Known(InboxAsking.rows, Needs[i]) \in DOMAIN things)
  BY <1>1 DEF Inbox!LinkItem, Inbox!Of, Inbox!Grounded, InboxAsking
<1>3. InboxUnwritten = {} /\ InboxNow = inbox /\ InboxAsking.pc = "accept"
  BY InboxFacts DEF Inbox!AtRest, InboxAsking, InboxUnwritten
<1>4. InboxWorld(inbox, things, undoable, torn, dropped, lastId, batched) /\ inbox \in [Suggested -> InboxRow]
  BY <1>3 DEF InboxInv, InboxTyped
<1>5. t \in Nat
  BY <1>2, <1>4, InboxFacts, InboxOutlines DEF InboxWorld, InboxTypes
<1>6. PICK r \in InboxCall, b \in Nat : InboxApplied(r, b, i, t)
  BY <1>1, <1>2, <1>5, InboxAppliesItem
<1>7. i \in Suggested /\ ~InboxLive(inbox[i]) /\ r.rows \in [Suggested -> InboxRow] /\ \A j \in InboxAsking.todo : ~Inbox!Scene(j)
  BY <1>3, InboxFacts DEF InboxInv, InboxAsks, InboxCall
<1>8. InboxWorld(r.rows, things, undoable, torn, dropped, lastId, batched)
  BY <1>2, <1>4, <1>6, <1>7, InboxLinks DEF InboxApplied
<1>9. InboxWorld(r.rows, things', undoable', torn, dropped, lastId', batched')
  BY <1>2, <1>8
<1>10. lastId' \in 0 .. MaxThings /\ undoable' \in Seq(InboxChange) /\ Cardinality(Inbox!Kept(undoable')) <= MaxUndoable
  BY <1>2 DEF InboxInv, InboxTyped
<1>11. \A j, k \in r.marks : Inbox!Beat(k) => Needs[k] # j
  BY <1>6, <1>7, InboxOneItem DEF InboxApplied
<1> QED
  BY <1>3, <1>6, <1>7, <1>9, <1>10, <1>11, InboxApplies DEF InboxApplied

LEMMA InboxMakesItem ==
    ASSUME InboxInv, Inbox!AtRest(Asker), NEW i \in InboxAsking.todo, Inbox!MakeItem(Asker, i),
           UNCHANGED <<inbox, batched, undoable, serving, torn, dropped>>
    PROVE  InboxInv'
<1> DEFINE by == IF i \in InboxAsking.loose THEN "loose" ELSE "accept"
<1>1. /\ lastId < MaxThings /\ lastId' = lastId + 1 /\ Inbox!Applied(Asker, i, lastId + 1)
      /\ things' = [t \in DOMAIN things \cup {lastId + 1} |-> IF t \in DOMAIN things THEN things[t] ELSE Inbox!Thing(i, by)]
      /\ (i \in InboxAsking.loose \/ Needs[i] = NoItem \/ Inbox!Known(InboxAsking.rows, Needs[i]) \in DOMAIN things)
  BY DEF Inbox!MakeItem, Inbox!Grounded, InboxAsking
<1>2. by \in {"accept", "loose"} /\ (by = "loose" <=> i \in InboxAsking.loose)
  OBVIOUS
<1> HIDE DEF by
<1>3. InboxUnwritten = {} /\ InboxNow = inbox /\ InboxAsking.pc = "accept" /\ lastId \in Nat
  BY InboxFacts DEF Inbox!AtRest, InboxAsking, InboxUnwritten
<1>4. InboxWorld(inbox, things, undoable, torn, dropped, lastId, batched) /\ inbox \in [Suggested -> InboxRow]
  BY <1>3 DEF InboxInv, InboxTyped
<1>5. PICK r \in InboxCall, b \in Nat : InboxApplied(r, b, i, lastId + 1)
  <2>1. lastId + 1 \in Nat
    BY <1>3
  <2> QED
    BY <1>1, <2>1, InboxAppliesItem
<1>6. i \in Suggested /\ ~InboxLive(inbox[i]) /\ r.rows \in [Suggested -> InboxRow] /\ \A j \in InboxAsking.todo : ~Inbox!Scene(j)
  BY <1>3, InboxFacts DEF InboxInv, InboxAsks, InboxCall
<1>7. /\ InboxOutline(things', lastId + 1) /\ DOMAIN things' = DOMAIN things \cup {lastId + 1}
      /\ \A t \in DOMAIN things : things'[t] = things[t]
      /\ things'[lastId + 1].of = i /\ things'[lastId + 1].by = by
  <2>1. \A t \in DOMAIN things : t \in Nat /\ t # 0 /\ t <= lastId /\ things[t] \in InboxThing
    BY <1>3, <1>4 DEF InboxWorld, InboxTypes, InboxOutline
  <2>2. Inbox!Thing(i, by) \in InboxThing /\ Inbox!Thing(i, by).of = i /\ Inbox!Thing(i, by).by = by
    BY <1>2, <1>6 DEF Inbox!Thing, InboxThing
  <2>3. lastId + 1 \notin DOMAIN things
    BY <1>3, <2>1
  <2>4. /\ DOMAIN things' = DOMAIN things \cup {lastId + 1} /\ \A t \in DOMAIN things : things'[t] = things[t]
        /\ things'[lastId + 1] = Inbox!Thing(i, by)
    BY <1>1, <2>3
  <2>5. \A t \in DOMAIN things' : things'[t] \in InboxThing /\ t \in 1 .. lastId + 1
    BY <1>3, <2>1, <2>2, <2>4
  <2>6. things' = [t \in DOMAIN things' |-> things'[t]]
    BY <1>1
  <2>7. InboxOutline(things', lastId + 1)
    BY <2>5, <2>6 DEF InboxOutline
  <2> QED
    BY <2>2, <2>4, <2>7
<1>8. InboxWorld(r.rows, things', undoable, torn, dropped, lastId + 1, batched)
  <2>1. InboxRidden(inbox, i, b, by = "loose")
    BY <1>2, <1>5 DEF InboxApplied
  <2>2. ~Inbox!Scene(i)
    BY <1>6
  <2> QED
    BY <1>2, <1>4, <1>5, <1>6, <1>7, <2>1, <2>2, InboxMakes DEF InboxApplied
<1>9. InboxWorld(r.rows, things', undoable', torn, dropped, lastId', batched')
  BY <1>1, <1>8
<1>10. lastId' \in 0 .. MaxThings /\ undoable' \in Seq(InboxChange) /\ Cardinality(Inbox!Kept(undoable')) <= MaxUndoable
  BY <1>1, <1>3, InboxConstants DEF InboxInv, InboxTyped
<1>11. \A j, k \in r.marks : Inbox!Beat(k) => Needs[k] # j
  BY <1>5, <1>6, InboxOneItem DEF InboxApplied
<1> QED
  BY <1>3, <1>5, <1>6, <1>9, <1>10, <1>11, InboxApplies DEF InboxApplied

LEMMA InboxAppliesNext ==
    ASSUME InboxInv, Inbox!ApplyItem(Asker)
    PROVE  InboxInv'
<1>1. PICK i \in InboxAsking.todo :
        Inbox!RefuseItem(Asker, i) \/ Inbox!LinkItem(Asker, i) \/ Inbox!MakeItem(Asker, i)
  BY DEF Inbox!ApplyItem, InboxAsking
<1>2. Inbox!AtRest(Asker) /\ UNCHANGED <<inbox, batched, undoable, serving, torn, dropped>>
  BY DEF Inbox!ApplyItem, Inbox!elsewhere
<1> QED
  BY <1>1, <1>2, InboxRefusesItem, InboxLinksItem, InboxMakesItem

-----------------------------------------------------------------------------
(* What was applied is written down, item by item: the rows say it already.    *)
LEMMA InboxPersists ==
    ASSUME InboxInv, Inbox!Persist(Asker)
    PROVE  InboxInv'
<1>1. /\ InboxAsking \in InboxCall /\ InboxNow \in [Suggested -> InboxRow] /\ InboxUnwritten \subseteq Suggested
      /\ inbox \in [Suggested -> InboxRow] /\ InboxAsking.rows \in [Suggested -> InboxRow]
      /\ InboxUnwritten = InboxAsking.marks \cup InboxAsking.tags /\ asked \in [{Asker, Inbox!Engine} -> InboxCall]
  BY InboxFacts DEF InboxInv, InboxTyped, InboxCall, InboxUnwritten
<1>2. PICK i \in InboxUnwritten :
        IF i \in InboxAsking.marks
        THEN /\ inbox' = [inbox EXCEPT ![i] = [InboxAsking.rows[i] EXCEPT !.batch = inbox[i].batch]]
             /\ asked' = [asked EXCEPT ![Asker].marks = @ \ {i}]
        ELSE /\ inbox' = [inbox EXCEPT ![i].batch = InboxAsking.rows[i].batch]
             /\ asked' = [asked EXCEPT ![Asker].tags = @ \ {i}]
  BY InboxFacts DEF Inbox!Persist, InboxAsking
<1> DEFINE marks == InboxAsking.marks \ {i}
           tags == IF i \in InboxAsking.marks THEN InboxAsking.tags ELSE InboxAsking.tags \ {i}
           r == [InboxAsking EXCEPT !.marks = marks, !.tags = tags]
<1>3. UNCHANGED <<things, lastId, batched, undoable, serving, torn, dropped>>
  BY DEF Inbox!Persist, Inbox!elsewhere
<1>4. i \in Suggested /\ inbox[i] \in InboxRow /\ InboxAsking.rows[i] \in InboxRow
  BY <1>1, <1>2
<1>5. /\ inbox[i].batch = 0 /\ InboxAsking.rows[i].status # "reverting"
      /\ i \notin InboxAsking.marks => inbox[i].status = InboxAsking.rows[i].status /\ inbox[i].made = InboxAsking.rows[i].made
      /\ i \notin InboxAsking.tags => InboxAsking.rows[i].batch = 0
  BY <1>2 DEF InboxInv, InboxWrites
<1>6. /\ inbox' \in [Suggested -> InboxRow] /\ \A j \in Suggested \ {i} : inbox'[j] = inbox[j]
      /\ inbox'[i].status = InboxAsking.rows[i].status /\ inbox'[i].made = InboxAsking.rows[i].made
      /\ i \in marks \cup tags => inbox'[i].batch = 0
      /\ i \notin marks \cup tags => inbox'[i] = InboxAsking.rows[i]
  <2>1. CASE i \in InboxAsking.marks
    <3> DEFINE new == [InboxAsking.rows[i] EXCEPT !.batch = inbox[i].batch]
    <3>1. /\ new \in InboxRow /\ new.status = InboxAsking.rows[i].status /\ new.made = InboxAsking.rows[i].made
          /\ new.batch = 0 /\ (InboxAsking.rows[i].batch = 0 => new = InboxAsking.rows[i])
      BY <1>4, <1>5 DEF InboxRow
    <3>2. inbox' = [inbox EXCEPT ![i] = new]
      BY <1>2, <2>1
    <3> HIDE DEF new
    <3>3. inbox' \in [Suggested -> InboxRow] /\ inbox'[i] = new /\ \A j \in Suggested \ {i} : inbox'[j] = inbox[j]
      BY <1>1, <1>4, <3>1, <3>2
    <3> QED
      BY <1>5, <2>1, <3>1, <3>3
  <2>2. CASE i \notin InboxAsking.marks
    <3> DEFINE new == [inbox[i] EXCEPT !.batch = InboxAsking.rows[i].batch]
    <3>1. new \in InboxRow /\ new = InboxAsking.rows[i]
      BY <1>4, <1>5, <2>2 DEF InboxRow
    <3>2. inbox' = [inbox EXCEPT ![i] = new]
      BY <1>2, <2>2
    <3> HIDE DEF new
    <3>3. inbox' \in [Suggested -> InboxRow] /\ inbox'[i] = new /\ \A j \in Suggested \ {i} : inbox'[j] = inbox[j]
      BY <1>1, <1>4, <3>1, <3>2
    <3> QED
      BY <1>5, <2>2, <3>1, <3>3
  <2> QED
    BY <2>1, <2>2
<1>7. asked' = [asked EXCEPT ![Asker] = r]
  <2>1. CASE i \in InboxAsking.marks
    <3>1. tags = InboxAsking.tags
      BY <2>1
    <3>2. r = [InboxAsking EXCEPT !.marks = marks]
      <4> HIDE DEF marks, tags
      <4> QED
        BY <1>1, <3>1 DEF InboxCall
    <3> QED
      BY <1>1, <1>2, <2>1, <3>2 DEF InboxAsking
  <2>2. CASE i \notin InboxAsking.marks
    <3>1. marks = InboxAsking.marks
      BY <2>2
    <3>2. r = [InboxAsking EXCEPT !.tags = tags]
      <4> HIDE DEF marks, tags
      <4> QED
        BY <1>1, <3>1 DEF InboxCall
    <3> QED
      BY <1>1, <1>2, <2>2, <3>2 DEF InboxAsking
  <2> QED
    BY <2>1, <2>2
<1>8. /\ marks \subseteq InboxAsking.marks /\ tags \subseteq InboxAsking.tags /\ i \notin marks
      /\ \A j \in Suggested \ {i} : (j \in marks <=> j \in InboxAsking.marks) /\ (j \in tags <=> j \in InboxAsking.tags)
      /\ i \notin InboxAsking.marks => i \notin tags
      /\ i \notin tags => i \notin InboxAsking.tags \/ i \notin InboxAsking.marks
      /\ i \in tags => i \in InboxAsking.tags
  OBVIOUS
<1> HIDE DEF marks, tags
<1>9. /\ r \in InboxCall /\ r.marks = marks /\ r.tags = tags /\ r.todo = InboxAsking.todo /\ r.pc = InboxAsking.pc
      /\ r.rows = InboxAsking.rows /\ r.want = InboxAsking.want
  BY <1>1, <1>8 DEF InboxCall
<1> HIDE DEF r
<1>10. InboxAsking.pc = "accept" /\ serving
  BY <1>2, InboxFacts
<1>11. /\ asked' \in [{Asker, Inbox!Engine} -> InboxCall] /\ InboxAsking' = r /\ InboxUnwritten' = marks \cup tags
       /\ InboxStarts' /\ InboxUndoes(InboxStarting, InboxNow, things, undoable, torn, dropped)'
  BY <1>3, <1>7, <1>9, <1>10, InboxFacts, InboxAskerMoves DEF InboxInv
<1>12. InboxNow' = InboxNow
  <2>1. InboxNow' = [j \in Suggested |-> IF j \in marks \cup tags THEN InboxAsking.rows[j] ELSE inbox'[j]]
    BY <1>9, <1>11 DEF InboxNow
  <2>2. ASSUME NEW j \in Suggested
        PROVE  InboxNow[j] = IF j \in marks \cup tags THEN InboxAsking.rows[j] ELSE inbox'[j]
    <3>1. InboxNow[j] = IF j \in InboxUnwritten THEN InboxAsking.rows[j] ELSE inbox[j]
      BY DEF InboxNow
    <3>2. CASE j = i
      BY <1>2, <1>6, <3>1, <3>2
    <3>3. CASE j # i
      <4>1. j \in InboxUnwritten <=> j \in marks \cup tags
        BY <1>1, <1>8, <3>3
      <4> QED
        BY <1>6, <3>1, <3>3, <4>1
    <3> QED
      BY <3>2, <3>3
  <2> QED
    BY <1>1, <2>1, <2>2
<1>13. InboxTyped'
  BY <1>3, <1>6, <1>11 DEF InboxInv, InboxTyped
<1>14. InboxAsks'
  <2>1. InboxAsks
    BY DEF InboxInv
  <2>2. InboxAsking.todo \cap InboxUnwritten = {} /\ i \notin InboxAsking.todo /\ InboxAsking.todo \subseteq Suggested
    BY <1>1, <1>2, <2>1 DEF InboxAsks, InboxCall
  <2>3. \A j \in InboxAsking.todo : j \in Suggested /\ inbox'[j] = inbox[j]
    BY <1>6, <2>2
  <2>4. marks \cup tags \subseteq InboxUnwritten
    BY <1>1, <1>8
  <2>5. \A j \in Suggested : j # i => (j \in marks \cup tags <=> j \in InboxUnwritten)
    BY <1>1, <1>8
  <2>6. InboxAsking.todo # {} => \A j \in Suggested : j \notin marks \cup tags => InboxAsking.rows[j] = inbox'[j]
    <3> SUFFICES ASSUME InboxAsking.todo # {}, NEW j \in Suggested, j \notin marks \cup tags
                 PROVE  InboxAsking.rows[j] = inbox'[j]
      OBVIOUS
    <3>1. CASE j = i
      BY <1>6, <3>1
    <3>2. CASE j # i
      BY <1>6, <2>1, <2>5, <3>2 DEF InboxAsks
    <3> QED
      BY <3>1, <3>2
  <2>7. InboxAsking.todo # {} => InboxAsking.pc \in {"accept", "outline"}
    BY <1>10
  <2> QED
    BY <1>9, <1>10, <1>11, <2>1, <2>2, <2>3, <2>4, <2>6 DEF InboxAsks
<1>15. InboxWrites'
  <2> SUFFICES ASSUME NEW j \in marks \cup tags
               PROVE  /\ inbox'[j].batch = 0 /\ InboxAsking.rows[j].status # "reverting"
                      /\ j \in marks => ~InboxLive(inbox'[j]) /\ inbox'[j].made = 0
                      /\ j \notin marks => inbox'[j].status = InboxAsking.rows[j].status /\ inbox'[j].made = InboxAsking.rows[j].made
                      /\ j \notin tags => InboxAsking.rows[j].batch = 0
                      /\ \A k \in Suggested : Inbox!Beat(k) /\ Needs[k] = j => InboxNow[k].batch = 0
    BY <1>9, <1>11, <1>12 DEF InboxWrites
  <2>1. j \in InboxUnwritten /\ j \in Suggested
    BY <1>1, <1>8
  <2>2. InboxWrites
    BY DEF InboxInv
  <2>3. CASE j = i
    BY <1>5, <1>6, <1>8, <2>1, <2>2, <2>3 DEF InboxWrites
  <2>4. CASE j # i
    BY <1>6, <1>8, <2>1, <2>2, <2>4 DEF InboxWrites
  <2> QED
    BY <2>3, <2>4
<1>16. InboxUndoes(InboxAsking, InboxNow, things, undoable, torn, dropped)'
  BY <1>9, <1>10, <1>11 DEF InboxUndoes, InboxUndoing
<1>17. InboxWorld(InboxNow, things, undoable, torn, dropped, lastId, batched)'
  BY <1>3, <1>12 DEF InboxInv
<1> QED
  BY <1>11, <1>13, <1>14, <1>15, <1>16, <1>17 DEF InboxInv

-----------------------------------------------------------------------------
(* An undo, and the start of the engine that settles one: what both do.        *)

(* One of them is under way, and nothing is there to be written down.          *)
LEMMA InboxUnderWay ==
    ASSUME InboxInv, NEW c \in {Asker, Inbox!Engine}, asked[c].pc \notin {"idle", "accept", "outline"}
    PROVE  /\ asked[c] \in InboxCall /\ asked[c].marks = {} /\ asked[c].tags = {} /\ asked[c].todo = {}
           /\ c = Asker => serving
           /\ c # Asker => ~serving /\ undoable = <<>> /\ InboxBoots(asked[c], inbox, torn)
           /\ InboxNow = inbox /\ InboxWorld(inbox, things, undoable, torn, dropped, lastId, batched)
           /\ InboxUndoes(asked[c], inbox, things, undoable, torn, dropped)
           /\ inbox \in [Suggested -> InboxRow]
<1>1. CASE c = Asker
  <2>1. InboxAsking = asked[c]
    BY <1>1 DEF InboxAsking
  <2>2. InboxUnwritten = {} /\ InboxNow = inbox /\ serving
    BY <2>1, InboxFacts
  <2> QED
    BY <1>1, <2>1, <2>2, InboxFacts DEF InboxInv, InboxTyped, InboxAsks, InboxUnwritten
<1>2. CASE c # Asker
  <2>1. InboxStarting = asked[c]
    BY <1>2 DEF InboxStarting
  <2>2. ~serving /\ InboxBoots(asked[c], inbox, torn) /\ undoable = <<>> /\ InboxNow = inbox
    BY <2>1, InboxFacts DEF InboxInv, InboxStarts
  <2> QED
    BY <1>2, <2>1, <2>2, InboxFacts DEF InboxInv, InboxTyped, InboxStarts
<1> QED
  BY <1>1, <1>2

(* It goes on to r.                                                            *)
LEMMA InboxSettles ==
    ASSUME InboxInv, NEW c \in {Asker, Inbox!Engine}, IF c = Asker THEN serving ELSE ~serving /\ undoable' = <<>>,
           NEW r \in InboxCall, asked' = [asked EXCEPT ![c] = r], serving' = serving,
           r.marks = {}, r.tags = {}, r.todo = {}, r.pc \notin {"outline", "reject"},
           c = Asker => r.pc # "boot", c # Asker => InboxBoots(r, inbox', torn'),
           inbox' \in [Suggested -> InboxRow], undoable' \in Seq(InboxChange),
           Cardinality(Inbox!Kept(undoable')) <= MaxUndoable, torn' \subseteq Suggested,
           lastId' = lastId, dropped' = dropped,
           InboxWorld(inbox', things', undoable', torn', dropped', lastId', batched'),
           InboxUndoes(r, inbox', things', undoable', torn', dropped')
    PROVE  InboxInv'
<1>1. Asker # Inbox!Engine /\ asked \in [{Asker, Inbox!Engine} -> InboxCall] /\ lastId \in 0 .. MaxThings /\ dropped \subseteq 1 .. MaxThings
  BY InboxFacts DEF InboxInv, InboxTyped
<1>2. asked' \in [{Asker, Inbox!Engine} -> InboxCall] /\ asked'[c] = r /\ \A d \in {Asker, Inbox!Engine} \ {c} : asked'[d] = asked[d]
  BY <1>1
<1>3. InboxTyped'
  BY <1>1, <1>2 DEF InboxInv, InboxTyped
<1>4. CASE c = Asker
  <2>1. InboxAsking' = r /\ InboxUnwritten' = {} /\ InboxStarting' = InboxStarting
    BY <1>1, <1>2, <1>4 DEF InboxAsking, InboxUnwritten, InboxStarting
  <2>2. InboxNow' = inbox'
    <3>1. InboxNow' = [i \in Suggested |-> inbox'[i]]
      BY <2>1 DEF InboxNow
    <3> QED
      BY <3>1
  <2>3. InboxStarting.pc = "idle"
    BY <1>4 DEF InboxInv, InboxStarts
  <2>4. InboxStarts'
    BY <1>4, <2>1, <2>3 DEF InboxInv, InboxStarts
  <2>5. InboxUndoes(InboxStarting, InboxNow, things, undoable, torn, dropped)'
    BY <2>1, <2>3 DEF InboxUndoes, InboxUndoing
  <2>6. InboxAsks'
    BY <1>4, <2>1 DEF InboxAsks
  <2>7. InboxWrites'
    BY <2>1 DEF InboxWrites
  <2>8. InboxWorld(InboxNow, things, undoable, torn, dropped, lastId, batched)'
    BY <2>2
  <2>9. InboxUndoes(InboxAsking, InboxNow, things, undoable, torn, dropped)'
    BY <2>1, <2>2
  <2> QED
    BY <1>3, <2>4, <2>5, <2>6, <2>7, <2>8, <2>9 DEF InboxInv
<1>5. CASE c # Asker
  <2>1. ~serving /\ c = Inbox!Engine
    BY <1>5
  <2>2. /\ InboxStarting' = r /\ InboxAsking' = InboxAsking /\ InboxNow' = inbox' /\ InboxAsking.pc = "idle"
        /\ InboxAsks' /\ InboxWrites' /\ InboxUndoes(InboxAsking, InboxNow, things, undoable, torn, dropped)'
    BY <2>1, InboxEngineMoves
  <2>3. InboxStarts'
    BY <1>5, <2>1, <2>2 DEF InboxStarts
  <2>4. InboxWorld(InboxNow, things, undoable, torn, dropped, lastId, batched)'
    BY <2>2
  <2>5. InboxUndoes(InboxStarting, InboxNow, things, undoable, torn, dropped)'
    BY <2>2
  <2> QED
    BY <1>3, <2>2, <2>3, <2>4, <2>5 DEF InboxInv
<1> QED
  BY <1>4, <1>5

LEMMA InboxReturn ==
    ASSUME InboxInv, NEW c \in {Asker, Inbox!Engine}
    PROVE  /\ Inbox!Return(c) \in InboxCall /\ Inbox!Return(c).marks = {} /\ Inbox!Return(c).tags = {}
           /\ Inbox!Return(c).todo = {} /\ Inbox!Return(c).pc \in {"idle", "boot"}
           /\ c = Asker => Inbox!Return(c) = Inbox!Idle
           /\ c # Asker => Inbox!Return(c).pc = "boot" /\ Inbox!Return(c).left = asked[c].left
<1>1. asked[c] \in InboxCall /\ Asker # Inbox!Engine
  BY InboxFacts DEF InboxInv, InboxTyped
<1>2. CASE c = Asker
  BY <1>1, <1>2, InboxIdle DEF Inbox!Return
<1>3. CASE c # Asker
  <2>1. Inbox!Return(c) = [Inbox!Idle EXCEPT !.pc = "boot", !.left = asked[c].left]
    BY <1>3 DEF Inbox!Return
  <2> QED
    BY <1>1, <1>3, <2>1, InboxIdle DEF InboxCall, InboxPcs
<1> QED
  BY <1>2, <1>3

(* It is over: whatever was half taken back in its batch is no more.           *)
LEMMA InboxSettled ==
    ASSUME InboxInv, NEW c \in {Asker, Inbox!Engine}, asked[c].pc \notin {"idle", "accept", "outline"},
           asked' = [asked EXCEPT ![c] = Inbox!Return(c)],
           UNCHANGED <<things, lastId, batched, undoable, serving, dropped>>,
           inbox' \in [Suggested -> InboxRow], torn' \subseteq Suggested,
           c # Asker => \A i \in Suggested \ torn' : inbox'[i].status = "reverting" => inbox'[i].batch \in asked[c].left,
           InboxWorld(inbox', things', undoable', torn', dropped', lastId', batched')
    PROVE  InboxInv'
<1>1. /\ c = Asker => serving
      /\ c # Asker => ~serving /\ undoable = <<>> /\ InboxBoots(asked[c], inbox, torn)
  BY InboxUnderWay
<1>2. /\ Inbox!Return(c) \in InboxCall /\ Inbox!Return(c).marks = {} /\ Inbox!Return(c).tags = {}
      /\ Inbox!Return(c).todo = {} /\ Inbox!Return(c).pc \in {"idle", "boot"}
      /\ c = Asker => Inbox!Return(c).pc # "boot"
      /\ c # Asker => Inbox!Return(c).pc = "boot" /\ Inbox!Return(c).left = asked[c].left
  BY InboxReturn, InboxIdle
<1>3. c # Asker => InboxBoots(Inbox!Return(c), inbox', torn')
  BY <1>1, <1>2 DEF InboxBoots
<1>4. InboxUndoes(Inbox!Return(c), inbox', things', undoable', torn', dropped')
  BY <1>2 DEF InboxUndoes, InboxUndoing
<1>5. undoable' \in Seq(InboxChange) /\ Cardinality(Inbox!Kept(undoable')) <= MaxUndoable
  BY DEF InboxInv, InboxTyped
<1>6. Inbox!Return(c).pc \notin {"outline", "reject"} /\ IF c = Asker THEN serving ELSE ~serving /\ undoable' = <<>>
  BY <1>1, <1>2
<1> QED
  BY <1>2, <1>3, <1>4, <1>5, <1>6, InboxSettles

LEMMA InboxRejects ==
    ASSUME InboxInv, NEW c \in {Asker, Inbox!Engine}, Inbox!Reject(c)
    PROVE  InboxInv'
<1>1. /\ asked[c].pc = "reject" /\ UNCHANGED <<things, lastId, batched, undoable, serving, torn, dropped>>
      /\ asked' = [asked EXCEPT ![c] = Inbox!Idle]
      /\ inbox' = [i \in Suggested |-> IF i \in asked[c].want THEN [inbox[i] EXCEPT !.status = "rejected", !.made = 0] ELSE inbox[i]]
  BY DEF Inbox!Reject, Inbox!elsewhere
<1>2. /\ c # Asker => InboxBoots(asked[c], inbox, torn)
      /\ InboxWorld(inbox, things, undoable, torn, dropped, lastId, batched) /\ inbox \in [Suggested -> InboxRow]
  BY <1>1, InboxUnderWay
<1>3. c = Asker /\ asked[c] = InboxAsking
  BY <1>1, <1>2 DEF InboxBoots, InboxAsking
<1>4. \A i \in asked[c].want : ~InboxLive(inbox[i])
  BY <1>1, <1>3 DEF InboxInv, InboxAsks
<1>5. ASSUME NEW i \in Suggested
      PROVE  /\ inbox'[i] \in InboxRow
             /\ \/ inbox'[i] = inbox[i]
                \/ ~InboxLive(inbox[i]) /\ ~InboxLive(inbox'[i]) /\ inbox'[i].made = 0 /\ inbox'[i].batch = 0
  <2>1. CASE i \in asked[c].want
    <3>1. inbox'[i] = [inbox[i] EXCEPT !.status = "rejected", !.made = 0]
      BY <1>1, <2>1
    <3>2. inbox[i] \in InboxRow /\ inbox[i].batch = 0
      BY <1>2, <1>4, <2>1 DEF InboxWorld, InboxRows
    <3> QED
      BY <1>4, <2>1, <3>1, <3>2 DEF InboxRow, InboxLive, Inbox!Statuses
  <2>2. CASE i \notin asked[c].want
    BY <1>1, <1>2, <2>2
  <2> QED
    BY <2>1, <2>2
<1>6. inbox' \in [Suggested -> InboxRow]
  BY <1>1, <1>5
<1>7. InboxWorld(inbox', things, undoable, torn, dropped, lastId, batched)
  BY <1>2, <1>5, <1>6, InboxFails
<1>8. Inbox!Return(c) = Inbox!Idle /\ torn \subseteq Suggested
  BY <1>3, InboxReturn DEF InboxInv, InboxTyped
<1> QED
  BY <1>1, <1>3, <1>6, <1>7, <1>8, InboxSettled

(* What an undo covers is marked as being taken back.                          *)
LEMMA InboxReverts ==
    ASSUME InboxInv, NEW c \in {Asker, Inbox!Engine}, Inbox!Revert(c)
    PROVE  InboxInv'
<1> DEFINE b == asked[c].batch
           r == [asked[c] EXCEPT !.pc = "undo"]
<1>1. /\ asked[c].pc = "revert" /\ UNCHANGED <<things, lastId, batched, undoable, serving, torn, dropped>>
      /\ asked' = [asked EXCEPT ![c].pc = "undo"]
      /\ inbox' = [i \in Suggested |-> IF i \in asked[c].items THEN [inbox[i] EXCEPT !.status = "reverting"] ELSE inbox[i]]
  BY DEF Inbox!Revert, Inbox!Reverting, Inbox!elsewhere
<1>2. /\ asked[c] \in InboxCall /\ asked[c].marks = {} /\ asked[c].tags = {} /\ asked[c].todo = {}
      /\ c = Asker => serving
      /\ c # Asker => InboxBoots(asked[c], inbox, torn)
      /\ InboxWorld(inbox, things, undoable, torn, dropped, lastId, batched) /\ inbox \in [Suggested -> InboxRow]
      /\ InboxUndoes(asked[c], inbox, things, undoable, torn, dropped)
  BY <1>1, InboxUnderWay
<1>3. c = Asker
  BY <1>1, <1>2 DEF InboxBoots
<1>4. /\ b \in Nat /\ b # 0 /\ asked[c].items = InboxCovered(inbox, b)
      /\ \A i \in asked[c].items : /\ asked[c].rows[i].made = inbox[i].made /\ asked[c].rows[i].batch = inbox[i].batch
                                   /\ InboxLive(asked[c].rows[i])
      /\ \A i, j \in asked[c].items : asked[c].rows[i].status = asked[c].rows[j].status
      /\ \A i \in asked[c].items : asked[c].rows[i].status = "accepted" =>
            \A j \in asked[c].items \ torn : InboxStands(inbox, things, undoable, dropped, j)
      /\ Len(undoable) = 0 \/ undoable[Len(undoable)].batch = b
  BY <1>1, <1>2 DEF InboxUndoes, InboxUndoing, InboxCall
<1>5. ASSUME NEW i \in Suggested
      PROVE  /\ inbox'[i] \in InboxRow /\ inbox'[i].made = inbox[i].made /\ inbox'[i].batch = inbox[i].batch
             /\ inbox'[i].status = IF inbox[i].batch = b THEN "reverting" ELSE inbox[i].status
  <2>1. i \in asked[c].items <=> inbox[i].batch = b
    BY <1>4 DEF InboxCovered
  <2>2. inbox[i] \in InboxRow
    BY <1>2
  <2>3. inbox'[i] = IF i \in asked[c].items THEN [inbox[i] EXCEPT !.status = "reverting"] ELSE inbox[i]
    BY <1>1
  <2> QED
    BY <2>1, <2>2, <2>3 DEF InboxRow, Inbox!Statuses
<1>6. inbox' \in [Suggested -> InboxRow]
  BY <1>1, <1>5
<1>7. /\ InboxWorld(inbox', things, undoable, torn, dropped, lastId, batched)
      /\ \A i \in Suggested : InboxStands(inbox, things, undoable, dropped, i) => InboxStands(inbox', things, undoable, dropped, i)
  BY <1>2, <1>4, <1>5, <1>6, InboxTurns
<1>8. asked' = [asked EXCEPT ![c] = r]
  BY <1>1
<1> HIDE DEF b
<1>9. /\ r \in InboxCall /\ r.pc = "undo" /\ r.marks = {} /\ r.tags = {} /\ r.todo = {} /\ r.batch = b
      /\ r.items = asked[c].items /\ r.rows = asked[c].rows
  BY <1>2 DEF InboxCall, InboxPcs, b
<1> HIDE DEF r
<1>10. r.items = InboxCovered(inbox', b) /\ r.items \subseteq Suggested
  BY <1>4, <1>5, <1>9 DEF InboxCovered
<1>11. InboxUndoes(r, inbox', things, undoable, torn, dropped)
  <2>1. \A i \in r.items : r.rows[i].made = inbox'[i].made /\ r.rows[i].batch = inbox'[i].batch /\ InboxLive(r.rows[i])
    BY <1>4, <1>5, <1>9, <1>10
  <2>2. \A i \in r.items : inbox'[i].status = "reverting"
    BY <1>5, <1>10 DEF InboxCovered
  <2>3. \A i \in r.items : r.rows[i].status = "accepted" =>
            \A j \in r.items \ torn : InboxStands(inbox', things, undoable, dropped, j)
    BY <1>4, <1>7, <1>9, <1>10
  <2> QED
    BY <1>4, <1>9, <1>10, <2>1, <2>2, <2>3 DEF InboxUndoes
<1>12. undoable' \in Seq(InboxChange) /\ Cardinality(Inbox!Kept(undoable')) <= MaxUndoable /\ torn' \subseteq Suggested
  BY <1>1 DEF InboxInv, InboxTyped
<1>13. InboxWorld(inbox', things', undoable', torn', dropped', lastId', batched') /\ InboxUndoes(r, inbox', things', undoable', torn', dropped')
  BY <1>1, <1>7, <1>11
<1>14. r.pc \notin {"outline", "reject", "boot"} /\ serving
  BY <1>2, <1>3, <1>9
<1> QED
  BY <1>1, <1>3, <1>6, <1>8, <1>9, <1>12, <1>13, <1>14, InboxSettles

(* The outline is put back: the last change is no more.                        *)
LEMMA InboxPutBack ==
    ASSUME InboxInv, Len(undoable) # 0, Inbox!PutBack(Len(undoable)),
           \A i \in Suggested : InboxNow[i].batch = undoable[Len(undoable)].batch /\ undoable[Len(undoable)].batch # 0 =>
               InboxNow[i].status = "reverting"
    PROVE  /\ InboxWorld(InboxNow, things', undoable', torn, dropped, lastId, batched)
           /\ undoable[Len(undoable)].batch # 0 => InboxGone(InboxNow, things', undoable', undoable[Len(undoable)].batch)
           /\ \A b \in Nat : InboxGone(InboxNow, things, undoable, b) => InboxGone(InboxNow, things', undoable', b)
           /\ undoable' \in Seq(InboxChange) /\ Cardinality(Inbox!Kept(undoable')) <= MaxUndoable
           /\ Len(undoable') # Len(undoable)
<1> DEFINE v == undoable[Len(undoable)].before
<1>1. /\ undoable' = Inbox!Without(undoable, Len(undoable))
      /\ things' = [t \in (DOMAIN things \ Inbox!Scenes) \cup DOMAIN v |-> IF t \in DOMAIN v THEN v[t] ELSE things[t]]
  BY DEF Inbox!PutBack
<1>2. undoable \in Seq(InboxChange) /\ Cardinality(Inbox!Kept(undoable)) <= MaxUndoable
  BY DEF InboxInv, InboxTyped
<1>3. /\ undoable' \in Seq(InboxChange) /\ Len(undoable') = Len(undoable) - 1
      /\ \A k \in 1 .. Len(undoable') : undoable'[k].batch = undoable[k].batch /\ undoable'[k].before = undoable[k].before
      /\ Cardinality(Inbox!Kept(undoable')) <= Cardinality(Inbox!Kept(undoable)) /\ Cardinality(Inbox!Kept(undoable')) \in Nat
  BY <1>1, <1>2, InboxShortened
<1>4. Cardinality(Inbox!Kept(undoable')) <= MaxUndoable /\ Len(undoable') # Len(undoable) /\ Len(undoable) \in Nat
  <2>1. Cardinality(Inbox!Kept(undoable)) \in Nat /\ Len(undoable) \in Nat
    BY <1>2, InboxKeptFinite
  <2> QED
    BY <1>2, <1>3, <2>1, InboxConstants
<1>5. InboxWorld(InboxNow, things, undoable, torn, dropped, lastId, batched) /\ lastId \in Nat
  BY InboxFacts DEF InboxInv
<1>6. InboxOutline(things, lastId) /\ InboxOutline(v, lastId)
  BY <1>4, <1>5 DEF InboxWorld, InboxTypes
<1> HIDE DEF v
<1>7. /\ DOMAIN things' = {t \in DOMAIN things : ~Inbox!Scene(things[t].of)} \cup DOMAIN v
      /\ \A t \in DOMAIN things' : things'[t] = IF t \in DOMAIN v THEN v[t] ELSE things[t]
  BY <1>1 DEF Inbox!Scenes
<1>8. InboxOutline(things', lastId)
  <2>1. things' = [t \in DOMAIN things' |-> things'[t]]
    BY <1>1
  <2>2. \A t \in DOMAIN things' : things'[t] \in InboxThing /\ t \in 1 .. lastId
    BY <1>6, <1>7 DEF InboxOutline
  <2> QED
    BY <2>1, <2>2 DEF InboxOutline
<1>9. /\ InboxWorld(InboxNow, things', undoable', torn, dropped, lastId, batched)
      /\ undoable[Len(undoable)].batch # 0 => InboxGone(InboxNow, things', undoable', undoable[Len(undoable)].batch)
      /\ \A b \in Nat : InboxGone(InboxNow, things, undoable, b) => InboxGone(InboxNow, things', undoable', b)
  BY <1>3, <1>5, <1>7, <1>8, InboxPutsBack DEF v
<1> QED
  BY <1>3, <1>4, <1>9

LEMMA InboxUndoApplies ==
    ASSUME InboxInv, NEW c \in {Asker, Inbox!Engine}, Inbox!UndoApply(c)
    PROVE  InboxInv'
<1> DEFINE b == asked[c].batch
<1>1. /\ asked[c].pc = "undo" /\ UNCHANGED <<inbox, lastId, batched, serving, torn, dropped>>
      /\ \/ \E k \in Inbox!Places(b) : Inbox!PutBack(k) /\ asked' = [asked EXCEPT ![c].pc = "finish"]
         \/ Inbox!Places(b) = {} /\ asked' = [asked EXCEPT ![c].pc = "check"] /\ UNCHANGED <<things, undoable>>
         \/ asked' = [asked EXCEPT ![c].pc = "restore"] /\ UNCHANGED <<things, undoable>>
  BY DEF Inbox!UndoApply
<1>2. /\ asked[c] \in InboxCall /\ asked[c].marks = {} /\ asked[c].tags = {} /\ asked[c].todo = {}
      /\ c = Asker => serving
      /\ c # Asker => InboxBoots(asked[c], inbox, torn)
      /\ InboxNow = inbox /\ InboxWorld(inbox, things, undoable, torn, dropped, lastId, batched)
      /\ InboxUndoes(asked[c], inbox, things, undoable, torn, dropped) /\ inbox \in [Suggested -> InboxRow]
  BY <1>1, InboxUnderWay
<1>3. c = Asker /\ serving
  BY <1>1, <1>2 DEF InboxBoots
<1>4. /\ b \in Nat /\ b # 0 /\ asked[c].items = InboxCovered(inbox, b)
      /\ \A i \in asked[c].items : inbox[i].status = "reverting"
      /\ Len(undoable) = 0 \/ undoable[Len(undoable)].batch = b
  BY <1>1, <1>2 DEF InboxUndoes, InboxUndoing, InboxCall
<1>5. undoable \in Seq(InboxChange) /\ torn' \subseteq Suggested /\ Cardinality(Inbox!Kept(undoable)) <= MaxUndoable
  BY <1>1 DEF InboxInv, InboxTyped
<1>6. ASSUME NEW p \in {"finish", "check", "restore"}, asked' = [asked EXCEPT ![c].pc = p],
             undoable' \in Seq(InboxChange), Cardinality(Inbox!Kept(undoable')) <= MaxUndoable,
             InboxWorld(inbox, things', undoable', torn, dropped, lastId, batched),
             \A r \in InboxCall : r = [asked[c] EXCEPT !.pc = p] => InboxUndoes(r, inbox, things', undoable', torn, dropped)
      PROVE  InboxInv'
  <2> DEFINE r == [asked[c] EXCEPT !.pc = p]
  <2>1. r \in InboxCall /\ r.pc = p /\ r.marks = {} /\ r.tags = {} /\ r.todo = {}
    BY <1>2 DEF InboxCall, InboxPcs
  <2>2. asked' = [asked EXCEPT ![c] = r]
    BY <1>6
  <2>3. InboxUndoes(r, inbox, things', undoable', torn, dropped)
    BY <1>6, <2>1
  <2> HIDE DEF r
  <2>4. InboxWorld(inbox', things', undoable', torn', dropped', lastId', batched') /\ InboxUndoes(r, inbox', things', undoable', torn', dropped')
    BY <1>1, <1>6, <2>3
  <2>5. r.pc \notin {"outline", "reject", "boot"}
    BY <2>1
  <2>6. inbox' \in [Suggested -> InboxRow]
    BY <1>1, <1>2
  <2> QED
    BY <1>1, <1>3, <1>5, <1>6, <2>1, <2>2, <2>4, <2>5, <2>6, InboxSettles
<1>7. ASSUME NEW k \in Inbox!Places(b), Inbox!PutBack(k), asked' = [asked EXCEPT ![c].pc = "finish"]
      PROVE  InboxInv'
  <2>1. k \in 1 .. Len(undoable) /\ undoable[k].batch = b /\ Len(undoable) \in Nat
    BY <1>5 DEF Inbox!Places
  <2>2. Len(undoable) # 0 /\ undoable[Len(undoable)].batch = b /\ Len(undoable) \in 1 .. Len(undoable)
    BY <1>4, <2>1
  <2>3. k = Len(undoable)
    BY <1>2, <1>4, <2>1, <2>2 DEF InboxWorld, InboxWindow
  <2>4. \A i \in Suggested : inbox[i].batch = b => inbox[i].status = "reverting"
    BY <1>4 DEF InboxCovered
  <2>5. /\ InboxWorld(inbox, things', undoable', torn, dropped, lastId, batched) /\ InboxGone(inbox, things', undoable', b)
        /\ undoable' \in Seq(InboxChange) /\ Cardinality(Inbox!Kept(undoable')) <= MaxUndoable
    BY <1>2, <1>4, <1>7, <2>2, <2>3, <2>4, InboxPutBack
  <2>6. ASSUME NEW r \in InboxCall, r = [asked[c] EXCEPT !.pc = "finish"]
        PROVE  InboxUndoes(r, inbox, things', undoable', torn, dropped)
    <3>1. r.pc = "finish" /\ r.batch = b /\ r.items = asked[c].items /\ r.rows = asked[c].rows
      BY <1>2, <2>6 DEF InboxCall
    <3> QED
      BY <1>1, <1>2, <2>5, <3>1 DEF InboxUndoes, InboxUndoing
  <2> QED
    BY <1>6, <1>7, <2>5, <2>6
<1>8. ASSUME NEW p \in {"check", "restore"}, asked' = [asked EXCEPT ![c].pc = p], UNCHANGED <<things, undoable>>
      PROVE  InboxInv'
  <2>1. ASSUME NEW r \in InboxCall, r = [asked[c] EXCEPT !.pc = p]
        PROVE  InboxUndoes(r, inbox, things', undoable', torn, dropped)
    <3>1. r.pc = p /\ r.batch = b /\ r.items = asked[c].items /\ r.rows = asked[c].rows
      BY <1>2, <2>1 DEF InboxCall
    <3> QED
      BY <1>1, <1>2, <1>8, <3>1 DEF InboxUndoes, InboxUndoing
  <2> QED
    BY <1>2, <1>5, <1>6, <1>8, <2>1
<1> QED
  BY <1>1, <1>7, <1>8

(* The rows are again what they were when the undo began, or accepted.         *)
LEMMA InboxRestores ==
    ASSUME InboxInv, NEW c \in {Asker, Inbox!Engine}, Inbox!Restore(c)
    PROVE  InboxInv'
<1> DEFINE b == asked[c].batch
           s == IF \A i \in asked[c].items : asked[c].rows[i].status = "accepted" THEN "accepted" ELSE "reverting"
<1>1. /\ asked[c].pc = "restore" /\ UNCHANGED <<things, lastId, batched, undoable, serving, torn, dropped>>
      /\ asked' = [asked EXCEPT ![c] = Inbox!Return(c)]
      /\ inbox' = [i \in Suggested |-> IF i \in asked[c].items THEN asked[c].rows[i] ELSE inbox[i]]
  BY DEF Inbox!Restore, Inbox!elsewhere
<1>2. /\ asked[c] \in InboxCall
      /\ c # Asker => InboxBoots(asked[c], inbox, torn)
      /\ InboxWorld(inbox, things, undoable, torn, dropped, lastId, batched) /\ inbox \in [Suggested -> InboxRow]
      /\ InboxUndoes(asked[c], inbox, things, undoable, torn, dropped)
  BY <1>1, InboxUnderWay
<1>3. /\ b \in Nat /\ b # 0 /\ asked[c].items = InboxCovered(inbox, b)
      /\ \A i \in asked[c].items : /\ asked[c].rows[i].made = inbox[i].made /\ asked[c].rows[i].batch = inbox[i].batch
                                   /\ InboxLive(asked[c].rows[i])
      /\ \A i, j \in asked[c].items : asked[c].rows[i].status = asked[c].rows[j].status
      /\ \A i \in asked[c].items : asked[c].rows[i].status = "accepted" =>
            \A j \in asked[c].items \ torn : InboxStands(inbox, things, undoable, dropped, j)
  BY <1>1, <1>2 DEF InboxUndoes, InboxUndoing, InboxCall
<1>4. s \in {"accepted", "reverting"} /\ \A i \in asked[c].items : asked[c].rows[i].status = s
  BY <1>3 DEF InboxLive
<1>5. s = "accepted" => \A i \in InboxCovered(inbox, b) \ torn : InboxStands(inbox, things, undoable, dropped, i)
  BY <1>3, <1>4
<1>6. c # Asker => s = "accepted"
  BY <1>1, <1>2 DEF InboxBoots
<1> HIDE DEF s, b
<1>7. ASSUME NEW i \in Suggested
      PROVE  /\ inbox'[i] \in InboxRow /\ inbox'[i].made = inbox[i].made /\ inbox'[i].batch = inbox[i].batch
             /\ inbox'[i].status = IF inbox[i].batch = b THEN s ELSE inbox[i].status
  <2>1. i \in asked[c].items <=> inbox[i].batch = b
    BY <1>3 DEF InboxCovered
  <2>2. inbox[i] \in InboxRow /\ asked[c].rows[i] \in InboxRow
    BY <1>2 DEF InboxCall
  <2>3. inbox'[i] = IF i \in asked[c].items THEN asked[c].rows[i] ELSE inbox[i]
    BY <1>1
  <2> QED
    BY <1>3, <1>4, <2>1, <2>2, <2>3
<1>8. inbox' \in [Suggested -> InboxRow]
  BY <1>1, <1>7
<1>9. InboxWorld(inbox', things, undoable, torn, dropped, lastId, batched)
  <2>1. \A i \in Suggested : /\ inbox'[i].made = inbox[i].made /\ inbox'[i].batch = inbox[i].batch
                             /\ inbox'[i].status = IF inbox[i].batch = b THEN s ELSE inbox[i].status
    BY <1>7
  <2>2. b \in Nat /\ b # 0 /\ s \in {"accepted", "reverting"}
    BY <1>3, <1>4
  <2> QED
    BY <1>2, <1>5, <1>8, <2>1, <2>2, InboxTurns
<1>10. c # Asker => \A i \in Suggested \ torn : inbox'[i].status = "reverting" => inbox'[i].batch \in asked[c].left
  BY <1>2, <1>6, <1>7 DEF InboxBoots, b
<1>11. torn \subseteq Suggested
  BY DEF InboxInv, InboxTyped
<1> QED
  BY <1>1, <1>8, <1>9, <1>10, <1>11, InboxSettled

(* Was the batch put back?  Its scenes are all there, or none of them is.      *)
LEMMA InboxChecks ==
    ASSUME InboxInv, NEW c \in {Asker, Inbox!Engine}, Inbox!Check(c)
    PROVE  InboxInv'
<1> DEFINE b == asked[c].batch
           items == {i \in Suggested : inbox[i].batch = b /\ inbox[i].status = "reverting"}
           scenes == {i \in items : Inbox!Scene(i) /\ inbox[i].made # 0}
           rows == [i \in Suggested |-> [inbox[i] EXCEPT !.status = "accepted"]]
           goes == IF Inbox!StillThere(scenes) THEN "restore" ELSE "finish"
           r == [asked[c] EXCEPT !.items = items, !.rows = rows, !.pc = goes]
<1>1. asked[c].pc = "check" /\ UNCHANGED <<inbox, things, lastId, batched, undoable, serving, torn, dropped>>
  BY DEF Inbox!Check, Inbox!elsewhere
<1>2. /\ asked[c] \in InboxCall /\ asked[c].marks = {} /\ asked[c].tags = {} /\ asked[c].todo = {}
      /\ c = Asker => serving
      /\ c # Asker => ~serving /\ undoable = <<>> /\ InboxBoots(asked[c], inbox, torn)
      /\ InboxWorld(inbox, things, undoable, torn, dropped, lastId, batched)
      /\ InboxUndoes(asked[c], inbox, things, undoable, torn, dropped) /\ inbox \in [Suggested -> InboxRow]
  BY <1>1, InboxUnderWay
<1>3. /\ b \in Nat /\ b # 0 /\ (Len(undoable) = 0 \/ undoable[Len(undoable)].batch = b)
      /\ undoable \in Seq(InboxChange) /\ torn \subseteq Suggested /\ Cardinality(Inbox!Kept(undoable)) <= MaxUndoable
  BY <1>1, <1>2 DEF InboxUndoes, InboxUndoing, InboxCall, InboxInv, InboxTyped
<1>4. asked' = [asked EXCEPT ![c] = IF scenes = {} THEN Inbox!Return(c) ELSE r]
  <2>1. r = [[asked[c] EXCEPT !.items = items, !.rows = rows] EXCEPT !.pc = goes]
    BY <1>2 DEF InboxCall
  <2> QED
    BY <2>1 DEF Inbox!Check
<1>5. \A i \in items : Inbox!Scene(i) \/ (Needs[i] \in items /\ Inbox!Scene(Needs[i]))
  BY <1>2, <1>3 DEF InboxWorld, InboxBatches
<1>6. \A i \in items : inbox[i].made # 0 /\ i \in Suggested
  BY <1>2 DEF InboxWorld, InboxRows, InboxLive
<1>7. scenes = {} => items = {}
  BY <1>5, <1>6
<1>8. items # {} => items = InboxCovered(inbox, b)
  BY <1>2, <1>3 DEF InboxWorld, InboxBatches, InboxCovered
<1>9. CASE scenes = {}
  <2>1. \A i \in Suggested : inbox[i].status = "reverting" => inbox[i].batch # b
    BY <1>7, <1>9
  <2>2. c # Asker => \A i \in Suggested \ torn' : inbox'[i].status = "reverting" => inbox'[i].batch \in asked[c].left
    BY <1>1, <1>2, <2>1 DEF InboxBoots
  <2>3. asked' = [asked EXCEPT ![c] = Inbox!Return(c)]
    BY <1>4, <1>9
  <2>4. InboxWorld(inbox', things', undoable', torn', dropped', lastId', batched')
    BY <1>1, <1>2
  <2> HIDE DEF b, items, scenes
  <2> QED
    BY <1>1, <1>2, <1>3, <2>2, <2>3, <2>4, InboxSettled
<1>10. CASE scenes # {}
  <2>1. items = InboxCovered(inbox, b) /\ items \subseteq Suggested
    BY <1>8, <1>10
  <2>2. \A i \in items : inbox[i].status = "reverting" /\ inbox[i].batch = b /\ i \in Suggested
    OBVIOUS
  <2>3. ASSUME NEW i \in Suggested
        PROVE  /\ rows[i] \in InboxRow /\ rows[i].made = inbox[i].made /\ rows[i].batch = inbox[i].batch
               /\ rows[i].status = "accepted" /\ InboxLive(rows[i])
    BY <1>2 DEF InboxRow, InboxLive, Inbox!Statuses
  <2>4. rows \in [Suggested -> InboxRow]
    BY <2>3
  <2> HIDE DEF rows
  <2>5. goes = "finish" => InboxGone(inbox, things, undoable, b)
    <3> SUFFICES ASSUME goes = "finish", NEW i \in Suggested, Inbox!Scene(i), inbox[i].batch = b
                 PROVE  /\ inbox[i].made \notin DOMAIN things
                        /\ \A k \in 1 .. Len(undoable) : inbox[i].made \notin DOMAIN undoable[k].before
      BY DEF InboxGone
    <3>1. i \in scenes
      BY <1>6, <2>1 DEF InboxCovered
    <3>2. inbox[i].made \notin DOMAIN things
      BY <3>1 DEF Inbox!StillThere
    <3>3. ASSUME NEW k \in 1 .. Len(undoable)  PROVE inbox[i].made \notin DOMAIN undoable[k].before
      <4>1. Len(undoable) \in Nat /\ k <= Len(undoable) /\ Len(undoable) \in 1 .. Len(undoable) /\ undoable[Len(undoable)].batch = b
        BY <1>3
      <4> QED
        BY <1>2, <1>3, <4>1 DEF InboxWorld, InboxWindow
    <3> QED
      BY <3>2, <3>3
  <2>6. goes = "restore" => \A j \in items \ torn : InboxStands(inbox, things, undoable, dropped, j)
    <3> SUFFICES ASSUME goes = "restore"
                 PROVE  \A j \in items \ torn : InboxStands(inbox, things, undoable, dropped, j)
      OBVIOUS
    <3>1. PICK i \in scenes : inbox[i].made \in DOMAIN things
      BY DEF Inbox!StillThere
    <3>2. ~InboxGone(inbox, things, undoable, b)
      BY <2>2, <3>1 DEF InboxGone
    <3>3. i \in Suggested /\ inbox[i].status = "reverting" /\ inbox[i].batch = b
      OBVIOUS
    <3>4. \A j \in InboxCovered(inbox, b) \ torn : InboxStands(inbox, things, undoable, dropped, j)
      BY <1>2, <3>2, <3>3 DEF InboxWorld, InboxStanding
    <3> QED
      BY <2>1, <3>4
  <2>7. goes \in {"restore", "finish"}
    OBVIOUS
  <2> HIDE DEF scenes, goes
  <2>8. asked' = [asked EXCEPT ![c] = r]
    BY <1>4, <1>10
  <2>9. /\ r \in InboxCall /\ r.pc = goes /\ r.marks = {} /\ r.tags = {} /\ r.todo = {} /\ r.batch = b
        /\ r.items = items /\ r.rows = rows /\ r.left = asked[c].left
    BY <1>2, <2>1, <2>4, <2>7 DEF InboxCall, InboxPcs
  <2> HIDE DEF items, r, b
  <2>10. InboxUndoes(r, inbox, things, undoable, torn, dropped)
    <3>1. \A i \in r.items : r.rows[i].made = inbox[i].made /\ r.rows[i].batch = inbox[i].batch /\ InboxLive(r.rows[i])
      BY <2>2, <2>3, <2>9
    <3>2. \A i, j \in r.items : r.rows[i].status = r.rows[j].status
      BY <2>2, <2>3, <2>9
    <3>3. \A i \in r.items : inbox[i].status = "reverting"
      BY <2>2, <2>9
    <3>4. r.pc = "restore" => \A j \in r.items \ torn : InboxStands(inbox, things, undoable, dropped, j)
      BY <2>6, <2>9
    <3>5. r.pc = "finish" => InboxGone(inbox, things, undoable, r.batch)
      BY <2>5, <2>9
    <3>6. r.pc \in {"restore", "finish"} /\ r.batch # 0 /\ r.items = InboxCovered(inbox, r.batch)
      BY <1>3, <2>1, <2>7, <2>9
    <3>7. Len(undoable) = 0 \/ undoable[Len(undoable)].batch = r.batch
      BY <1>3, <2>9
    <3> QED
      BY <3>1, <3>2, <3>3, <3>4, <3>5, <3>6, <3>7 DEF InboxUndoes
  <2>11. c # Asker => InboxBoots(r, inbox, torn)
    BY <1>1, <1>2, <2>2, <2>3, <2>7, <2>9 DEF InboxBoots, b
  <2>12. /\ InboxWorld(inbox', things', undoable', torn', dropped', lastId', batched')
         /\ InboxUndoes(r, inbox', things', undoable', torn', dropped')
         /\ c # Asker => InboxBoots(r, inbox', torn')
    BY <1>1, <1>2, <2>10, <2>11
  <2>13. r.pc \notin {"outline", "reject", "boot"}
    BY <2>7, <2>9
  <2>14. IF c = Asker THEN serving ELSE ~serving /\ undoable' = <<>>
    BY <1>1, <1>2
  <2> QED
    BY <1>1, <1>2, <1>3, <2>8, <2>9, <2>12, <2>13, <2>14, InboxSettles
<1> QED
  BY <1>9, <1>10

(* A beat goes after its scene.                                                *)
LEMMA InboxDeletesBeat ==
    ASSUME InboxInv, NEW c \in {Asker, Inbox!Engine}, Inbox!DeleteBeat(c)
    PROVE  InboxInv'
<1>1. /\ asked[c].pc = "finish" /\ UNCHANGED <<inbox, lastId, batched, undoable, asked, serving, torn, dropped>>
      /\ \E t \in Inbox!BeatsLeft(c) : things' = [s \in DOMAIN things \ {t} |-> things[s]]
  BY DEF Inbox!DeleteBeat, Inbox!elsewhere
<1>2. /\ asked[c] \in InboxCall /\ asked[c].marks = {} /\ asked[c].tags = {} /\ asked[c].todo = {}
      /\ c = Asker => serving
      /\ c # Asker => ~serving /\ undoable = <<>> /\ InboxBoots(asked[c], inbox, torn)
      /\ InboxWorld(inbox, things, undoable, torn, dropped, lastId, batched)
      /\ InboxUndoes(asked[c], inbox, things, undoable, torn, dropped) /\ inbox \in [Suggested -> InboxRow]
  BY <1>1, InboxUnderWay
<1>3. PICK i \in asked[c].items : Inbox!Beat(i) /\ things' = [s \in DOMAIN things \ {asked[c].rows[i].made} |-> things[s]]
  BY <1>1 DEF Inbox!BeatsLeft
<1>4. /\ asked[c].items = InboxCovered(inbox, asked[c].batch) /\ InboxGone(inbox, things, undoable, asked[c].batch)
      /\ asked[c].rows[i].made = inbox[i].made /\ inbox[i].status = "reverting"
  BY <1>1, <1>2, <1>3 DEF InboxUndoes, InboxUndoing
<1>5. i \in Suggested /\ inbox[i].batch = asked[c].batch /\ asked[c].batch \in Nat
  BY <1>2, <1>3, <1>4 DEF InboxCovered, InboxCall
<1>6. /\ InboxWorld(inbox, things', undoable, torn, dropped, lastId, batched)
      /\ \A d \in Nat : InboxGone(inbox, things, undoable, d) => InboxGone(inbox, things', undoable, d)
  BY <1>2, <1>3, <1>4, <1>5, InboxDeletes
<1>7. InboxUndoes(asked[c], inbox, things', undoable, torn, dropped)
  BY <1>1, <1>2, <1>5, <1>6 DEF InboxUndoes, InboxUndoing
<1>8. asked' = [asked EXCEPT ![c] = asked[c]]
  BY <1>1 DEF InboxInv, InboxTyped
<1>9. /\ InboxWorld(inbox', things', undoable', torn', dropped', lastId', batched')
      /\ InboxUndoes(asked[c], inbox', things', undoable', torn', dropped')
      /\ c # Asker => InboxBoots(asked[c], inbox', torn')
  BY <1>1, <1>2, <1>6, <1>7
<1>10. undoable' \in Seq(InboxChange) /\ Cardinality(Inbox!Kept(undoable')) <= MaxUndoable /\ torn' \subseteq Suggested
  BY <1>1 DEF InboxInv, InboxTyped
<1>11. IF c = Asker THEN serving ELSE ~serving /\ undoable' = <<>>
  BY <1>1, <1>2
<1>12. asked[c].pc \notin {"outline", "reject", "boot"} /\ inbox' \in [Suggested -> InboxRow]
  BY <1>1, <1>2
<1> QED
  BY <1>1, <1>2, <1>8, <1>9, <1>10, <1>11, <1>12, InboxSettles

(* The items of the batch are open again.                                      *)
LEMMA InboxFinishes ==
    ASSUME InboxInv, NEW c \in {Asker, Inbox!Engine}, Inbox!Finish(c)
    PROVE  InboxInv'
<1> DEFINE b == asked[c].batch
<1>1. /\ asked[c].pc = "finish" /\ UNCHANGED <<things, lastId, batched, undoable, serving, torn, dropped>>
      /\ Inbox!BeatsLeft(c) = {} /\ asked' = [asked EXCEPT ![c] = Inbox!Return(c)]
      /\ inbox' = [i \in Suggested |-> IF i \in asked[c].items THEN Inbox!Idle.rows[i] ELSE inbox[i]]
  BY DEF Inbox!Finish, Inbox!elsewhere
<1>2. /\ asked[c] \in InboxCall
      /\ c # Asker => InboxBoots(asked[c], inbox, torn)
      /\ InboxWorld(inbox, things, undoable, torn, dropped, lastId, batched)
      /\ InboxUndoes(asked[c], inbox, things, undoable, torn, dropped) /\ inbox \in [Suggested -> InboxRow]
  BY <1>1, InboxUnderWay
<1>3. /\ b \in Nat /\ b # 0 /\ asked[c].items = InboxCovered(inbox, b) /\ InboxGone(inbox, things, undoable, b)
      /\ \A i \in asked[c].items : asked[c].rows[i].made = inbox[i].made
  BY <1>1, <1>2 DEF InboxUndoes, InboxUndoing, InboxCall
<1>4. \A i \in Suggested : i \in asked[c].items <=> inbox[i].batch = b
  BY <1>3 DEF InboxCovered
<1>5. \A i \in Suggested : inbox[i].batch = b /\ Inbox!Beat(i) => inbox[i].made \notin DOMAIN things
  BY <1>1, <1>3, <1>4 DEF Inbox!BeatsLeft
<1> HIDE DEF b
<1>6. ASSUME NEW i \in Suggested, inbox[i].batch = b
      PROVE  inbox'[i] \in InboxRow /\ ~InboxLive(inbox'[i]) /\ inbox'[i].made = 0 /\ inbox'[i].batch = 0
  BY <1>1, <1>4, <1>6, InboxIdle DEF InboxLive
<1>7. \A i \in Suggested : inbox[i].batch # b => inbox'[i] = inbox[i]
  BY <1>1, <1>4
<1>8. inbox' \in [Suggested -> InboxRow]
  <2>1. \A i \in Suggested : inbox'[i] \in InboxRow
    BY <1>2, <1>6, <1>7
  <2> QED
    BY <1>1, <2>1
<1>9. InboxWorld(inbox', things, undoable, torn, dropped, lastId, batched)
  BY <1>2, <1>3, <1>5, <1>6, <1>7, <1>8, InboxEnds
<1>10. c # Asker => \A i \in Suggested \ torn : inbox'[i].status = "reverting" => inbox'[i].batch \in asked[c].left
  <2>1. \A i \in Suggested : inbox'[i].status = "reverting" => inbox[i].batch # b /\ inbox'[i] = inbox[i]
    BY <1>6, <1>7 DEF InboxLive
  <2> QED
    BY <1>2, <2>1 DEF InboxBoots, b
<1>11. torn \subseteq Suggested
  BY DEF InboxInv, InboxTyped
<1> QED
  BY <1>1, <1>8, <1>9, <1>10, <1>11, InboxSettled

-----------------------------------------------------------------------------
(* A call is cut off.                                                          *)
LEMMA InboxTorn ==
    ASSUME InboxInv, NEW S, torn \cup InboxUnwritten \subseteq S
    PROVE  InboxWorld(inbox, things, undoable, S, dropped, lastId, batched)
<1>1. /\ inbox \in [Suggested -> InboxRow] /\ InboxWorld(InboxNow, things, undoable, torn, dropped, lastId, batched)
      /\ \A i \in Suggested : i \notin InboxUnwritten => InboxNow[i] = inbox[i]
      /\ \A i \in InboxUnwritten : i \in Suggested /\ InboxNow[i] = InboxAsking.rows[i]
  BY InboxFacts DEF InboxInv, InboxTyped
<1>2. ASSUME NEW i \in InboxUnwritten
      PROVE  /\ inbox[i].batch = 0 /\ inbox[i].status # "reverting"
             /\ InboxLive(inbox[i]) => inbox[i].made = InboxNow[i].made /\ inbox[i].made # 0
             /\ ~InboxLive(inbox[i]) => inbox[i].made = 0
  <2>1. /\ inbox[i].batch = 0 /\ InboxNow[i].status # "reverting"
        /\ i \in InboxAsking.marks => ~InboxLive(inbox[i]) /\ inbox[i].made = 0
        /\ i \notin InboxAsking.marks => inbox[i].status = InboxNow[i].status /\ inbox[i].made = InboxNow[i].made
    BY <1>1 DEF InboxInv, InboxWrites
  <2>2. InboxLive(InboxNow[i]) => InboxNow[i].made # 0
    BY <1>1 DEF InboxWorld, InboxRows
  <2>3. ~InboxLive(InboxNow[i]) => InboxNow[i].made = 0
    BY <1>1 DEF InboxWorld, InboxRows
  <2> QED
    BY <2>1, <2>2, <2>3 DEF InboxLive
<1>3. ASSUME NEW i \in InboxUnwritten, NEW j \in Suggested, Inbox!Beat(j), Needs[j] = i
      PROVE  inbox[j].batch = 0
  <2>1. InboxNow[j].batch = 0
    BY <1>3 DEF InboxInv, InboxWrites
  <2> QED
    BY <1>1, <1>2, <2>1
<1>4. \A i \in Suggested : i \notin S => inbox[i] = InboxNow[i]
  BY <1>1
<1>5. \A i \in Suggested : inbox[i] # InboxNow[i] =>
            /\ inbox[i].batch = 0 /\ inbox[i].status # "reverting"
            /\ InboxLive(inbox[i]) => inbox[i].made = InboxNow[i].made /\ inbox[i].made # 0
            /\ ~InboxLive(inbox[i]) => inbox[i].made = 0
            /\ \A j \in Suggested : Inbox!Beat(j) /\ Needs[j] = i => inbox[j].batch = 0
  BY <1>1, <1>2, <1>3
<1>6. torn \subseteq S
  OBVIOUS
<1> QED
  BY <1>1, <1>4, <1>5, <1>6, InboxTear

LEMMA InboxAborts ==
    ASSUME InboxInv, NEW c \in {Asker, Inbox!Engine}, Inbox!Abort(c)
    PROVE  InboxInv'
<1>1. /\ Inbox!Unwritten(c) # {} \/ asked[c].pc \in {"reject", "revert", "restore", "finish"}
      /\ torn' = torn \cup Inbox!Unsaid(c) /\ asked' = [asked EXCEPT ![c] = Inbox!Return(c)]
      /\ UNCHANGED <<inbox, things, lastId, batched, undoable, serving, dropped>>
  BY DEF Inbox!Abort
<1>2. inbox \in [Suggested -> InboxRow] /\ torn \subseteq Suggested /\ undoable \in Seq(InboxChange)
      /\ Cardinality(Inbox!Kept(undoable)) <= MaxUndoable
  BY DEF InboxInv, InboxTyped
<1>3. CASE c = Asker
  <2>1. torn' = torn \cup InboxUnwritten /\ torn' \subseteq Suggested
    BY <1>1, <1>2, <1>3, InboxFacts DEF Inbox!Unsaid
  <2>2. InboxWorld(inbox', things', undoable', torn', dropped', lastId', batched')
    BY <1>1, <2>1, InboxTorn
  <2>3. Inbox!Return(c) = Inbox!Idle
    BY <1>3, InboxReturn
  <2>4. serving
    BY <1>1, <1>3, InboxFacts DEF InboxAsking
  <2>5. InboxUndoes(Inbox!Idle, inbox', things', undoable', torn', dropped')
    BY InboxIdle, InboxNoUndo DEF InboxUndoing
  <2> QED
    BY <1>1, <1>2, <1>3, <2>1, <2>2, <2>3, <2>4, <2>5, InboxIdle, InboxSettles
<1>4. CASE c # Asker
  <2>1. asked[c].pc \in {"reject", "revert", "restore", "finish"} /\ Inbox!Unwritten(c) = {} /\ c = Inbox!Engine
    BY <1>1, <1>4, InboxFacts
  <2>2. /\ asked[c] \in InboxCall /\ InboxBoots(asked[c], inbox, torn) /\ InboxNow = inbox
        /\ InboxUndoes(asked[c], inbox, things, undoable, torn, dropped) /\ ~serving
    BY <1>4, <2>1, InboxUnderWay
  <2>3. torn' = torn \cup asked[c].items /\ torn' \subseteq Suggested
    BY <1>1, <1>2, <2>1, <2>2 DEF Inbox!Unsaid, InboxCall
  <2>4. InboxUnwritten = {}
    BY <2>2, InboxFacts
  <2>5. InboxWorld(inbox', things', undoable', torn', dropped', lastId', batched')
    BY <1>1, <2>3, <2>4, InboxTorn
  <2>6. asked[c].items = InboxCovered(inbox, asked[c].batch)
    <3>1. asked[c].pc \in {"restore", "finish"}
      BY <2>1, <2>2 DEF InboxBoots
    <3> QED
      BY <2>2, <3>1 DEF InboxUndoes, InboxUndoing
  <2>7. \A i \in Suggested \ torn' : inbox'[i].status = "reverting" => inbox'[i].batch \in asked[c].left
    BY <1>1, <2>2, <2>3, <2>6 DEF InboxBoots, InboxCovered
  <2> QED
    BY <1>1, <1>2, <2>1, <2>3, <2>5, <2>7, InboxSettled
<1> QED
  BY <1>3, <1>4

LEMMA InboxCrashes ==
    ASSUME InboxInv, Inbox!Crash
    PROVE  InboxInv'
<1>1. /\ torn' = torn \cup UNION {Inbox!Unsaid(c) : c \in {Asker}} /\ asked' = [c \in {Asker} \cup {Inbox!Engine} |-> Inbox!Idle]
      /\ undoable' = <<>> /\ serving' = FALSE /\ UNCHANGED <<inbox, things, lastId, batched, dropped>>
  BY DEF Inbox!Crash
<1>2. Inbox!Unsaid(Asker) = InboxUnwritten
  BY InboxFacts DEF Inbox!Unsaid
<1>3. torn' = torn \cup InboxUnwritten /\ torn' \subseteq Suggested
  BY <1>1, <1>2, InboxFacts DEF InboxInv, InboxTyped
<1>4. InboxWorld(inbox, things, undoable, torn', dropped, lastId, batched)
  BY <1>3, InboxTorn
<1>5. InboxWorld(inbox, things, <<>>, torn', dropped, lastId, batched)
  BY <1>4, InboxForgets
<1>6. InboxAsking' = Inbox!Idle /\ InboxStarting' = Inbox!Idle /\ asked' \in [{Asker, Inbox!Engine} -> InboxCall] /\ InboxUnwritten' = {}
  BY <1>1, InboxIdle DEF InboxAsking, InboxStarting, InboxUnwritten
<1>7. InboxNow' = inbox /\ inbox' = inbox
  <2>1. InboxNow' = [i \in Suggested |-> inbox'[i]] /\ inbox' = inbox
    BY <1>1, <1>6 DEF InboxNow
  <2> QED
    BY <2>1 DEF InboxInv, InboxTyped
<1>8. InboxTyped'
  <2>1. <<>> \in Seq(InboxChange) /\ Inbox!Kept(<<>>) = {}
    BY DEF Inbox!Kept
  <2>2. Cardinality(Inbox!Kept(<<>>)) <= MaxUndoable
    <3>1. Cardinality(Inbox!Kept(<<>>)) = 0
      BY <2>1, FS_EmptySet
    <3> QED
      BY <3>1, InboxConstants
  <2> QED
    BY <1>1, <1>3, <1>6, <2>1, <2>2 DEF InboxInv, InboxTyped
<1>9. InboxWorld(InboxNow, things, undoable, torn, dropped, lastId, batched)'
  BY <1>1, <1>5, <1>7
<1>10. InboxAsks' /\ InboxWrites'
  BY <1>6, InboxIdle DEF InboxAsks, InboxWrites
<1>11. InboxStarts'
  BY <1>1, <1>6, InboxIdle DEF InboxStarts
<1>12. /\ InboxUndoes(InboxAsking, InboxNow, things, undoable, torn, dropped)'
       /\ InboxUndoes(InboxStarting, InboxNow, things, undoable, torn, dropped)'
  BY <1>6, InboxIdle DEF InboxUndoes, InboxUndoing
<1> QED
  BY <1>8, <1>9, <1>10, <1>11, <1>12 DEF InboxInv

-----------------------------------------------------------------------------
(* The engine starts: it settles what was half taken back, then it serves.     *)
LEMMA InboxBoot ==
    ASSUME InboxInv, Inbox!Boot
    PROVE  InboxInv'
<1> DEFINE left == {inbox[i].batch : i \in {j \in Suggested : inbox[j].status = "reverting"}} \ {0}
           r == [InboxStarting EXCEPT !.pc = "boot", !.left = left]
<1>1. /\ ~serving /\ UNCHANGED <<inbox, things, lastId, batched, undoable, serving, torn, dropped>>
      /\ asked' = [asked EXCEPT ![Inbox!Engine].pc = "boot", ![Inbox!Engine].left = left]
  BY DEF Inbox!Boot, Inbox!elsewhere
<1>2. /\ InboxStarting \in InboxCall /\ InboxStarting.marks = {} /\ InboxStarting.tags = {} /\ InboxStarting.todo = {}
      /\ asked \in [{Asker, Inbox!Engine} -> InboxCall] /\ undoable = <<>> /\ InboxNow = inbox
      /\ InboxWorld(inbox, things, undoable, torn, dropped, lastId, batched) /\ inbox \in [Suggested -> InboxRow]
  BY <1>1, InboxFacts DEF InboxInv, InboxStarts, InboxTyped
<1>3. asked' = [asked EXCEPT ![Inbox!Engine] = r]
  BY <1>1, <1>2 DEF InboxStarting, InboxCall
<1>4. left \subseteq Nat \ {0} /\ \A i \in Suggested : inbox[i].status = "reverting" => inbox[i].batch \in left
  BY <1>2 DEF InboxWorld, InboxRows, InboxRow
<1> HIDE DEF left
<1>5. r \in InboxCall /\ r.pc = "boot" /\ r.left = left /\ r.marks = {} /\ r.tags = {} /\ r.todo = {}
  BY <1>2, <1>4 DEF InboxCall, InboxPcs
<1> HIDE DEF r
<1>6. InboxBoots(r, inbox', torn')
  BY <1>1, <1>4, <1>5 DEF InboxBoots
<1>7. InboxUndoes(r, inbox', things', undoable', torn', dropped')
  BY <1>5 DEF InboxUndoes, InboxUndoing
<1>8. InboxWorld(inbox', things', undoable', torn', dropped', lastId', batched') /\ inbox' \in [Suggested -> InboxRow]
  BY <1>1, <1>2
<1>9. undoable' \in Seq(InboxChange) /\ Cardinality(Inbox!Kept(undoable')) <= MaxUndoable /\ torn' \subseteq Suggested
  BY <1>1 DEF InboxInv, InboxTyped
<1>10. r.pc \notin {"outline", "reject"} /\ Inbox!Engine # Asker /\ undoable' = <<>>
  BY <1>1, <1>2, <1>5, InboxFacts
<1> QED
  BY <1>1, <1>3, <1>5, <1>6, <1>7, <1>8, <1>9, <1>10, InboxSettles

LEMMA InboxBootsNext ==
    ASSUME InboxInv, Inbox!BootNext
    PROVE  InboxInv'
<1>1. /\ InboxStarting.pc = "boot" /\ UNCHANGED <<inbox, things, lastId, batched, undoable, serving, torn, dropped>>
      /\ asked[Inbox!Engine] = InboxStarting
  BY DEF Inbox!BootNext, Inbox!elsewhere, InboxStarting
<1>2. PICK b \in InboxStarting.left :
        asked' = [asked EXCEPT ![Inbox!Engine] = [InboxStarting EXCEPT !.pc = "check", !.batch = b, !.left = InboxStarting.left \ {b}]]
  BY DEF Inbox!BootNext, InboxStarting
<1>3. /\ InboxStarting \in InboxCall /\ InboxStarting.marks = {} /\ InboxStarting.tags = {} /\ InboxStarting.todo = {}
      /\ ~serving /\ undoable = <<>> /\ InboxBoots(InboxStarting, inbox, torn) /\ Inbox!Engine # Asker
      /\ InboxWorld(inbox, things, undoable, torn, dropped, lastId, batched) /\ inbox \in [Suggested -> InboxRow]
  BY <1>1, InboxUnderWay, InboxFacts
<1> DEFINE r == [InboxStarting EXCEPT !.pc = "check", !.batch = b, !.left = InboxStarting.left \ {b}]
<1>4. b \in Nat /\ b # 0
  BY <1>2, <1>3 DEF InboxBoots
<1>5. /\ r \in InboxCall /\ r.pc = "check" /\ r.batch = b /\ r.left = InboxStarting.left \ {b}
      /\ r.marks = {} /\ r.tags = {} /\ r.todo = {}
  BY <1>3, <1>4 DEF InboxCall, InboxPcs
<1>6. asked' = [asked EXCEPT ![Inbox!Engine] = r]
  BY <1>2
<1> HIDE DEF r
<1>7. InboxBoots(r, inbox', torn')
  BY <1>1, <1>3, <1>5 DEF InboxBoots
<1>8. InboxUndoes(r, inbox', things', undoable', torn', dropped')
  BY <1>1, <1>3, <1>4, <1>5 DEF InboxUndoes, InboxUndoing
<1>9. InboxWorld(inbox', things', undoable', torn', dropped', lastId', batched') /\ inbox' \in [Suggested -> InboxRow]
  BY <1>1, <1>3
<1>10. undoable' \in Seq(InboxChange) /\ Cardinality(Inbox!Kept(undoable')) <= MaxUndoable /\ torn' \subseteq Suggested
  BY <1>1 DEF InboxInv, InboxTyped
<1>11. r.pc \notin {"outline", "reject"} /\ undoable' = <<>>
  BY <1>1, <1>3, <1>5
<1> QED
  BY <1>1, <1>3, <1>5, <1>6, <1>7, <1>8, <1>9, <1>10, <1>11, InboxSettles

LEMMA InboxServes ==
    ASSUME InboxInv, Inbox!Serve
    PROVE  InboxInv' /\ \A i \in Suggested \ torn : inbox[i].status # "reverting"
<1>1. /\ InboxStarting.pc = "boot" /\ InboxStarting.left = {} /\ asked' = [asked EXCEPT ![Inbox!Engine] = Inbox!Idle]
      /\ serving' = TRUE /\ UNCHANGED <<inbox, things, lastId, batched, undoable, torn, dropped>>
  BY DEF Inbox!Serve, Inbox!elsewhere, InboxStarting
<1>2. /\ asked' \in [{Asker, Inbox!Engine} -> InboxCall]
      /\ InboxStarting' = Inbox!Idle /\ InboxNow = inbox /\ (inbox' \in [Suggested -> InboxRow] => InboxNow' = inbox')
      /\ InboxAsks' /\ InboxWrites' /\ InboxUndoes(InboxAsking, InboxNow, things, undoable, torn, dropped)'
  BY <1>1, InboxIdle, InboxEngineMoves
<1>3. \A i \in Suggested \ torn : inbox[i].status # "reverting"
  BY <1>1 DEF InboxInv, InboxStarts, InboxBoots
<1>4. InboxTyped'
  BY <1>1, <1>2 DEF InboxInv, InboxTyped
<1>5. InboxNow' = InboxNow
  BY <1>1, <1>2 DEF InboxInv, InboxTyped
<1>6. InboxWorld(InboxNow, things, undoable, torn, dropped, lastId, batched)'
  BY <1>1, <1>5 DEF InboxInv
<1>7. InboxStarts'
  BY <1>1, <1>2, InboxIdle DEF InboxStarts
<1>8. InboxUndoes(InboxStarting, InboxNow, things, undoable, torn, dropped)'
  BY <1>2, InboxIdle DEF InboxUndoes, InboxUndoing
<1> QED
  BY <1>2, <1>3, <1>4, <1>6, <1>7, <1>8 DEF InboxInv

-----------------------------------------------------------------------------
(* Elsewhere in the engine the rows are not touched.                           *)
LEMMA InboxElsewhere ==
    ASSUME InboxInv, serving, UNCHANGED <<inbox, asked, serving, torn>>, InboxTyped',
           InboxWorld(InboxNow, things', undoable', torn, dropped', lastId', batched'),
           InboxUndoes(InboxAsking, InboxNow, things', undoable', torn, dropped')
    PROVE  InboxInv'
<1>1. InboxAsking' = InboxAsking /\ InboxStarting' = InboxStarting /\ InboxUnwritten' = InboxUnwritten /\ InboxNow' = InboxNow
  BY DEF InboxAsking, InboxStarting, InboxUnwritten, InboxNow
<1>2. InboxStarting.pc = "idle"
  BY DEF InboxInv, InboxStarts
<1>3. InboxStarts'
  BY <1>1, <1>2 DEF InboxInv, InboxStarts
<1>4. InboxUndoes(InboxStarting, InboxNow, things, undoable, torn, dropped)'
  BY <1>1, <1>2 DEF InboxUndoes, InboxUndoing
<1>5. InboxAsks' /\ InboxWrites'
  BY <1>1 DEF InboxInv, InboxAsks, InboxWrites
<1>6. InboxWorld(InboxNow, things, undoable, torn, dropped, lastId, batched)'
  BY <1>1
<1>7. InboxUndoes(InboxAsking, InboxNow, things, undoable, torn, dropped)'
  BY <1>1
<1> QED
  BY <1>3, <1>4, <1>5, <1>6, <1>7 DEF InboxInv

LEMMA InboxDropped ==
    ASSUME InboxInv, Inbox!Drop
    PROVE  InboxInv'
<1>1. /\ serving /\ UNCHANGED <<inbox, lastId, batched, undoable, asked, serving, torn>>
  BY DEF Inbox!Drop, Inbox!Outside
<1>2. PICK t \in DOMAIN things : things' = [s \in DOMAIN things \ {t} |-> things[s]] /\ dropped' = dropped \cup {t}
  BY DEF Inbox!Drop
<1>3. /\ InboxWorld(InboxNow, things, undoable, torn, dropped, lastId, batched) /\ InboxAsking \in InboxCall
      /\ InboxUndoes(InboxAsking, InboxNow, things, undoable, torn, dropped)
  BY InboxFacts DEF InboxInv
<1>4. /\ InboxWorld(InboxNow, things', undoable, torn, dropped', lastId, batched)
      /\ \A b \in Nat : InboxGone(InboxNow, things, undoable, b) => InboxGone(InboxNow, things', undoable, b)
      /\ \A i \in Suggested : InboxStands(InboxNow, things, undoable, dropped, i) => InboxStands(InboxNow, things', undoable, dropped', i)
  <2> DEFINE S == {t}
  <2>1. things' = [s \in DOMAIN things \ S |-> things[s]] /\ dropped' = dropped \cup S
    BY <1>2
  <2> HIDE DEF S
  <2> QED
    BY <1>3, <2>1, InboxDrops
<1>5. InboxUndoes(InboxAsking, InboxNow, things', undoable, torn, dropped')
  BY <1>3, <1>4, InboxUndoesStay
<1>6. InboxTyped'
  <2>1. t \in 1 .. MaxThings
    <3>1. t \in 1 .. lastId /\ lastId \in 0 .. MaxThings
      BY <1>2, <1>3 DEF InboxWorld, InboxTypes, InboxOutline, InboxInv, InboxTyped
    <3> QED
      BY <3>1, InboxConstants
  <2> QED
    BY <1>1, <1>2, <2>1 DEF InboxInv, InboxTyped
<1> QED
  BY <1>1, <1>4, <1>5, <1>6, InboxElsewhere

LEMMA InboxTakesName ==
    ASSUME InboxInv, Inbox!Name
    PROVE  InboxInv'
<1>1. /\ serving /\ UNCHANGED <<inbox, batched, undoable, asked, serving, torn, dropped>>
      /\ lastId < MaxThings /\ lastId' = lastId + 1
  BY DEF Inbox!Name, Inbox!Outside
<1>2. PICK i \in Suggested, by \in {"match", "clash"} :
        things' = [t \in DOMAIN things \cup {lastId + 1} |-> IF t = lastId + 1 THEN Inbox!Thing(i, by) ELSE things[t]]
  BY DEF Inbox!Name
<1>3. /\ InboxWorld(InboxNow, things, undoable, torn, dropped, lastId, batched) /\ InboxAsking \in InboxCall
      /\ InboxUndoes(InboxAsking, InboxNow, things, undoable, torn, dropped)
  BY InboxFacts DEF InboxInv
<1>4. Inbox!Thing(i, by) \in InboxThing /\ Inbox!Thing(i, by).by \in {"match", "clash"}
  BY DEF Inbox!Thing, InboxThing
<1>5. /\ InboxWorld(InboxNow, things', undoable, torn, dropped, lastId + 1, batched)
      /\ \A b \in Nat : InboxGone(InboxNow, things, undoable, b) => InboxGone(InboxNow, things', undoable, b)
      /\ \A j \in Suggested : InboxStands(InboxNow, things, undoable, dropped, j) => InboxStands(InboxNow, things', undoable, dropped, j)
  BY <1>2, <1>3, <1>4, InboxNames
<1>6. InboxUndoes(InboxAsking, InboxNow, things', undoable, torn, dropped)
  BY <1>3, <1>5, InboxUndoesStay
<1>7. InboxTyped'
  BY <1>1, InboxConstants DEF InboxInv, InboxTyped
<1>8. InboxWorld(InboxNow, things', undoable', torn, dropped', lastId', batched') /\ InboxUndoes(InboxAsking, InboxNow, things', undoable', torn, dropped')
  BY <1>1, <1>5, <1>6
<1> QED
  BY <1>1, <1>7, <1>8, InboxElsewhere

LEMMA InboxOtherBatch ==
    ASSUME InboxInv, Inbox!OtherBatch
    PROVE  InboxInv'
<1>1. /\ serving /\ UNCHANGED <<inbox, lastId, batched, asked, serving, torn>>
      /\ InboxAsking.batch = 0 /\ undoable' = Append(undoable, Inbox!Change(0))
  BY DEF Inbox!OtherBatch, Inbox!Outside, InboxAsking
<1>2. PICK lost \in {{}} \cup {{t} : t \in Inbox!Scenes} :
        things' = [s \in DOMAIN things \ lost |-> things[s]] /\ dropped' = dropped \cup lost
  BY DEF Inbox!OtherBatch
<1>3. /\ InboxWorld(InboxNow, things, undoable, torn, dropped, lastId, batched)
      /\ InboxUndoes(InboxAsking, InboxNow, things, undoable, torn, dropped)
      /\ undoable \in Seq(InboxChange) /\ Cardinality(Inbox!Kept(undoable)) <= MaxUndoable
      /\ batched \in Nat /\ lastId \in 0 .. MaxThings /\ dropped \subseteq 1 .. MaxThings
  BY InboxFacts DEF InboxInv, InboxTyped
<1> DEFINE e == Inbox!Change(0)
<1>4. /\ e \in InboxChange /\ e.batch = 0 /\ InboxOutline(e.before, lastId)
      /\ DOMAIN e.before = {t \in DOMAIN things : Inbox!Scene(things[t].of)}
      /\ \A t \in DOMAIN e.before : e.before[t] = things[t]
  BY InboxChanges
<1>5. undoable' = Append(undoable, e)
  BY <1>1
<1> HIDE DEF e
<1>6. InboxLonger(undoable, e, undoable') /\ Inbox!Kept(undoable') = Inbox!Kept(undoable)
  BY <1>3, <1>4, <1>5, InboxAppended
<1>7. InboxWorld(InboxNow, things, undoable', torn, dropped, lastId, batched)
  BY <1>3, <1>4, <1>6, InboxAppends DEF InboxLonger
<1>8. InboxWorld(InboxNow, things', undoable', torn, dropped', lastId, batched)
  BY <1>2, <1>7, InboxDrops
<1>9. InboxUndoes(InboxAsking, InboxNow, things', undoable', torn, dropped')
  BY <1>1, <1>3 DEF InboxUndoes
<1>10. InboxTyped'
  <2>1. lost \subseteq 1 .. MaxThings
    <3>1. lost \subseteq DOMAIN things
      BY <1>2 DEF Inbox!Scenes
    <3>2. DOMAIN things \subseteq 1 .. lastId
      BY <1>3 DEF InboxWorld, InboxTypes, InboxOutline
    <3> QED
      BY <1>3, <3>1, <3>2, InboxConstants
  <2> QED
    BY <1>1, <1>2, <1>3, <1>6, <2>1 DEF InboxInv, InboxTyped, InboxLonger
<1> QED
  BY <1>1, <1>8, <1>9, <1>10, InboxElsewhere

LEMMA InboxOtherUndo ==
    ASSUME InboxInv, Inbox!OtherUndo
    PROVE  InboxInv'
<1>1. serving /\ UNCHANGED <<inbox, lastId, batched, asked, serving, torn, dropped>>
  BY DEF Inbox!OtherUndo, Inbox!elsewhere
<1>2. /\ InboxWorld(InboxNow, things, undoable, torn, dropped, lastId, batched) /\ InboxAsking \in InboxCall
      /\ InboxUndoes(InboxAsking, InboxNow, things, undoable, torn, dropped) /\ undoable \in Seq(InboxChange)
  BY InboxFacts DEF InboxInv, InboxTyped
<1>3. Len(undoable) # 0 /\ undoable[Len(undoable)].batch = 0 /\ Inbox!PutBack(Len(undoable))
  BY <1>2 DEF Inbox!OtherUndo, Inbox!Places
<1>4. /\ InboxWorld(InboxNow, things', undoable', torn, dropped, lastId, batched)
      /\ \A b \in Nat : InboxGone(InboxNow, things, undoable, b) => InboxGone(InboxNow, things', undoable', b)
      /\ undoable' \in Seq(InboxChange) /\ Cardinality(Inbox!Kept(undoable')) <= MaxUndoable
      /\ Len(undoable') # Len(undoable)
  BY <1>3, InboxPutBack
<1>5. ~(InboxUndoing(InboxAsking.pc) /\ InboxAsking.pc # "finish")
  BY <1>2, <1>3 DEF InboxUndoes
<1>6. InboxUndoes(InboxAsking, InboxNow, things', undoable', torn, dropped)
  <2>1. undoable' # undoable
    BY <1>4
  <2> QED
    BY <1>2, <1>4, <1>5, <2>1, InboxUndoesStay
<1>7. InboxTyped'
  BY <1>1, <1>4 DEF InboxInv, InboxTyped
<1>8. InboxWorld(InboxNow, things', undoable', torn, dropped', lastId', batched') /\ InboxUndoes(InboxAsking, InboxNow, things', undoable', torn, dropped')
  BY <1>1, <1>4, <1>6
<1> QED
  BY <1>1, <1>7, <1>8, InboxElsewhere

-----------------------------------------------------------------------------
LEMMA InboxInit == Inbox!Init => InboxInv
<1> SUFFICES ASSUME Inbox!Init  PROVE InboxInv
  OBVIOUS
<1>1. /\ inbox = Inbox!Idle.rows /\ things = <<>> /\ lastId = 0 /\ batched = 0 /\ undoable = <<>>
      /\ asked = [c \in {Asker} \cup {Inbox!Engine} |-> Inbox!Idle]
      /\ serving = TRUE /\ torn = {} /\ dropped = {}
  BY DEF Inbox!Init
<1>2. /\ \A i \in Suggested : inbox[i] = [status |-> "pending", made |-> 0, batch |-> 0]
      /\ inbox \in [Suggested -> InboxRow]
  BY <1>1, InboxIdle
<1>3. InboxAsking = Inbox!Idle /\ InboxStarting = Inbox!Idle /\ asked \in [{Asker, Inbox!Engine} -> InboxCall] /\ InboxUnwritten = {}
  BY <1>1, InboxIdle DEF InboxAsking, InboxStarting, InboxUnwritten
<1>4. InboxNow = inbox
  <2>1. InboxNow = [i \in Suggested |-> inbox[i]]
    BY <1>3 DEF InboxNow
  <2> QED
    BY <1>2, <2>1
<1>5. InboxTyped
  <2>1. <<>> \in Seq(InboxChange) /\ Inbox!Kept(<<>>) = {}
    BY DEF Inbox!Kept
  <2>2. Cardinality(Inbox!Kept(<<>>)) = 0
    BY <2>1, FS_EmptySet
  <2> QED
    BY <1>1, <1>2, <1>3, <2>1, <2>2, InboxConstants DEF InboxTyped
<1>6. InboxWorld(inbox, things, undoable, torn, dropped, lastId, batched)
  <2>1. DOMAIN things = {} /\ Len(undoable) = 0 /\ things = [t \in DOMAIN things |-> things[t]]
    BY <1>1
  <2>2. InboxOutline(things, lastId)
    BY <2>1 DEF InboxOutline
  <2>3. \A i \in Suggested : inbox[i].status = "pending" /\ inbox[i].made = 0 /\ inbox[i].batch = 0 /\ ~InboxLive(inbox[i])
    BY <1>2 DEF InboxLive
  <2>4. InboxTypes(inbox, things, undoable, lastId, batched)
    BY <1>1, <1>2, <2>1, <2>2, <2>3 DEF InboxTypes
  <2>5. InboxRows(inbox) /\ InboxBatches(inbox)
    BY <2>3 DEF InboxRows, InboxBatches
  <2>6. InboxWindow(inbox, undoable) /\ InboxSorts(things, undoable)
    BY <2>1 DEF InboxWindow, InboxSorts
  <2>7. InboxNamed(inbox, torn, things) /\ InboxBeats(inbox, torn, things)
    BY <2>1 DEF InboxNamed, InboxBeats
  <2>8. InboxStanding(inbox, things, undoable, torn, dropped)
    BY <2>3 DEF InboxStanding
  <2> QED
    BY <2>1, <2>4, <2>5, <2>6, <2>7, <2>8 DEF InboxWorld
<1>7. InboxAsks /\ InboxWrites
  BY <1>3, InboxIdle DEF InboxAsks, InboxWrites
<1>8. InboxStarts
  BY <1>1, <1>3, InboxIdle DEF InboxStarts
<1>9. \A c \in {InboxAsking, InboxStarting} : InboxUndoes(c, InboxNow, things, undoable, torn, dropped)
  BY <1>3, InboxIdle DEF InboxUndoes, InboxUndoing
<1> QED
  BY <1>4, <1>5, <1>6, <1>7, <1>8, <1>9 DEF InboxInv

(* The start of the engine takes no step of a call that applies anything.      *)
LEMMA InboxStartOnly ==
    ASSUME InboxInv, NEW c \in {Asker, Inbox!Engine}, asked[c].pc \in {"accept", "outline"} \/ Inbox!Unwritten(c) # {}
    PROVE  c = Asker
BY InboxFacts DEF InboxInv, InboxStarts, InboxBoots, InboxStarting

LEMMA InboxSteps ==
    ASSUME InboxInv, NEW c \in {Asker, Inbox!Engine}, Inbox!Step(c)
    PROVE  InboxInv'
<1>1. CASE Inbox!OpenProposal(c)
  <2>1. c = Asker
    BY <1>1, InboxStartOnly DEF Inbox!OpenProposal, Inbox!AtRest
  <2> QED
    BY <1>1, <2>1, InboxOpensProposal
<1>2. CASE Inbox!ApplyOutline(c)
  <2>1. c = Asker
    BY <1>2, InboxStartOnly DEF Inbox!ApplyOutline
  <2> QED
    BY <1>2, <2>1, InboxAppliesOutline
<1>3. CASE Inbox!RefuseOutline(c)
  <2>1. c = Asker
    BY <1>3, InboxStartOnly DEF Inbox!RefuseOutline
  <2> QED
    BY <1>3, <2>1, InboxRefusesOutline
<1>4. CASE Inbox!ApplyItem(c)
  <2>1. c = Asker
    BY <1>4, InboxStartOnly DEF Inbox!ApplyItem, Inbox!AtRest
  <2> QED
    BY <1>4, <2>1, InboxAppliesNext
<1>5. CASE Inbox!Persist(c)
  <2>1. c = Asker
    BY <1>5, InboxStartOnly DEF Inbox!Persist
  <2> QED
    BY <1>5, <2>1, InboxPersists
<1>6. CASE Inbox!EndAccept(c)
  <2>1. c = Asker
    BY <1>6, InboxStartOnly DEF Inbox!EndAccept, Inbox!AtRest
  <2> QED
    BY <1>6, <2>1, InboxEndsAccept
<1>7. CASE Inbox!Reject(c)
  BY <1>7, InboxRejects
<1>8. CASE Inbox!Revert(c)
  BY <1>8, InboxReverts
<1>9. CASE Inbox!UndoApply(c)
  BY <1>9, InboxUndoApplies
<1>10. CASE Inbox!Check(c)
  BY <1>10, InboxChecks
<1>11. CASE Inbox!Restore(c)
  BY <1>11, InboxRestores
<1>12. CASE Inbox!DeleteBeat(c)
  BY <1>12, InboxDeletesBeat
<1>13. CASE Inbox!Finish(c)
  BY <1>13, InboxFinishes
<1> QED
  BY <1>1, <1>2, <1>3, <1>4, <1>5, <1>6, <1>7, <1>8, <1>9, <1>10, <1>11, <1>12, <1>13 DEF Inbox!Step

LEMMA InboxNext == InboxInv /\ [Inbox!Next]_(Inbox!vars) => InboxInv'
<1> SUFFICES ASSUME InboxInv, [Inbox!Next]_(Inbox!vars)  PROVE InboxInv'
  OBVIOUS
<1>1. CASE \E c \in {Asker} : Inbox!BeginAccept(c) \/ Inbox!BeginReject(c) \/ Inbox!BeginUndo(c)
  BY <1>1, InboxBeginsAccept, InboxBeginsReject, InboxBeginsUndo
<1>2. CASE \E c \in {Asker} \cup {Inbox!Engine} : Inbox!Step(c) \/ Inbox!Abort(c)
  BY <1>2, InboxSteps, InboxAborts
<1>3. CASE Inbox!Crash \/ Inbox!Boot \/ Inbox!BootNext \/ Inbox!Serve
  BY <1>3, InboxCrashes, InboxBoot, InboxBootsNext, InboxServes
<1>4. CASE Inbox!Drop \/ Inbox!Name \/ Inbox!OtherBatch \/ Inbox!OtherUndo
  BY <1>4, InboxDropped, InboxTakesName, InboxOtherBatch, InboxOtherUndo
<1>5. CASE UNCHANGED Inbox!vars
  <2>1. UNCHANGED <<inbox, things, lastId, batched, undoable, asked, serving, torn, dropped>>
    BY <1>5 DEF Inbox!vars
  <2>2. InboxAsking' = InboxAsking /\ InboxStarting' = InboxStarting /\ InboxUnwritten' = InboxUnwritten /\ InboxNow' = InboxNow
    BY <2>1 DEF InboxAsking, InboxStarting, InboxUnwritten, InboxNow
  <2>3. InboxTyped' /\ InboxAsks' /\ InboxWrites' /\ InboxStarts'
    BY <2>1, <2>2 DEF InboxInv, InboxTyped, InboxAsks, InboxWrites, InboxStarts
  <2> QED
    BY <2>1, <2>2, <2>3 DEF InboxInv
<1> QED
  BY <1>1, <1>2, <1>3, <1>4, <1>5 DEF Inbox!Next

(* The inbox: whenever no call is under way, of an item that is open or rejected *)
(* the work holds nothing, of an accepted one it holds one record, or none if    *)
(* the writer has deleted it, and no beat stands in a scene whose item is open:  *)
(* Accept, Reject and Undo of proposals, with what the writer and the agents do  *)
(* to the outline in the meantime, and whatever is cut off.                      *)
THEOREM InboxHonest == InboxSpec => []Honest
<1>1. InboxInv => Honest
  <2> SUFFICES ASSUME InboxInv  PROVE Honest
    OBVIOUS
  <2>1. /\ InboxTyped /\ InboxWorld(InboxNow, things, undoable, torn, dropped, lastId, batched)
        /\ inbox \in [Suggested -> InboxRow] /\ lastId \in Nat /\ batched \in Nat /\ InboxNow \in [Suggested -> InboxRow]
        /\ \A i \in Suggested : i \notin InboxUnwritten => InboxNow[i] = inbox[i]
        /\ \A i \in InboxUnwritten : InboxNow[i] = InboxAsking.rows[i]
    BY InboxFacts DEF InboxInv, InboxTyped
  <2>2. Inbox!TypeOK
    <3>1. ASSUME NEW i \in Suggested  PROVE inbox[i] \in Inbox!Row /\ inbox[i].batch <= batched
      <4>1. InboxNow[i].made \in Nat /\ InboxNow[i].made <= lastId /\ InboxNow[i].batch \in Nat /\ InboxNow[i].batch <= batched
        BY <2>1 DEF InboxWorld, InboxTypes, InboxRow
      <4>2. i \in InboxUnwritten => inbox[i].batch = 0 /\ (inbox[i].made = 0 \/ inbox[i].made = InboxNow[i].made)
        BY <2>1 DEF InboxInv, InboxWrites
      <4>3. inbox[i] \in InboxRow /\ lastId <= MaxThings
        BY <2>1, InboxConstants DEF InboxTyped
      <4>4. inbox[i].made \in Nat /\ inbox[i].made <= MaxThings /\ inbox[i].batch \in Nat /\ inbox[i].batch <= batched
        BY <2>1, <4>1, <4>2, <4>3, InboxConstants
      <4>5. inbox[i].made \in (1 .. MaxThings) \cup {0}
        BY <4>4, InboxConstants
      <4> QED
        BY <4>3, <4>4, <4>5 DEF InboxRow, Inbox!Row, Inbox!Things
    <3>2. inbox \in [Suggested -> Inbox!Row]
      BY <2>1, <3>1
    <3>3. \A t \in DOMAIN things : things[t] \in [of : Suggested, by : {"accept", "loose", "match", "clash"}]
      BY <2>1 DEF InboxWorld, InboxTypes, InboxOutline, InboxThing
    <3>4. \A k \in DOMAIN undoable : undoable[k].batch \in 0 .. batched
      BY <2>1 DEF InboxWorld, InboxTypes, InboxTyped
    <3>5. Inbox!Cardinality(Inbox!Kept(undoable)) <= MaxUndoable
      BY <2>1, InboxCounts DEF InboxTyped
    <3>6. DOMAIN things \subseteq 1 .. lastId /\ lastId \in 0 .. MaxThings /\ batched \in Nat /\ serving \in BOOLEAN
          /\ torn \subseteq Suggested /\ dropped \subseteq Inbox!Things
      BY <2>1 DEF InboxWorld, InboxTypes, InboxOutline, InboxTyped, Inbox!Things
    <3> QED
      BY <3>1, <3>2, <3>3, <3>4, <3>5, <3>6 DEF Inbox!TypeOK
  <2>3. Inbox!InboxIsTrue
    <3> SUFFICES ASSUME serving, asked[Asker].pc = "idle", NEW i \in Suggested \ torn
                 PROVE  LET held == {t \in Inbox!Of(i) : things[t].by \in {"accept", "loose"}} IN
                        /\ Inbox!Open(inbox[i]) \/ inbox[i].status = "rejected" => held = {}
                        /\ inbox[i].status = "accepted" =>
                              Inbox!Cardinality(held) <= 1 /\ inbox[i].made \in DOMAIN things \cup dropped
                        /\ Inbox!Beat(i) /\ Needs[i] \in Suggested \ torn /\ Inbox!Open(inbox[Needs[i]]) =>
                              \A t \in held : things[t].by = "loose"
      BY DEF Inbox!InboxIsTrue
    <3> DEFINE held == {t \in Inbox!Of(i) : things[t].by \in {"accept", "loose"}}
    <3>1. InboxNow = inbox
      BY InboxFacts DEF InboxAsking
    <3>2. InboxWorld(inbox, things, undoable, torn, dropped, lastId, batched)
      BY <2>1, <3>1
    <3>3. ASSUME NEW t \in held
          PROVE  /\ t = inbox[i].made /\ t # 0 /\ InboxLive(inbox[i])
                 /\ Inbox!Beat(i) /\ Needs[i] \in Suggested \ torn /\ things[t].by = "accept" => InboxLive(inbox[Needs[i]])
      <4>1. t \in DOMAIN things /\ things[t].of = i /\ things[t].by \in {"accept", "loose"}
        BY DEF Inbox!Of
      <4>2. t = inbox[i].made
        BY <3>2, <4>1 DEF InboxWorld, InboxNamed
      <4>3. t # 0
        BY <2>1, <3>2, <4>1, InboxOutlines DEF InboxWorld, InboxTypes
      <4>4. InboxLive(inbox[i])
        BY <3>2, <4>2, <4>3 DEF InboxWorld, InboxRows
      <4>5. Inbox!Beat(i) /\ Needs[i] \in Suggested \ torn /\ things[t].by = "accept" => InboxLive(inbox[Needs[i]])
        BY <3>2, <4>1 DEF InboxWorld, InboxBeats
      <4> QED
        BY <4>2, <4>3, <4>4, <4>5
    <3>4. Inbox!Open(inbox[i]) \/ inbox[i].status = "rejected" => held = {}
      BY <3>3, InboxOpens DEF InboxLive
    <3>5. inbox[i].status = "accepted" => inbox[i].made \in DOMAIN things \cup dropped
      BY <3>2 DEF InboxWorld, InboxStanding, InboxStands
    <3>6. Inbox!Cardinality(held) <= 1
      <4>1. held \in SUBSET {inbox[i].made}
        BY <3>3
      <4> HIDE DEF held
      <4>2. IsFiniteSet({inbox[i].made}) /\ Cardinality({inbox[i].made}) = 1
        BY FS_Singleton
      <4>3. Cardinality(held) <= Cardinality({inbox[i].made})
        BY <4>1, <4>2, FS_Subset
      <4> QED
        BY <4>2, <4>3, InboxCounts
    <3>7. Inbox!Beat(i) /\ Needs[i] \in Suggested \ torn /\ Inbox!Open(inbox[Needs[i]]) => \A t \in held : things[t].by = "loose"
      <4> SUFFICES ASSUME Inbox!Beat(i), Needs[i] \in Suggested \ torn, Inbox!Open(inbox[Needs[i]]), NEW t \in held
                   PROVE  things[t].by = "loose"
        OBVIOUS
      <4>1. things[t].by \in {"accept", "loose"}
        OBVIOUS
      <4>2. things[t].by # "accept"
        BY <3>3, InboxOpens
      <4> QED
        BY <4>1, <4>2
    <3> QED
      BY <3>4, <3>5, <3>6, <3>7
  <2> QED
    BY <2>2, <2>3 DEF Honest, Inbox!Honest
<1> QED
  BY <1>1, InboxInit, InboxNext, PTL DEF InboxSpec, Inbox!Spec

(* The inbox: when the engine serves, no item is left half taken back, wherever  *)
(* an undo was cut off: ReconcileReverting, and Undo of proposals.               *)
THEOREM InboxSettlesAll == InboxSpec => StartSettles
<1>1. InboxInv /\ [Inbox!Next]_(Inbox!vars) =>
        [Inbox!Serve => \A i \in Suggested \ torn : inbox[i].status # "reverting"]_(Inbox!vars)
  BY InboxServes
<1> QED
  BY <1>1, InboxInit, InboxNext, PTL DEF InboxSpec, Inbox!Spec, StartSettles, Inbox!StartSettles
=============================================================================
