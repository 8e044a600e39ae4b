------------------------- MODULE SextantBuildProofs -------------------------
(***************************************************************************)
(* Proofs about SextantBuild, for any number of connections, any limits    *)
(* and any bounds: a committed index covers what its plan saw, a           *)
(* statement that runs alone leaves the limit it found, and while no two   *)
(* statements overlap no clamp is forgotten.                               *)
(***************************************************************************)
EXTENDS SextantBuild, TLAPS

USE BuildAssumption

(* What a restore makes of the limit it was saved from.                    *)
Rounded(limit) == IF limit = Unset THEN Unset ELSE RoundUp(limit)

(* Limits are only clamped from above the cap, so a restore never sets the *)
(* limit to the cap.                                                       *)
AboveCap(limit) == limit = Unset \/ limit > Cap

RestoreInv ==
    /\ restore # Nothing => AboveCap(restore)
    /\ \A c \in Connections :
         stmt[c].at \in {"clamp", "save"} => AboveCap(stmt[c].mem_before)

(* A built tree was pushed as many rows as the plan saw; an accepted tree  *)
(* has them.                                                               *)
CountedInv ==
    \A c \in Connections :
        /\ At(c, "attach") /\ ~stmt[c].prebuilt => stmt[c].pushed = stmt[c].n_rows
        /\ stmt[c].at \in {"restore", "clear", "commit"} => sidecar[c] = stmt[c].n_rows

(* A statement that remembers the limit it found is the only one running.  *)
OnlyInv ==
    \A c \in Connections : stmt[c].before # Nothing =>
        /\ Running(c)
        /\ \A d \in Connections \ {c} : ~Running(d)

(* Where such a statement's limit is to be found, location by location.    *)
Holds(c, limit) ==
    CASE At(c, "pending") -> limit = IF restore = Nothing THEN memory_limit ELSE restore
      [] At(c, "unpend") -> restore = limit /\ memory_limit = limit
      [] At(c, "read") -> restore = Nothing /\ memory_limit = limit
      [] At(c, "clamp") -> /\ restore = Nothing /\ memory_limit = limit
                           /\ stmt[c].mem_before = limit
      [] At(c, "save") -> restore = Nothing /\ stmt[c].mem_before = limit
      [] At(c, "clear") -> memory_limit = Rounded(limit)
      [] At(c, "commit") -> restore = Nothing /\ memory_limit \in {limit, Rounded(limit)}
      [] OTHER -> \/ restore = Nothing /\ memory_limit = limit
                  \/ restore = Rounded(limit)

AloneInv ==
    \A c \in Connections : stmt[c].before # Nothing => Holds(c, stmt[c].before)

(* While no two statements have overlapped at most one runs.               *)
SoloInv ==
    ~overlapped =>
        \A c, d \in Connections : Running(c) /\ Running(d) => c = d

(* A clamp in force that no user SET is about to be saved or is pending,   *)
(* and nobody has already run what is pending.                             *)
ClampInv ==
    memory_limit = Cap /\ user_limit # Cap /\ ~overlapped =>
        \/ \E c \in Connections : At(c, "save")
        \/ /\ restore # Nothing
           /\ \A c \in Connections : stmt[c].at \notin {"unpend", "clear"}

IInv == /\ TypeOK
        /\ RestoreInv
        /\ CountedInv
        /\ OnlyInv
        /\ AloneInv
        /\ SoloInv
        /\ ClampInv

(* Rounding up to whole units gives a limit that is no smaller, and that   *)
(* rounding again leaves alone.                                            *)
LEMMA RoundUpFacts ==
    ASSUME NEW l \in Nat
    PROVE  RoundUp(l) \in Nat /\ RoundUp(l) >= l /\ RoundUp(RoundUp(l)) = RoundUp(l)
<1> DEFINE q == (l + Unit - 1) \div Unit
<1>1. q \in Nat /\ q * Unit <= l + Unit - 1 /\ l + Unit - 1 < q * Unit + Unit
    OBVIOUS
<1>2. RoundUp(l) = q * Unit
    BY DEF RoundUp
<1> HIDE DEF q
<1>3. RoundUp(q * Unit) = ((q * Unit + Unit - 1) \div Unit) * Unit
    BY DEF RoundUp
<1>4. (q * Unit + Unit - 1) \div Unit = q
    BY <1>1
<1> QED
    BY <1>1, <1>2, <1>3, <1>4

(* Limits are numbers or Unset, never Nothing; what a limit above the cap  *)
(* is saved as is a restore, above the cap too.                            *)
LEMMA LimitFacts ==
    /\ Limits \subseteq Nat \cup {Unset}
    /\ Nothing \notin Limits
    /\ Unset \in Restores /\ Cap \in Limits
    /\ UserLimits \subseteq Limits /\ Restores \subseteq Limits
    /\ \A l \in Limits : Rounded(l) # Nothing
    /\ \A l \in Limits : AboveCap(l) => Rounded(l) \in Restores /\ AboveCap(Rounded(l))
<1>1. \A l \in UserLimits : l \in Nat /\ RoundUp(l) \in Nat
    BY RoundUpFacts
<1>2. Limits \subseteq Nat \cup {Unset}
    BY <1>1 DEF Limits, Restores
<1>3. ASSUME NEW l \in Limits, AboveCap(l)
      PROVE  Rounded(l) \in Restores /\ AboveCap(Rounded(l))
    <2>1. CASE l = Unset
        BY <2>1 DEF Rounded, AboveCap, Restores
    <2>2. CASE l # Unset
        <3>1. l \in Nat /\ l > Cap /\ Rounded(l) = RoundUp(l)
            BY <1>2, <1>3, <2>2 DEF AboveCap, Rounded
        <3>2. AboveCap(RoundUp(l))
            BY <3>1, RoundUpFacts DEF AboveCap
        <3>3. CASE l \in UserLimits
            BY <3>1, <3>2, <3>3 DEF Restores
        <3>4. CASE l \in Restores
            <4>1. PICK u \in UserLimits : l = RoundUp(u)
                BY <2>2, <3>4 DEF Restores
            <4>2. RoundUp(l) = RoundUp(u)
                BY <4>1, RoundUpFacts
            <4> QED
                BY <3>1, <3>2, <4>2 DEF Restores
        <3> QED
            BY <3>1, <3>3, <3>4 DEF Limits
    <2> QED
        BY <2>1, <2>2
<1>4. \A l \in Limits : Rounded(l) # Nothing
    BY <1>2, RoundUpFacts DEF Rounded
<1> QED
    BY <1>2, <1>3, <1>4 DEF Limits, Restores

(* An idle connection's statement is one.                                 *)
LEMMA NoStatementType == NoStatement \in Statement
BY LimitFacts DEF NoStatement, Statement, Locations, Counts


-----------------------------------------------------------------------------
(* What a step of c makes of its statement: everything but the limit it    *)
(* found is given, and the other statements stay as they are.              *)
Becomes(c, loc, prebuilt, mem_before, n_rows, pushed) ==
    /\ stmt' \in [Connections -> Statement]
    /\ \A d \in Connections \ {c} : stmt'[d] = stmt[d]
    /\ stmt'[c].at = loc
    /\ stmt'[c].prebuilt = prebuilt
    /\ stmt'[c].mem_before = mem_before
    /\ stmt'[c].n_rows = n_rows
    /\ stmt'[c].pushed = pushed
    /\ stmt'[c].before = stmt[c].before

(* Only the statement that takes the step is replaced.                     *)
LEMMA Replaced ==
    ASSUME TypeOK, NEW c \in Connections, NEW s \in Statement,
           s.before = stmt[c].before,
           stmt' = [stmt EXCEPT ![c] = s]
    PROVE  Becomes(c, s.at, s.prebuilt, s.mem_before, s.n_rows, s.pushed)
BY DEF TypeOK, Becomes

(* Going on changes the location alone.                                    *)
LEMMA GotoBecomes ==
    ASSUME TypeOK, NEW c \in Connections, NEW loc \in Locations, Goto(c, loc)
    PROVE  Becomes(c, loc, stmt[c].prebuilt, stmt[c].mem_before, stmt[c].n_rows, stmt[c].pushed)
<1> DEFINE s == [stmt[c] EXCEPT !.at = loc]
<1>1. stmt[c] \in Statement
    BY DEF TypeOK
<1>2. stmt' = [stmt EXCEPT ![c] = s]
    BY DEF Goto
<1>3. /\ s \in Statement /\ s.at = loc /\ s.prebuilt = stmt[c].prebuilt
      /\ s.mem_before = stmt[c].mem_before /\ s.n_rows = stmt[c].n_rows
      /\ s.pushed = stmt[c].pushed /\ s.before = stmt[c].before
    BY <1>1 DEF Statement
<1> HIDE DEF s
<1> QED
    BY <1>2, <1>3, Replaced

(* Reading or dropping the limit read changes it and the location.         *)
LEMMA LimitBecomes ==
    ASSUME TypeOK, NEW c \in Connections, NEW loc \in Locations, NEW limit \in Limits,
           stmt' = [stmt EXCEPT ![c].mem_before = limit, ![c].at = loc]
    PROVE  Becomes(c, loc, stmt[c].prebuilt, limit, stmt[c].n_rows, stmt[c].pushed)
<1> DEFINE s == [stmt[c] EXCEPT !.mem_before = limit, !.at = loc]
<1>1. stmt[c] \in Statement
    BY DEF TypeOK
<1>2. stmt' = [stmt EXCEPT ![c] = s]
    OBVIOUS
<1>3. /\ s \in Statement /\ s.at = loc /\ s.prebuilt = stmt[c].prebuilt
      /\ s.mem_before = limit /\ s.n_rows = stmt[c].n_rows
      /\ s.pushed = stmt[c].pushed /\ s.before = stmt[c].before
    BY <1>1 DEF Statement
<1> HIDE DEF s
<1> QED
    BY <1>2, <1>3, Replaced

(* BuildGlobalInit reads WITH (prebuilt).                                  *)
LEMMA OptionsBecome ==
    ASSUME TypeOK, NEW c \in Connections, BuildGlobalInit(c)
    PROVE  /\ At(c, "options") /\ UNCHANGED <<memory_limit, restore, data, ghosts>>
           /\ \E p \in BOOLEAN :
                Becomes(c, "scan", p, stmt[c].mem_before, stmt[c].n_rows, stmt[c].pushed)
<1>1. PICK p \in BOOLEAN : stmt' = [stmt EXCEPT ![c].prebuilt = p, ![c].at = "scan"]
    BY DEF BuildGlobalInit
<1> DEFINE s == [stmt[c] EXCEPT !.prebuilt = p, !.at = "scan"]
<1>2. stmt[c] \in Statement
    BY DEF TypeOK
<1>3. stmt' = [stmt EXCEPT ![c] = s]
    BY <1>1
<1>4. /\ s \in Statement /\ s.at = "scan" /\ s.prebuilt = p
      /\ s.mem_before = stmt[c].mem_before /\ s.n_rows = stmt[c].n_rows
      /\ s.pushed = stmt[c].pushed /\ s.before = stmt[c].before
    BY <1>2 DEF Statement, Locations
<1> HIDE DEF s
<1> QED
    BY <1>3, <1>4, Replaced DEF BuildGlobalInit

(* The combines add up the rows the plan saw.                              *)
LEMMA CountBecomes ==
    ASSUME TypeOK, NEW c \in Connections, SinkAndCombine(c)
    PROVE  /\ At(c, "scan") /\ UNCHANGED <<memory_limit, restore, data, ghosts>>
           /\ \E n \in Counts :
                Becomes(c, "finalize", stmt[c].prebuilt, stmt[c].mem_before, n, stmt[c].pushed)
<1>1. PICK n \in Counts : stmt' = [stmt EXCEPT ![c].n_rows = n, ![c].at = "finalize"]
    <2>1. rows[c] \in 0 .. MaxRows
        BY DEF TypeOK
    <2>2. PICK own_rows \in {0, 1} :
            stmt' = [stmt EXCEPT ![c].n_rows = rows[c] + own_rows, ![c].at = "finalize"]
        BY DEF SinkAndCombine
    <2>3. rows[c] + own_rows \in Counts
        BY <2>1 DEF Counts
    <2> QED
        BY <2>2, <2>3
<1> DEFINE s == [stmt[c] EXCEPT !.n_rows = n, !.at = "finalize"]
<1>2. stmt[c] \in Statement
    BY DEF TypeOK
<1>3. stmt' = [stmt EXCEPT ![c] = s]
    BY <1>1
<1>4. /\ s \in Statement /\ s.at = "finalize" /\ s.prebuilt = stmt[c].prebuilt
      /\ s.mem_before = stmt[c].mem_before /\ s.n_rows = n
      /\ s.pushed = stmt[c].pushed /\ s.before = stmt[c].before
    BY <1>2 DEF Statement, Locations
<1> HIDE DEF s
<1> QED
    BY <1>3, <1>4, Replaced DEF SinkAndCombine

(* The finalize scan pushes the committed rows.                            *)
LEMMA PushBecomes ==
    ASSUME TypeOK, NEW c \in Connections, PushRows(c)
    PROVE  /\ At(c, "finalize") /\ ~stmt[c].prebuilt
           /\ UNCHANGED <<memory_limit, restore, data, ghosts>>
           /\ Becomes(c, "count", stmt[c].prebuilt, stmt[c].mem_before, stmt[c].n_rows, rows[c])
<1> DEFINE s == [stmt[c] EXCEPT !.pushed = rows[c], !.at = "count"]
<1>1. stmt[c] \in Statement /\ rows[c] \in Counts
    BY DEF TypeOK, Counts
<1>2. stmt' = [stmt EXCEPT ![c] = s]
    BY DEF PushRows
<1>3. /\ s \in Statement /\ s.at = "count" /\ s.prebuilt = stmt[c].prebuilt
      /\ s.mem_before = stmt[c].mem_before /\ s.n_rows = stmt[c].n_rows
      /\ s.pushed = rows[c] /\ s.before = stmt[c].before
    BY <1>1 DEF Statement, Locations
<1> HIDE DEF s
<1> QED
    BY <1>2, <1>3, Replaced DEF PushRows

(* A limit above the cap is read, to be clamped.                           *)
LEMMA ReadLimitBecomes ==
    ASSUME TypeOK, NEW c \in Connections, ReadLimit(c)
    PROVE  /\ At(c, "read") /\ UNCHANGED <<memory_limit, restore, data, ghosts>>
           /\ \/ /\ AboveCap(memory_limit)
                 /\ Becomes(c, "clamp", stmt[c].prebuilt, memory_limit, stmt[c].n_rows, stmt[c].pushed)
              \/ /\ ~AboveCap(memory_limit)
                 /\ Becomes(c, "options", stmt[c].prebuilt, stmt[c].mem_before, stmt[c].n_rows, stmt[c].pushed)
<1>1. At(c, "read") /\ UNCHANGED <<memory_limit, restore, data, ghosts>>
    BY DEF ReadLimit
<1>2. CASE AboveCap(memory_limit)
    <2>1. stmt' = [stmt EXCEPT ![c].mem_before = memory_limit, ![c].at = "clamp"]
        BY <1>2 DEF ReadLimit, AboveCap
    <2>2. memory_limit \in Limits
        BY DEF TypeOK
    <2> QED
        BY <1>1, <1>2, <2>1, <2>2, LimitBecomes DEF Locations
<1>3. CASE ~AboveCap(memory_limit)
    <2>1. Goto(c, "options")
        BY <1>3 DEF ReadLimit, Goto, AboveCap
    <2> QED
        BY <1>1, <1>3, <2>1, GotoBecomes DEF Locations
<1> QED
    BY <1>2, <1>3

(* Either the cap is in force, or the limit read is dropped.               *)
LEMMA SetClampBecomes ==
    ASSUME TypeOK, NEW c \in Connections, SetClamp(c)
    PROVE  /\ At(c, "clamp") /\ UNCHANGED <<restore, data, ghosts>>
           /\ \/ /\ memory_limit' = Cap
                 /\ Becomes(c, "save", stmt[c].prebuilt, stmt[c].mem_before, stmt[c].n_rows, stmt[c].pushed)
              \/ /\ UNCHANGED memory_limit
                 /\ Becomes(c, "options", stmt[c].prebuilt, Unset, stmt[c].n_rows, stmt[c].pushed)
<1>1. At(c, "clamp") /\ UNCHANGED <<restore, data, ghosts>>
    BY DEF SetClamp
<1>2. CASE memory_limit' = Cap /\ Goto(c, "save")
    BY <1>1, <1>2, GotoBecomes DEF Locations
<1>3. CASE /\ stmt' = [stmt EXCEPT ![c].mem_before = Unset, ![c].at = "options"]
           /\ UNCHANGED memory_limit
    BY <1>1, <1>3, LimitBecomes, LimitFacts DEF Locations
<1> QED
    BY <1>2, <1>3 DEF SetClamp

(* The limit read goes into the restore.                                   *)
LEMMA SaveRestoreBecomes ==
    ASSUME TypeOK, NEW c \in Connections, SaveRestore(c)
    PROVE  /\ At(c, "save") /\ UNCHANGED <<memory_limit, data, ghosts>>
           /\ restore' = Rounded(stmt[c].mem_before)
           /\ Becomes(c, "options", stmt[c].prebuilt, Unset, stmt[c].n_rows, stmt[c].pushed)
<1>1. /\ At(c, "save") /\ UNCHANGED <<memory_limit, data, ghosts>>
      /\ restore' = Rounded(stmt[c].mem_before)
    BY DEF SaveRestore, Rounded
<1>2. stmt' = [stmt EXCEPT ![c].mem_before = Unset, ![c].at = "options"]
    BY DEF SaveRestore
<1> QED
    BY <1>1, <1>2, LimitBecomes, LimitFacts DEF Locations

(* A statement that ends leaves nothing behind.                            *)
LEMMA ForgetFacts ==
    ASSUME TypeOK, NEW c \in Connections, Forget(c)
    PROVE  /\ stmt' \in [Connections -> Statement]
           /\ \A d \in Connections \ {c} : stmt'[d] = stmt[d]
           /\ stmt'[c] = NoStatement
BY NoStatementType DEF TypeOK, Forget

(* A new one has been given only its location and, if it is alone, the     *)
(* limit in force or to be restored; the others have lost theirs.          *)
LEMMA BeginFacts ==
    ASSUME TypeOK, NEW c \in Connections, Begin(c)
    PROVE  /\ At(c, "idle") /\ UNCHANGED <<memory_limit, restore, data, user_limit>>
           /\ overlapped' = (overlapped \/ \E d \in Connections \ {c} : Running(d))
           /\ stmt' \in [Connections -> Statement]
           /\ stmt'[c].at = "pending"
           /\ stmt'[c].before =
                 IF \E d \in Connections \ {c} : Running(d) THEN Nothing
                 ELSE IF restore = Nothing THEN memory_limit ELSE restore
           /\ \A d \in Connections \ {c} :
                 /\ stmt'[d].before = Nothing
                 /\ stmt'[d].at = stmt[d].at /\ stmt'[d].prebuilt = stmt[d].prebuilt
                 /\ stmt'[d].mem_before = stmt[d].mem_before
                 /\ stmt'[d].n_rows = stmt[d].n_rows /\ stmt'[d].pushed = stmt[d].pushed
<1> DEFINE others == {d \in Connections \ {c} : Running(d)}
           found == IF others # {} THEN Nothing
                    ELSE IF restore = Nothing THEN memory_limit ELSE restore
           begun == [NoStatement EXCEPT !.at = "pending", !.before = found]
           quiet(d) == [stmt[d] EXCEPT !.before = Nothing]
<1>1. stmt' = [d \in Connections |-> IF d = c THEN begun ELSE quiet(d)]
    BY DEF Begin
<1>2. found \in Limits \cup {Nothing}
    BY LimitFacts DEF TypeOK
<1> HIDE DEF found
<1>3. begun \in Statement /\ begun.at = "pending" /\ begun.before = found
    BY <1>2, NoStatementType DEF Statement, Locations
<1>4. ASSUME NEW d \in Connections
      PROVE  /\ quiet(d) \in Statement /\ quiet(d).before = Nothing
             /\ quiet(d).at = stmt[d].at /\ quiet(d).prebuilt = stmt[d].prebuilt
             /\ quiet(d).mem_before = stmt[d].mem_before
             /\ quiet(d).n_rows = stmt[d].n_rows /\ quiet(d).pushed = stmt[d].pushed
    <2>1. stmt[d] \in Statement
        BY DEF TypeOK
    <2> QED
        BY <2>1 DEF Statement
<1>5. stmt'[c] = begun /\ \A d \in Connections \ {c} : stmt'[d] = quiet(d)
    BY <1>1
<1>6. stmt' \in [Connections -> Statement]
    <2> HIDE DEF begun, quiet
    <2> QED
        BY <1>1, <1>3, <1>4
<1>7. found = IF \E d \in Connections \ {c} : Running(d) THEN Nothing
              ELSE IF restore = Nothing THEN memory_limit ELSE restore
    BY DEF found
<1>8. /\ At(c, "idle") /\ UNCHANGED <<memory_limit, restore, data, user_limit>>
      /\ overlapped' = (overlapped \/ \E d \in Connections \ {c} : Running(d))
    BY DEF Begin
<1> HIDE DEF begun, quiet
<1> QED
    BY <1>3, <1>4, <1>5, <1>6, <1>7, <1>8

(* After a SET no statement counts as alone.                               *)
LEMMA UserSetFacts ==
    ASSUME TypeOK, UserSet
    PROVE  /\ memory_limit' \in UserLimits /\ user_limit' = memory_limit'
           /\ UNCHANGED <<restore, data, statements, overlapped>>
           /\ stmt' \in [Connections -> Statement]
           /\ \A d \in Connections :
                 /\ stmt'[d].before = Nothing
                 /\ stmt'[d].at = stmt[d].at /\ stmt'[d].prebuilt = stmt[d].prebuilt
                 /\ stmt'[d].mem_before = stmt[d].mem_before
                 /\ stmt'[d].n_rows = stmt[d].n_rows /\ stmt'[d].pushed = stmt[d].pushed
<1> DEFINE quiet(d) == [stmt[d] EXCEPT !.before = Nothing]
<1>1. stmt' = [d \in Connections |-> quiet(d)]
    BY DEF UserSet
<1>2. ASSUME NEW d \in Connections
      PROVE  /\ quiet(d) \in Statement /\ quiet(d).before = Nothing
             /\ quiet(d).at = stmt[d].at /\ quiet(d).prebuilt = stmt[d].prebuilt
             /\ quiet(d).mem_before = stmt[d].mem_before
             /\ quiet(d).n_rows = stmt[d].n_rows /\ quiet(d).pushed = stmt[d].pushed
    <2>1. stmt[d] \in Statement
        BY DEF TypeOK
    <2> QED
        BY <2>1 DEF Statement
<1> HIDE DEF quiet
<1> QED
    BY <1>1, <1>2 DEF UserSet

-----------------------------------------------------------------------------
(* The invariant holds initially.                                          *)
LEMMA InitHolds == Init => IInv
<1> SUFFICES ASSUME Init PROVE IInv
    OBVIOUS
<1>1. /\ \A c \in Connections : stmt[c] = NoStatement
      /\ restore = Nothing /\ user_limit = memory_limit
    BY DEF Init
<1>2. TypeOK
    <2>1. sidecar \in [Connections -> Counts \cup {Nothing}]
        BY DEF Init, Counts
    <2>2. /\ rows \in [Connections -> 0 .. MaxRows]
          /\ statements \in [Connections -> 0 .. MaxStatements]
        BY DEF Init
    <2>3. stmt \in [Connections -> Statement]
        BY NoStatementType DEF Init
    <2> QED
        BY <2>1, <2>2, <2>3, LimitFacts DEF Init, TypeOK
<1>3. \A c \in Connections : stmt[c].at = "idle" /\ stmt[c].before = Nothing
    <2>1. NoStatement.at = "idle" /\ NoStatement.before = Nothing
        BY DEF NoStatement
    <2> QED
        BY <1>1, <2>1
<1>4. RestoreInv /\ CountedInv /\ OnlyInv /\ AloneInv /\ SoloInv
    BY <1>1, <1>3 DEF RestoreInv, CountedInv, OnlyInv, AloneInv, SoloInv, At, Running
<1>5. ClampInv
    BY <1>1 DEF ClampInv
<1> QED
    BY <1>2, <1>4, <1>5 DEF IInv

(* Every step keeps the types.                                             *)
LEMMA TypeNext == IInv /\ [Next]_vars => TypeOK'
<1> SUFFICES ASSUME IInv, [Next]_vars PROVE TypeOK'
    OBVIOUS
<1> USE LimitFacts, NoStatementType DEF IInv, TypeOK, data, ghosts
<1>1. ASSUME NEW c \in Connections, Begin(c) PROVE TypeOK'
    <2>1. statements' \in [Connections -> 0 .. MaxStatements]
        <3>1. statements[c] \in 0 .. MaxStatements /\ statements[c] < MaxStatements
            BY <1>1 DEF Begin
        <3>2. statements[c] + 1 \in 0 .. MaxStatements
            BY <3>1
        <3> QED
            BY <1>1, <3>2 DEF Begin
    <2> QED
        BY <1>1, <2>1, BeginFacts
<1>2. ASSUME NEW c \in Connections, RunPending(c) PROVE TypeOK'
    <2>1. CASE restore = Nothing
        BY <1>2, <2>1, GotoBecomes DEF RunPending, Locations, Becomes
    <2>2. CASE restore # Nothing
        BY <1>2, <2>2, GotoBecomes DEF RunPending, Locations, Becomes
    <2> QED
        BY <2>1, <2>2
<1>3. ASSUME NEW c \in Connections, ClearPending(c) PROVE TypeOK'
    BY <1>3, GotoBecomes DEF ClearPending, Locations, Becomes
<1>4. ASSUME NEW c \in Connections, ReadLimit(c) PROVE TypeOK'
    BY <1>4, ReadLimitBecomes DEF Becomes
<1>5. ASSUME NEW c \in Connections, SetClamp(c) PROVE TypeOK'
    BY <1>5, SetClampBecomes DEF Becomes
<1>6. ASSUME NEW c \in Connections, SaveRestore(c) PROVE TypeOK'
    <2>1. stmt[c].mem_before \in Limits /\ AboveCap(stmt[c].mem_before)
        BY <1>6 DEF SaveRestore, At, RestoreInv, Statement
    <2> QED
        BY <1>6, <2>1, SaveRestoreBecomes DEF Becomes
<1>7. ASSUME NEW c \in Connections, RejectOptions(c) PROVE TypeOK'
    BY <1>7, ForgetFacts DEF RejectOptions, Fail
<1>8. ASSUME NEW c \in Connections, BuildGlobalInit(c) PROVE TypeOK'
    BY <1>8, OptionsBecome DEF Becomes
<1>9. ASSUME NEW c \in Connections, SinkAndCombine(c) PROVE TypeOK'
    BY <1>9, CountBecomes DEF Becomes
<1>10. ASSUME NEW c \in Connections, Interrupted(c) PROVE TypeOK'
    BY <1>10, ForgetFacts DEF Interrupted, Fail
<1>11. ASSUME NEW c \in Connections, PushRows(c) PROVE TypeOK'
    BY <1>11, PushBecomes DEF Becomes
<1>12. ASSUME NEW c \in Connections, PushFails(c) PROVE TypeOK'
    BY <1>12, ForgetFacts DEF PushFails, Fail
<1>13. ASSUME NEW c \in Connections, FinishBuild(c) PROVE TypeOK'
    <2>1. stmt[c].pushed \in Counts
        BY DEF Statement
    <2> QED
        BY <1>13, <2>1, GotoBecomes DEF FinishBuild, Becomes, Locations
<1>14. ASSUME NEW c \in Connections, AbortBuild(c) PROVE TypeOK'
    BY <1>14, ForgetFacts DEF AbortBuild, Fail
<1>15. ASSUME NEW c \in Connections, TakePrebuilt(c) PROVE TypeOK'
    BY <1>15, GotoBecomes DEF TakePrebuilt, Locations, Becomes
<1>16. ASSUME NEW c \in Connections, AttachTree(c) PROVE TypeOK'
    BY <1>16, GotoBecomes DEF AttachTree, Locations, Becomes
<1>17. ASSUME NEW c \in Connections, AttachFails(c) PROVE TypeOK'
    BY <1>17, ForgetFacts DEF AttachFails, Fail
<1>18. ASSUME NEW c \in Connections, RestoreLimit(c) PROVE TypeOK'
    <2>1. CASE restore = Nothing
        BY <1>18, <2>1, GotoBecomes DEF RestoreLimit, UndoClamp, Locations, Becomes
    <2>2. CASE restore # Nothing
        BY <1>18, <2>2, GotoBecomes DEF RestoreLimit, UndoClamp, Locations, Becomes
    <2> QED
        BY <2>1, <2>2
<1>19. ASSUME NEW c \in Connections, ClearRestore(c) PROVE TypeOK'
    BY <1>19, GotoBecomes DEF ClearRestore, Locations, Becomes
<1>20. ASSUME NEW c \in Connections, Commit(c) PROVE TypeOK'
    BY <1>20, ForgetFacts DEF Commit
<1>21. ASSUME UserSet PROVE TypeOK'
    BY <1>21, UserSetFacts
<1>22. ASSUME NEW c \in Connections, Insert(c) PROVE TypeOK'
    BY <1>22 DEF Insert
<1>23. CASE UNCHANGED vars
    BY <1>23 DEF vars
<1> QED
    BY <1>1, <1>2, <1>3, <1>4, <1>5, <1>6, <1>7, <1>8, <1>9, <1>10, <1>11, <1>12, <1>13, <1>14,
       <1>15, <1>16, <1>17, <1>18, <1>19, <1>20, <1>21, <1>22, <1>23 DEF Next, Step

(* Every step keeps what is known of restores.                             *)
LEMMA RestoreNext == IInv /\ [Next]_vars => RestoreInv'
<1> SUFFICES ASSUME IInv, [Next]_vars PROVE RestoreInv'
    OBVIOUS
<1> USE LimitFacts DEF IInv, TypeOK, RestoreInv, At, data, ghosts
<1>1. ASSUME NEW c \in Connections, Begin(c) PROVE RestoreInv'
    BY <1>1, BeginFacts
<1>2. ASSUME NEW c \in Connections, RunPending(c) PROVE RestoreInv'
    <2>1. CASE restore = Nothing
        BY <1>2, <2>1, GotoBecomes DEF RunPending, Locations, Becomes
    <2>2. CASE restore # Nothing
        BY <1>2, <2>2, GotoBecomes DEF RunPending, Locations, Becomes
    <2> QED
        BY <2>1, <2>2
<1>3. ASSUME NEW c \in Connections, ClearPending(c) PROVE RestoreInv'
    BY <1>3, GotoBecomes DEF ClearPending, Locations, Becomes
<1>4. ASSUME NEW c \in Connections, ReadLimit(c) PROVE RestoreInv'
    BY <1>4, ReadLimitBecomes DEF Becomes
<1>5. ASSUME NEW c \in Connections, SetClamp(c) PROVE RestoreInv'
    BY <1>5, SetClampBecomes DEF Becomes
<1>6. ASSUME NEW c \in Connections, SaveRestore(c) PROVE RestoreInv'
    <2>1. stmt[c].mem_before \in Limits /\ AboveCap(stmt[c].mem_before)
        BY <1>6 DEF SaveRestore, Statement
    <2> QED
        BY <1>6, <2>1, SaveRestoreBecomes DEF Becomes
<1>7. ASSUME NEW c \in Connections, RejectOptions(c) PROVE RestoreInv'
    BY <1>7, ForgetFacts DEF RejectOptions, Fail, NoStatement
<1>8. ASSUME NEW c \in Connections, BuildGlobalInit(c) PROVE RestoreInv'
    BY <1>8, OptionsBecome DEF Becomes
<1>9. ASSUME NEW c \in Connections, SinkAndCombine(c) PROVE RestoreInv'
    BY <1>9, CountBecomes DEF Becomes
<1>10. ASSUME NEW c \in Connections, Interrupted(c) PROVE RestoreInv'
    BY <1>10, ForgetFacts DEF Interrupted, Fail, NoStatement
<1>11. ASSUME NEW c \in Connections, PushRows(c) PROVE RestoreInv'
    BY <1>11, PushBecomes DEF Becomes
<1>12. ASSUME NEW c \in Connections, PushFails(c) PROVE RestoreInv'
    BY <1>12, ForgetFacts DEF PushFails, Fail, NoStatement
<1>13. ASSUME NEW c \in Connections, FinishBuild(c) PROVE RestoreInv'
    BY <1>13, GotoBecomes DEF FinishBuild, Locations, Becomes
<1>14. ASSUME NEW c \in Connections, AbortBuild(c) PROVE RestoreInv'
    BY <1>14, ForgetFacts DEF AbortBuild, Fail, NoStatement
<1>15. ASSUME NEW c \in Connections, TakePrebuilt(c) PROVE RestoreInv'
    BY <1>15, GotoBecomes DEF TakePrebuilt, Locations, Becomes
<1>16. ASSUME NEW c \in Connections, AttachTree(c) PROVE RestoreInv'
    BY <1>16, GotoBecomes DEF AttachTree, Locations, Becomes
<1>17. ASSUME NEW c \in Connections, AttachFails(c) PROVE RestoreInv'
    BY <1>17, ForgetFacts DEF AttachFails, Fail, NoStatement
<1>18. ASSUME NEW c \in Connections, RestoreLimit(c) PROVE RestoreInv'
    <2>1. CASE restore = Nothing
        BY <1>18, <2>1, GotoBecomes DEF RestoreLimit, UndoClamp, Locations, Becomes
    <2>2. CASE restore # Nothing
        BY <1>18, <2>2, GotoBecomes DEF RestoreLimit, UndoClamp, Locations, Becomes
    <2> QED
        BY <2>1, <2>2
<1>19. ASSUME NEW c \in Connections, ClearRestore(c) PROVE RestoreInv'
    BY <1>19, GotoBecomes DEF ClearRestore, Locations, Becomes
<1>20. ASSUME NEW c \in Connections, Commit(c) PROVE RestoreInv'
    BY <1>20, ForgetFacts DEF Commit, NoStatement
<1>21. ASSUME UserSet PROVE RestoreInv'
    BY <1>21, UserSetFacts
<1>22. ASSUME NEW c \in Connections, Insert(c) PROVE RestoreInv'
    BY <1>22 DEF Insert
<1>23. CASE UNCHANGED vars
    BY <1>23 DEF vars
<1> QED
    BY <1>1, <1>2, <1>3, <1>4, <1>5, <1>6, <1>7, <1>8, <1>9, <1>10, <1>11, <1>12, <1>13, <1>14,
       <1>15, <1>16, <1>17, <1>18, <1>19, <1>20, <1>21, <1>22, <1>23 DEF Next, Step

(* Every step keeps what the counts say.                                   *)
LEMMA CountedNext == IInv /\ [Next]_vars => CountedInv'
<1> SUFFICES ASSUME IInv, [Next]_vars PROVE CountedInv'
    OBVIOUS
<1> USE DEF IInv, TypeOK, CountedInv, At, data, ghosts
<1>1. ASSUME NEW c \in Connections, Begin(c) PROVE CountedInv'
    BY <1>1, BeginFacts
<1>2. ASSUME NEW c \in Connections, RunPending(c) PROVE CountedInv'
    <2>1. CASE restore = Nothing
        BY <1>2, <2>1, GotoBecomes DEF RunPending, Locations, Becomes
    <2>2. CASE restore # Nothing
        BY <1>2, <2>2, GotoBecomes DEF RunPending, Locations, Becomes
    <2> QED
        BY <2>1, <2>2
<1>3. ASSUME NEW c \in Connections, ClearPending(c) PROVE CountedInv'
    BY <1>3, GotoBecomes DEF ClearPending, Locations, Becomes
<1>4. ASSUME NEW c \in Connections, ReadLimit(c) PROVE CountedInv'
    BY <1>4, ReadLimitBecomes DEF Becomes
<1>5. ASSUME NEW c \in Connections, SetClamp(c) PROVE CountedInv'
    BY <1>5, SetClampBecomes DEF Becomes
<1>6. ASSUME NEW c \in Connections, SaveRestore(c) PROVE CountedInv'
    BY <1>6, SaveRestoreBecomes DEF Becomes
<1>7. ASSUME NEW c \in Connections, RejectOptions(c) PROVE CountedInv'
    BY <1>7, ForgetFacts DEF RejectOptions, Fail, NoStatement
<1>8. ASSUME NEW c \in Connections, BuildGlobalInit(c) PROVE CountedInv'
    BY <1>8, OptionsBecome DEF Becomes
<1>9. ASSUME NEW c \in Connections, SinkAndCombine(c) PROVE CountedInv'
    BY <1>9, CountBecomes DEF Becomes
<1>10. ASSUME NEW c \in Connections, Interrupted(c) PROVE CountedInv'
    BY <1>10, ForgetFacts DEF Interrupted, Fail, NoStatement
<1>11. ASSUME NEW c \in Connections, PushRows(c) PROVE CountedInv'
    BY <1>11, PushBecomes DEF Becomes
<1>12. ASSUME NEW c \in Connections, PushFails(c) PROVE CountedInv'
    BY <1>12, ForgetFacts DEF PushFails, Fail, NoStatement
<1>13. ASSUME NEW c \in Connections, FinishBuild(c) PROVE CountedInv'
    BY <1>13, GotoBecomes DEF FinishBuild, Locations, Becomes, CountsAgree
<1>14. ASSUME NEW c \in Connections, AbortBuild(c) PROVE CountedInv'
    BY <1>14, ForgetFacts DEF AbortBuild, Fail, NoStatement
<1>15. ASSUME NEW c \in Connections, TakePrebuilt(c) PROVE CountedInv'
    BY <1>15, GotoBecomes DEF TakePrebuilt, Locations, Becomes
<1>16. ASSUME NEW c \in Connections, AttachTree(c) PROVE CountedInv'
    BY <1>16, GotoBecomes DEF AttachTree, Locations, Becomes, TreeAccepted, NBuild
<1>17. ASSUME NEW c \in Connections, AttachFails(c) PROVE CountedInv'
    BY <1>17, ForgetFacts DEF AttachFails, Fail, NoStatement
<1>18. ASSUME NEW c \in Connections, RestoreLimit(c) PROVE CountedInv'
    <2>1. CASE restore = Nothing
        BY <1>18, <2>1, GotoBecomes DEF RestoreLimit, UndoClamp, Locations, Becomes
    <2>2. CASE restore # Nothing
        BY <1>18, <2>2, GotoBecomes DEF RestoreLimit, UndoClamp, Locations, Becomes
    <2> QED
        BY <2>1, <2>2
<1>19. ASSUME NEW c \in Connections, ClearRestore(c) PROVE CountedInv'
    BY <1>19, GotoBecomes DEF ClearRestore, Locations, Becomes
<1>20. ASSUME NEW c \in Connections, Commit(c) PROVE CountedInv'
    BY <1>20, ForgetFacts DEF Commit, NoStatement
<1>21. ASSUME UserSet PROVE CountedInv'
    BY <1>21, UserSetFacts
<1>22. ASSUME NEW c \in Connections, Insert(c) PROVE CountedInv'
    BY <1>22 DEF Insert
<1>23. CASE UNCHANGED vars
    BY <1>23 DEF vars
<1> QED
    BY <1>1, <1>2, <1>3, <1>4, <1>5, <1>6, <1>7, <1>8, <1>9, <1>10, <1>11, <1>12, <1>13, <1>14,
       <1>15, <1>16, <1>17, <1>18, <1>19, <1>20, <1>21, <1>22, <1>23 DEF Next, Step

(* Every step keeps apart the statement that remembers its limit.          *)
LEMMA OnlyNext == IInv /\ [Next]_vars => OnlyInv'
<1> SUFFICES ASSUME IInv, [Next]_vars PROVE OnlyInv'
    OBVIOUS
<1> USE DEF IInv, TypeOK, OnlyInv, Running, At, data, ghosts
<1>1. ASSUME NEW c \in Connections, Begin(c) PROVE OnlyInv'
    BY <1>1, BeginFacts
<1>2. ASSUME NEW c \in Connections, RunPending(c) PROVE OnlyInv'
    <2>1. CASE restore = Nothing
        BY <1>2, <2>1, GotoBecomes DEF RunPending, Locations, Becomes
    <2>2. CASE restore # Nothing
        BY <1>2, <2>2, GotoBecomes DEF RunPending, Locations, Becomes
    <2> QED
        BY <2>1, <2>2
<1>3. ASSUME NEW c \in Connections, ClearPending(c) PROVE OnlyInv'
    BY <1>3, GotoBecomes DEF ClearPending, Locations, Becomes
<1>4. ASSUME NEW c \in Connections, ReadLimit(c) PROVE OnlyInv'
    BY <1>4, ReadLimitBecomes DEF Becomes
<1>5. ASSUME NEW c \in Connections, SetClamp(c) PROVE OnlyInv'
    BY <1>5, SetClampBecomes DEF Becomes
<1>6. ASSUME NEW c \in Connections, SaveRestore(c) PROVE OnlyInv'
    BY <1>6, SaveRestoreBecomes DEF Becomes
<1>7. ASSUME NEW c \in Connections, RejectOptions(c) PROVE OnlyInv'
    BY <1>7, ForgetFacts DEF RejectOptions, Fail, NoStatement
<1>8. ASSUME NEW c \in Connections, BuildGlobalInit(c) PROVE OnlyInv'
    BY <1>8, OptionsBecome DEF Becomes
<1>9. ASSUME NEW c \in Connections, SinkAndCombine(c) PROVE OnlyInv'
    BY <1>9, CountBecomes DEF Becomes
<1>10. ASSUME NEW c \in Connections, Interrupted(c) PROVE OnlyInv'
    BY <1>10, ForgetFacts DEF Interrupted, Fail, NoStatement
<1>11. ASSUME NEW c \in Connections, PushRows(c) PROVE OnlyInv'
    BY <1>11, PushBecomes DEF Becomes
<1>12. ASSUME NEW c \in Connections, PushFails(c) PROVE OnlyInv'
    BY <1>12, ForgetFacts DEF PushFails, Fail, NoStatement
<1>13. ASSUME NEW c \in Connections, FinishBuild(c) PROVE OnlyInv'
    BY <1>13, GotoBecomes DEF FinishBuild, Locations, Becomes
<1>14. ASSUME NEW c \in Connections, AbortBuild(c) PROVE OnlyInv'
    BY <1>14, ForgetFacts DEF AbortBuild, Fail, NoStatement
<1>15. ASSUME NEW c \in Connections, TakePrebuilt(c) PROVE OnlyInv'
    BY <1>15, GotoBecomes DEF TakePrebuilt, Locations, Becomes
<1>16. ASSUME NEW c \in Connections, AttachTree(c) PROVE OnlyInv'
    BY <1>16, GotoBecomes DEF AttachTree, Locations, Becomes
<1>17. ASSUME NEW c \in Connections, AttachFails(c) PROVE OnlyInv'
    BY <1>17, ForgetFacts DEF AttachFails, Fail, NoStatement
<1>18. ASSUME NEW c \in Connections, RestoreLimit(c) PROVE OnlyInv'
    <2>1. CASE restore = Nothing
        BY <1>18, <2>1, GotoBecomes DEF RestoreLimit, UndoClamp, Locations, Becomes
    <2>2. CASE restore # Nothing
        BY <1>18, <2>2, GotoBecomes DEF RestoreLimit, UndoClamp, Locations, Becomes
    <2> QED
        BY <2>1, <2>2
<1>19. ASSUME NEW c \in Connections, ClearRestore(c) PROVE OnlyInv'
    BY <1>19, GotoBecomes DEF ClearRestore, Locations, Becomes
<1>20. ASSUME NEW c \in Connections, Commit(c) PROVE OnlyInv'
    BY <1>20, ForgetFacts DEF Commit, NoStatement
<1>21. ASSUME UserSet PROVE OnlyInv'
    BY <1>21, UserSetFacts
<1>22. ASSUME NEW c \in Connections, Insert(c) PROVE OnlyInv'
    BY <1>22 DEF Insert
<1>23. CASE UNCHANGED vars
    BY <1>23 DEF vars
<1> QED
    BY <1>1, <1>2, <1>3, <1>4, <1>5, <1>6, <1>7, <1>8, <1>9, <1>10, <1>11, <1>12, <1>13, <1>14,
       <1>15, <1>16, <1>17, <1>18, <1>19, <1>20, <1>21, <1>22, <1>23 DEF Next, Step

(* Every step keeps count of overlaps.                                     *)
LEMMA SoloNext == IInv /\ [Next]_vars => SoloInv'
<1> SUFFICES ASSUME IInv, [Next]_vars PROVE SoloInv'
    OBVIOUS
<1> USE DEF IInv, TypeOK, SoloInv, Running, At, data, ghosts
<1>1. ASSUME NEW c \in Connections, Begin(c) PROVE SoloInv'
    <2>1. CASE \E d \in Connections \ {c} : Running(d)
        BY <1>1, <2>1, BeginFacts
    <2>2. CASE ~\E d \in Connections \ {c} : Running(d)
        <3>1. \A d \in Connections \ {c} : stmt'[d].at = "idle"
            BY <1>1, <2>2, BeginFacts
        <3> QED
            BY <3>1
    <2> QED
        BY <2>1, <2>2
<1>2. ASSUME NEW c \in Connections, RunPending(c) PROVE SoloInv'
    <2>1. CASE restore = Nothing
        BY <1>2, <2>1, GotoBecomes DEF RunPending, Locations, Becomes
    <2>2. CASE restore # Nothing
        BY <1>2, <2>2, GotoBecomes DEF RunPending, Locations, Becomes
    <2> QED
        BY <2>1, <2>2
<1>3. ASSUME NEW c \in Connections, ClearPending(c) PROVE SoloInv'
    BY <1>3, GotoBecomes DEF ClearPending, Locations, Becomes
<1>4. ASSUME NEW c \in Connections, ReadLimit(c) PROVE SoloInv'
    BY <1>4, ReadLimitBecomes DEF Becomes
<1>5. ASSUME NEW c \in Connections, SetClamp(c) PROVE SoloInv'
    BY <1>5, SetClampBecomes DEF Becomes
<1>6. ASSUME NEW c \in Connections, SaveRestore(c) PROVE SoloInv'
    BY <1>6, SaveRestoreBecomes DEF Becomes
<1>7. ASSUME NEW c \in Connections, RejectOptions(c) PROVE SoloInv'
    BY <1>7, ForgetFacts DEF RejectOptions, Fail, NoStatement
<1>8. ASSUME NEW c \in Connections, BuildGlobalInit(c) PROVE SoloInv'
    BY <1>8, OptionsBecome DEF Becomes
<1>9. ASSUME NEW c \in Connections, SinkAndCombine(c) PROVE SoloInv'
    BY <1>9, CountBecomes DEF Becomes
<1>10. ASSUME NEW c \in Connections, Interrupted(c) PROVE SoloInv'
    BY <1>10, ForgetFacts DEF Interrupted, Fail, NoStatement
<1>11. ASSUME NEW c \in Connections, PushRows(c) PROVE SoloInv'
    BY <1>11, PushBecomes DEF Becomes
<1>12. ASSUME NEW c \in Connections, PushFails(c) PROVE SoloInv'
    BY <1>12, ForgetFacts DEF PushFails, Fail, NoStatement
<1>13. ASSUME NEW c \in Connections, FinishBuild(c) PROVE SoloInv'
    BY <1>13, GotoBecomes DEF FinishBuild, Locations, Becomes
<1>14. ASSUME NEW c \in Connections, AbortBuild(c) PROVE SoloInv'
    BY <1>14, ForgetFacts DEF AbortBuild, Fail, NoStatement
<1>15. ASSUME NEW c \in Connections, TakePrebuilt(c) PROVE SoloInv'
    BY <1>15, GotoBecomes DEF TakePrebuilt, Locations, Becomes
<1>16. ASSUME NEW c \in Connections, AttachTree(c) PROVE SoloInv'
    BY <1>16, GotoBecomes DEF AttachTree, Locations, Becomes
<1>17. ASSUME NEW c \in Connections, AttachFails(c) PROVE SoloInv'
    BY <1>17, ForgetFacts DEF AttachFails, Fail, NoStatement
<1>18. ASSUME NEW c \in Connections, RestoreLimit(c) PROVE SoloInv'
    <2>1. CASE restore = Nothing
        BY <1>18, <2>1, GotoBecomes DEF RestoreLimit, UndoClamp, Locations, Becomes
    <2>2. CASE restore # Nothing
        BY <1>18, <2>2, GotoBecomes DEF RestoreLimit, UndoClamp, Locations, Becomes
    <2> QED
        BY <2>1, <2>2
<1>19. ASSUME NEW c \in Connections, ClearRestore(c) PROVE SoloInv'
    BY <1>19, GotoBecomes DEF ClearRestore, Locations, Becomes
<1>20. ASSUME NEW c \in Connections, Commit(c) PROVE SoloInv'
    BY <1>20, ForgetFacts DEF Commit, NoStatement
<1>21. ASSUME UserSet PROVE SoloInv'
    BY <1>21, UserSetFacts
<1>22. ASSUME NEW c \in Connections, Insert(c) PROVE SoloInv'
    BY <1>22 DEF Insert
<1>23. CASE UNCHANGED vars
    BY <1>23 DEF vars
<1> QED
    BY <1>1, <1>2, <1>3, <1>4, <1>5, <1>6, <1>7, <1>8, <1>9, <1>10, <1>11, <1>12, <1>13, <1>14,
       <1>15, <1>16, <1>17, <1>18, <1>19, <1>20, <1>21, <1>22, <1>23 DEF Next, Step

(* Every step of the statement that remembers its limit keeps it in its    *)
(* place; no other statement takes a step meanwhile.                       *)
LEMMA AloneNext == IInv /\ [Next]_vars => AloneInv'
<1> SUFFICES ASSUME IInv, [Next]_vars PROVE AloneInv'
    OBVIOUS
<1> USE LimitFacts DEF IInv, TypeOK, OnlyInv, AloneInv, RestoreInv, Holds, Running, At, data, ghosts
<1>1. ASSUME NEW c \in Connections, Begin(c) PROVE AloneInv'
    BY <1>1, BeginFacts
<1>2. ASSUME NEW c \in Connections, RunPending(c) PROVE AloneInv'
    <2>1. CASE restore = Nothing
        BY <1>2, <2>1, GotoBecomes DEF RunPending, Locations, Becomes
    <2>2. CASE restore # Nothing
        BY <1>2, <2>2, GotoBecomes DEF RunPending, Locations, Becomes
    <2> QED
        BY <2>1, <2>2
<1>3. ASSUME NEW c \in Connections, ClearPending(c) PROVE AloneInv'
    BY <1>3, GotoBecomes DEF ClearPending, Locations, Becomes
<1>4. ASSUME NEW c \in Connections, ReadLimit(c) PROVE AloneInv'
    BY <1>4, ReadLimitBecomes DEF Becomes
<1>5. ASSUME NEW c \in Connections, SetClamp(c) PROVE AloneInv'
    BY <1>5, SetClampBecomes DEF Becomes, AboveCap
<1>6. ASSUME NEW c \in Connections, SaveRestore(c) PROVE AloneInv'
    BY <1>6, SaveRestoreBecomes DEF Becomes
<1>7. ASSUME NEW c \in Connections, RejectOptions(c) PROVE AloneInv'
    BY <1>7, ForgetFacts DEF RejectOptions, Fail, NoStatement
<1>8. ASSUME NEW c \in Connections, BuildGlobalInit(c) PROVE AloneInv'
    BY <1>8, OptionsBecome DEF Becomes
<1>9. ASSUME NEW c \in Connections, SinkAndCombine(c) PROVE AloneInv'
    BY <1>9, CountBecomes DEF Becomes
<1>10. ASSUME NEW c \in Connections, Interrupted(c) PROVE AloneInv'
    BY <1>10, ForgetFacts DEF Interrupted, Fail, NoStatement
<1>11. ASSUME NEW c \in Connections, PushRows(c) PROVE AloneInv'
    BY <1>11, PushBecomes DEF Becomes
<1>12. ASSUME NEW c \in Connections, PushFails(c) PROVE AloneInv'
    BY <1>12, ForgetFacts DEF PushFails, Fail, NoStatement
<1>13. ASSUME NEW c \in Connections, FinishBuild(c) PROVE AloneInv'
    BY <1>13, GotoBecomes DEF FinishBuild, Locations, Becomes
<1>14. ASSUME NEW c \in Connections, AbortBuild(c) PROVE AloneInv'
    BY <1>14, ForgetFacts DEF AbortBuild, Fail, NoStatement
<1>15. ASSUME NEW c \in Connections, TakePrebuilt(c) PROVE AloneInv'
    BY <1>15, GotoBecomes DEF TakePrebuilt, Locations, Becomes
<1>16. ASSUME NEW c \in Connections, AttachTree(c) PROVE AloneInv'
    BY <1>16, GotoBecomes DEF AttachTree, Locations, Becomes
<1>17. ASSUME NEW c \in Connections, AttachFails(c) PROVE AloneInv'
    BY <1>17, ForgetFacts DEF AttachFails, Fail, NoStatement
<1>18. ASSUME NEW c \in Connections, RestoreLimit(c) PROVE AloneInv'
    <2>1. CASE restore = Nothing
        <3>1. Goto(c, "commit") /\ UNCHANGED <<memory_limit, restore>> /\ At(c, "restore")
            BY <1>18, <2>1 DEF RestoreLimit, UndoClamp
        <3>2. Becomes(c, "commit", stmt[c].prebuilt, stmt[c].mem_before, stmt[c].n_rows, stmt[c].pushed)
            BY <3>1, GotoBecomes DEF Locations
        <3>3. stmt[c].before # Nothing => memory_limit = stmt[c].before
            BY <2>1, <3>1 DEF Statement
        <3> QED
            BY <2>1, <3>1, <3>2, <3>3 DEF Becomes
    <2>2. CASE restore # Nothing
        BY <1>18, <2>2, GotoBecomes DEF RestoreLimit, UndoClamp, Locations, Becomes
    <2> QED
        BY <2>1, <2>2
<1>19. ASSUME NEW c \in Connections, ClearRestore(c) PROVE AloneInv'
    BY <1>19, GotoBecomes DEF ClearRestore, Locations, Becomes
<1>20. ASSUME NEW c \in Connections, Commit(c) PROVE AloneInv'
    BY <1>20, ForgetFacts DEF Commit, NoStatement
<1>21. ASSUME UserSet PROVE AloneInv'
    BY <1>21, UserSetFacts
<1>22. ASSUME NEW c \in Connections, Insert(c) PROVE AloneInv'
    BY <1>22 DEF Insert
<1>23. CASE UNCHANGED vars
    BY <1>23 DEF vars
<1> QED
    BY <1>1, <1>2, <1>3, <1>4, <1>5, <1>6, <1>7, <1>8, <1>9, <1>10, <1>11, <1>12, <1>13, <1>14,
       <1>15, <1>16, <1>17, <1>18, <1>19, <1>20, <1>21, <1>22, <1>23 DEF Next, Step

(* Every step keeps a clamp in force on its way to being lifted.           *)
LEMMA ClampNext == IInv /\ [Next]_vars => ClampInv'
<1> SUFFICES ASSUME IInv, [Next]_vars PROVE ClampInv'
    OBVIOUS
<1> USE LimitFacts DEF IInv, TypeOK, ClampInv, SoloInv, RestoreInv, AboveCap, Running, At, data, ghosts
<1>1. ASSUME NEW c \in Connections, Begin(c) PROVE ClampInv'
    BY <1>1, BeginFacts
<1>2. ASSUME NEW c \in Connections, RunPending(c) PROVE ClampInv'
    <2>1. CASE restore = Nothing
        BY <1>2, <2>1, GotoBecomes DEF RunPending, Locations, Becomes
    <2>2. CASE restore # Nothing
        BY <1>2, <2>2, GotoBecomes DEF RunPending, Locations, Becomes
    <2> QED
        BY <2>1, <2>2
<1>3. ASSUME NEW c \in Connections, ClearPending(c) PROVE ClampInv'
    BY <1>3, GotoBecomes DEF ClearPending, Locations, Becomes
<1>4. ASSUME NEW c \in Connections, ReadLimit(c) PROVE ClampInv'
    BY <1>4, ReadLimitBecomes DEF Becomes
<1>5. ASSUME NEW c \in Connections, SetClamp(c) PROVE ClampInv'
    BY <1>5, SetClampBecomes DEF Becomes
<1>6. ASSUME NEW c \in Connections, SaveRestore(c) PROVE ClampInv'
    <2>1. restore' = Rounded(stmt[c].mem_before) /\ stmt'[c].at = "options"
        BY <1>6, SaveRestoreBecomes DEF Becomes
    <2>2. restore' # Nothing
        BY <1>6, <2>1, SaveRestoreBecomes DEF Statement
    <2>3. ~overlapped => \A d \in Connections \ {c} : stmt'[d].at = "idle"
        BY <1>6, SaveRestoreBecomes DEF Becomes
    <2> QED
        BY <1>6, <2>1, <2>2, <2>3, SaveRestoreBecomes
<1>7. ASSUME NEW c \in Connections, RejectOptions(c) PROVE ClampInv'
    BY <1>7, ForgetFacts DEF RejectOptions, Fail, NoStatement
<1>8. ASSUME NEW c \in Connections, BuildGlobalInit(c) PROVE ClampInv'
    BY <1>8, OptionsBecome DEF Becomes
<1>9. ASSUME NEW c \in Connections, SinkAndCombine(c) PROVE ClampInv'
    BY <1>9, CountBecomes DEF Becomes
<1>10. ASSUME NEW c \in Connections, Interrupted(c) PROVE ClampInv'
    BY <1>10, ForgetFacts DEF Interrupted, Fail, NoStatement
<1>11. ASSUME NEW c \in Connections, PushRows(c) PROVE ClampInv'
    BY <1>11, PushBecomes DEF Becomes
<1>12. ASSUME NEW c \in Connections, PushFails(c) PROVE ClampInv'
    BY <1>12, ForgetFacts DEF PushFails, Fail, NoStatement
<1>13. ASSUME NEW c \in Connections, FinishBuild(c) PROVE ClampInv'
    BY <1>13, GotoBecomes DEF FinishBuild, Locations, Becomes
<1>14. ASSUME NEW c \in Connections, AbortBuild(c) PROVE ClampInv'
    BY <1>14, ForgetFacts DEF AbortBuild, Fail, NoStatement
<1>15. ASSUME NEW c \in Connections, TakePrebuilt(c) PROVE ClampInv'
    BY <1>15, GotoBecomes DEF TakePrebuilt, Locations, Becomes
<1>16. ASSUME NEW c \in Connections, AttachTree(c) PROVE ClampInv'
    BY <1>16, GotoBecomes DEF AttachTree, Locations, Becomes
<1>17. ASSUME NEW c \in Connections, AttachFails(c) PROVE ClampInv'
    BY <1>17, ForgetFacts DEF AttachFails, Fail, NoStatement
<1>18. ASSUME NEW c \in Connections, RestoreLimit(c) PROVE ClampInv'
    <2>1. CASE restore = Nothing
        BY <1>18, <2>1, GotoBecomes DEF RestoreLimit, UndoClamp, Locations, Becomes
    <2>2. CASE restore # Nothing
        BY <1>18, <2>2, GotoBecomes DEF RestoreLimit, UndoClamp, Locations, Becomes
    <2> QED
        BY <2>1, <2>2
<1>19. ASSUME NEW c \in Connections, ClearRestore(c) PROVE ClampInv'
    BY <1>19, GotoBecomes DEF ClearRestore, Locations, Becomes
<1>20. ASSUME NEW c \in Connections, Commit(c) PROVE ClampInv'
    BY <1>20, ForgetFacts DEF Commit, NoStatement
<1>21. ASSUME UserSet PROVE ClampInv'
    BY <1>21, UserSetFacts
<1>22. ASSUME NEW c \in Connections, Insert(c) PROVE ClampInv'
    BY <1>22 DEF Insert
<1>23. CASE UNCHANGED vars
    BY <1>23 DEF vars
<1> QED
    BY <1>1, <1>2, <1>3, <1>4, <1>5, <1>6, <1>7, <1>8, <1>9, <1>10, <1>11, <1>12, <1>13, <1>14,
       <1>15, <1>16, <1>17, <1>18, <1>19, <1>20, <1>21, <1>22, <1>23 DEF Next, Step

(* The invariant is one.                                                   *)
LEMMA Invariance == Spec => []IInv
<1>1. IInv /\ [Next]_vars => IInv'
    BY TypeNext, RestoreNext, CountedNext, OnlyNext, AloneNext, SoloNext, ClampNext DEF IInv
<1> QED
    BY <1>1, InitHolds, PTL DEF Spec

-----------------------------------------------------------------------------
(* Whatever the statements of several connections do, and wherever they    *)
(* fail, the limit, the restore and the counts are of their types: a       *)
(* restore is a RESET or a whole number of units.                          *)
THEOREM BuildTypeCorrect == Spec => []TypeOK
BY Invariance, PTL DEF IInv

(* An index commits only with a sidecar of as many rows as its own         *)
(* statement's plan saw (BuildFinalize's two counts).                      *)
THEOREM CommittedCoversPlan == Spec => []IndexCoversPlan
<1>1. IInv => IndexCoversPlan
    BY DEF IInv, CountedInv, IndexCoversPlan, At
<1> QED
    BY <1>1, Invariance, PTL

(* A statement that succeeds with nobody else building or SETting the      *)
(* limit leaves nothing pending and the limit it found, in whole units.    *)
THEOREM AloneStatementRestores == Spec => []AloneRestores
<1>1. IInv => AloneRestores
    BY DEF IInv, AloneInv, AloneRestores, Holds, RestoredTo, Rounded, At
<1> QED
    BY <1>1, Invariance, PTL

(* While statements never overlap, a clamp that a failed one left behind   *)
(* has its restore pending for the next.                                   *)
THEOREM FailedClampIsPending == Spec => []ClampNotForgotten
<1>1. IInv => ClampNotForgotten
    BY DEF IInv, ClampInv, ClampNotForgotten, Running, At
<1> QED
    BY <1>1, Invariance, PTL
=============================================================================
