------------------------ MODULE LiveEstimate_proofs -------------------------
(***************************************************************************)
(* LiveEstimate for every value of its constants: a replay kept for the    *)
(* files as they are is what a replay from nothing would find in them, of  *)
(* the folders each level was judged by, and "none or low" is said only    *)
(* when the transcripts as they are earn it.                               *)
(***************************************************************************)
EXTENDS LiveEstimate, TLAPS, FiniteSetTheorems, WellFoundedInduction

\* Induction over the naturals, for a set of them.
LEMMA Induction ==
  ASSUME NEW A, 0 \in A, \A n \in Nat : n \in A => n + 1 \in A
  PROVE  Nat \subseteq A
  <1> SUFFICES ASSUME Nat \ A # {} PROVE FALSE  OBVIOUS
  <1> DEFINE R == {ss \in Nat \X Nat : ss[1] < ss[2]}
  <1>1. IsWellFoundedOn(R, Nat)  BY NatLessThanWellFounded DEF OpToRel
  <1>2. \A x, y \in Nat : y < x => <<y, x>> \in R  OBVIOUS
  <1> HIDE DEF R
  <1>3. PICK x \in Nat \ A : \A y \in Nat \ A : ~(<<y, x>> \in R)  BY <1>1, WFMin
  <1>4. x - 1 \in Nat /\ x - 1 < x  BY <1>3
  <1>5. x - 1 \notin A
    <2> SUFFICES ASSUME x - 1 \in A PROVE FALSE  OBVIOUS
    <2>1. (x - 1) + 1 \in A  BY <1>4
    <2> QED  BY <1>3, <2>1
  <1> QED  BY <1>2, <1>3, <1>4, <1>5

\* Sequences of anything, as what they are: functions on 1 .. n.
LEMMA AppendIs ==
  ASSUME NEW h, NEW n \in Nat, h = [i \in 1 .. n |-> h[i]], NEW x
  PROVE  /\ Append(h, x) = [i \in 1 .. n + 1 |-> IF i = n + 1 THEN x ELSE h[i]]
         /\ Len(h) = n /\ DOMAIN h = 1 .. n
  OBVIOUS

LEMMA ConcatIs ==
  ASSUME NEW h, NEW g, NEW n \in Nat, NEW m \in Nat,
         h = [i \in 1 .. n |-> h[i]], g = [i \in 1 .. m |-> g[i]]
  PROVE  h \o g = [i \in 1 .. n + m |-> IF i <= n THEN h[i] ELSE g[i - n]]
  OBVIOUS
-----------------------------------------------------------------------------
\* What a call is, and what the tally keeps of one.
IsCall(c) ==
  /\ c.at \in Nat /\ c.told \in Nat /\ c.id \in Nat /\ c.says \in Says /\ c.does \in Deeds
  /\ Tests(c) => c.of \in Checks

Run == [at : Nat, id : Nat, result : Says \cup {"not-recorded"}, evidence : Nat,
        background : BOOLEAN, seq : Nat, fixes : BOOLEAN, changesLater : BOOLEAN]

\* A tally has its fields, counts its commands and lists the checks that ran.
Fields(t) ==
  DOMAIN t = {"runs", "order", "writes", "outside", "writeCalls", "launches", "seq",
              "changing", "lastChange", "ctx", "entries"}
Tally(t) ==
  /\ Fields(t)
  /\ t.runs \in [Checks -> Seq(Run)] /\ t.order \in Seq(Checks)
  /\ t.seq \in Nat /\ t.changing \subseteq 1 .. t.seq /\ t.outside \in Nat
  /\ t.launches = [i \in 1 .. Len(t.launches) |-> t.launches[i]] /\ Len(t.launches) \in Nat
  /\ \A k \in Checks : t.runs[k] # <<>> <=> Contains(t.order, k)

\* What of a call counts.
Shelled(c) == Shell(c) /\ ~Refused(c)
Alters(c) == Changes(c) /\ ~Refused(c)
Wrote(c) == c.does = "write" /\ c.says = "passed"
Launched(c) == c.does \in {"launch", "background-check"} /\ ~Refused(c)
Call(c) == [at |-> c.at, id |-> c.id]

Adds(t, c, u) ==
  /\ Fields(u) /\ u.ctx = t.ctx
  /\ u.runs = IF Ran(c) THEN [t.runs EXCEPT ![c.of] = Append(@, RunOf(c, t.seq + 1))]
              ELSE t.runs
  /\ u.order = IF Ran(c) /\ ~Contains(t.order, c.of) THEN Append(t.order, c.of)
               ELSE t.order
  /\ u.seq = IF Shelled(c) THEN t.seq + 1 ELSE t.seq
  /\ u.changing = IF Alters(c) THEN t.changing \cup {t.seq + 1} ELSE t.changing
  /\ u.lastChange = IF Alters(c) THEN c.at ELSE t.lastChange
  /\ u.writeCalls = IF Wrote(c) \/ (Fixes(c) /\ ~Refused(c))
                    THEN t.writeCalls \cup {Call(c)} ELSE t.writeCalls
  /\ u.launches = IF Launched(c)
                  THEN Append(t.launches, [subject |-> "launch", rank |-> 4,
                                           at |-> c.at, id |-> c.id])
                  ELSE t.launches
  /\ u.outside = IF Wrote(c) /\ c.of = Stray THEN t.outside + 1 ELSE t.outside
  /\ u.writes = IF Wrote(c) THEN Written(t.writes, c) ELSE t.writes
  /\ \/ u.entries = << >>
     \/ /\ u.entries = t.entries
        /\ <<u.runs, u.writeCalls, u.changing>> = <<t.runs, t.writeCalls, t.changing>>

LEMMA AddIs ==
  ASSUME NEW t, Tally(t), NEW c, IsCall(c) PROVE Adds(t, c, Add(t, c))
  <1> SUFFICES ASSUME NEW u, u = Add(t, c) PROVE Adds(t, c, u)  OBVIOUS
  <1> USE DEF Adds
  <1> USE DEF Tally, Fields, IsCall, Deeds, Says
  <1> DEFINE added == IF c.does = "write" THEN AddWrite(t, c)
                      ELSE IF Shell(c) THEN AddShell(t, c) ELSE AddLaunch(t, c)
  <1>1. u = IF <<added.runs, added.writeCalls, added.changing>>
                 # <<t.runs, t.writeCalls, t.changing>>
            THEN [added EXCEPT !.entries = << >>] ELSE added
    BY DEF Add
  <1> USE DEF Ran, Shelled, Alters, Wrote, Launched, Call, Tests, Shell, Changes, Fixes, Refused
  <1>2. CASE c.does = "write"
    <2>1. CASE c.says # "passed"  BY <1>1, <1>2, <2>1 DEF AddWrite
    <2>2. CASE c.says = "passed"
      <3>1. added = [t EXCEPT !.writeCalls = t.writeCalls \cup {Call(c)},
                              !.outside = t.outside + (IF c.of = Stray THEN 1 ELSE 0),
                              !.writes = Written(t.writes, c)]
        BY <1>2, <2>2 DEF AddWrite, RecordWrite
      <3> HIDE DEF added
      <3>2. /\ Fields(added) /\ added.runs = t.runs /\ added.order = t.order
            /\ added.seq = t.seq /\ added.changing = t.changing /\ added.ctx = t.ctx
            /\ added.lastChange = t.lastChange /\ added.launches = t.launches
            /\ added.entries = t.entries
        BY <3>1
      <3>3. /\ added.writeCalls = t.writeCalls \cup {Call(c)}
            /\ added.writes = Written(t.writes, c)
            /\ added.outside = IF c.of = Stray THEN t.outside + 1 ELSE t.outside
        BY <3>1
      <3> QED  BY <1>1, <1>2, <2>2, <3>2, <3>3
    <2> QED  BY <2>1, <2>2
  <1>3. CASE c.does = "launch"  BY <1>1, <1>3 DEF AddLaunch
  <1>4. CASE Shell(c) /\ Refused(c)  BY <1>1, <1>4 DEF AddShell, AddLaunch
  <1> DEFINE launched == IF c.does = "background-check" THEN AddLaunch(t, c) ELSE t
             ran == [launched EXCEPT
               !.seq = t.seq + 1,
               !.changing = t.changing \cup (IF Changes(c) THEN {t.seq + 1} ELSE {}),
               !.lastChange = IF Changes(c) THEN c.at ELSE t.lastChange,
               !.writeCalls = t.writeCalls \cup (IF Fixes(c) THEN {Call(c)} ELSE {})]
  <1>5. CASE Shell(c) /\ ~Refused(c)
    <2>1. /\ Fields(launched) /\ launched.runs = t.runs /\ launched.order = t.order
          /\ launched.seq = t.seq /\ launched.changing = t.changing /\ launched.ctx = t.ctx
          /\ launched.lastChange = t.lastChange /\ launched.entries = t.entries
          /\ launched.writeCalls = t.writeCalls /\ launched.writes = t.writes
          /\ launched.outside = t.outside
          /\ launched.launches = IF Launched(c)
                                 THEN Append(t.launches, [subject |-> "launch", rank |-> 4,
                                                          at |-> c.at, id |-> c.id])
                                 ELSE t.launches
      BY <1>5 DEF AddLaunch
    <2> HIDE DEF launched
    <2>2. added = IF Tests(c) THEN AddRun(ran, c) ELSE ran
      <3>1. ran = [launched EXCEPT
                     !.seq = @ + 1,
                     !.changing = @ \cup (IF Changes(c) THEN {t.seq + 1} ELSE {}),
                     !.lastChange = IF Changes(c) THEN c.at ELSE @,
                     !.writeCalls = @ \cup (IF Fixes(c) THEN {[at |-> c.at, id |-> c.id]} ELSE {})]
        BY <2>1
      <3> HIDE DEF ran
      <3> QED  BY <1>5, <3>1 DEF AddShell, launched
    <2>7. Fields(ran)  BY <2>1
    <2>3. /\ ran.runs = t.runs /\ ran.order = t.order
          /\ ran.seq = t.seq + 1 /\ ran.ctx = t.ctx /\ ran.entries = t.entries
          /\ ran.writes = t.writes /\ ran.outside = t.outside /\ ran.launches = launched.launches
      BY <2>1
    <2>4. /\ ran.changing = IF Changes(c) THEN t.changing \cup {t.seq + 1} ELSE t.changing
          /\ ran.lastChange = IF Changes(c) THEN c.at ELSE t.lastChange
          /\ ran.writeCalls = IF Fixes(c) THEN t.writeCalls \cup {Call(c)} ELSE t.writeCalls
      BY <2>1
    <2> HIDE DEF ran, added
    <2>5. CASE ~Tests(c)  BY <1>1, <1>5, <2>1, <2>2, <2>3, <2>4, <2>5, <2>7
    <2>6. CASE Tests(c)
      <3>1. /\ Fields(added) /\ added.seq = ran.seq /\ added.changing = ran.changing
            /\ added.ctx = ran.ctx /\ added.lastChange = ran.lastChange
            /\ added.launches = ran.launches /\ added.entries = ran.entries
            /\ added.writeCalls = ran.writeCalls /\ added.writes = ran.writes
            /\ added.outside = ran.outside
        BY <2>2, <2>3, <2>6, <2>7 DEF AddRun
      <3>2. /\ added.runs = [t.runs EXCEPT ![c.of] = Append(@, RunOf(c, t.seq + 1))]
            /\ added.order = IF Contains(t.order, c.of) THEN t.order ELSE Append(t.order, c.of)
        BY <2>2, <2>3, <2>6, <2>7 DEF AddRun
      <3>3. /\ Ran(c) /\ Shelled(c) /\ (Alters(c) <=> Changes(c)) /\ ~Wrote(c)
            /\ (Fixes(c) => ~Refused(c))
        BY <1>5, <2>6
      <3> HIDE DEF Ran, Shelled, Alters, Wrote, Launched, Call, Tests, Shell, Changes, Fixes, Refused
      <3>4. Fields(u)  BY <1>1, <3>1
      <3> HIDE DEF Tally, Fields, IsCall, Deeds, Says
      <3>5. /\ u.runs = added.runs /\ u.order = added.order /\ u.seq = added.seq
            /\ u.changing = added.changing /\ u.lastChange = added.lastChange
            /\ u.writeCalls = added.writeCalls /\ u.launches = added.launches
            /\ u.outside = added.outside /\ u.writes = added.writes /\ u.ctx = added.ctx
            /\ \/ u.entries = << >>
               \/ /\ u.entries = added.entries
                  /\ <<added.runs, added.writeCalls, added.changing>>
                       = <<t.runs, t.writeCalls, t.changing>>
        BY <1>1, <3>1 DEF Fields
      <3> QED  BY <2>1, <2>3, <2>4, <3>1, <3>2, <3>3, <3>4, <3>5
    <2> QED  BY <2>5, <2>6
  <1> QED  BY <1>2, <1>3, <1>4, <1>5

LEMMA RunTyped ==
  ASSUME NEW c, IsCall(c), NEW n \in Nat
  PROVE  RunOf(c, n) \in Run /\ RunOf(c, n).seq = n
  BY DEF IsCall, RunOf, Run, Outcome, Says, Deeds

LEMMA SeqIs ==
  ASSUME NEW S, NEW h \in Seq(S)
  PROVE  Len(h) \in Nat /\ h = [i \in 1 .. Len(h) |-> h[i]] /\ DOMAIN h = 1 .. Len(h)
  OBVIOUS

LEMMA ContainsAppend ==
  ASSUME NEW S, NEW h \in Seq(S), NEW x \in S, NEW y
  PROVE  Contains(Append(h, x), y) <=> Contains(h, y) \/ y = x
  BY DEF Contains

LEMMA ContainsConcat ==
  ASSUME NEW S, NEW g \in Seq(S), NEW h \in Seq(S), NEW y
  PROVE  Contains(g \o h, y) <=> Contains(g, y) \/ Contains(h, y)
  <1>1. Len(g \o h) = Len(g) + Len(h)  OBVIOUS
  <1>2. ASSUME NEW i \in 1 .. Len(g) PROVE (g \o h)[i] = g[i] /\ i \in 1 .. Len(g) + Len(h)
    OBVIOUS
  <1>3. ASSUME NEW i \in 1 .. Len(h)
        PROVE (g \o h)[Len(g) + i] = h[i] /\ Len(g) + i \in 1 .. Len(g) + Len(h)
    OBVIOUS
  <1>4. ASSUME NEW i \in 1 .. Len(g) + Len(h), i > Len(g)
        PROVE (g \o h)[i] = h[i - Len(g)] /\ i - Len(g) \in 1 .. Len(h)
    BY <1>4
  <1>5. Len(g) \in Nat /\ Len(h) \in Nat  OBVIOUS
  <1> DEFINE s == g \o h
  <1>6. \A i \in 1 .. Len(g) : s[i] = g[i] /\ i \in 1 .. Len(s)  BY <1>1, <1>2
  <1>7. \A i \in 1 .. Len(h) : s[Len(g) + i] = h[i] /\ Len(g) + i \in 1 .. Len(s)
    BY <1>1, <1>3
  <1>8. \A i \in 1 .. Len(s) : i <= Len(g) \/ (s[i] = h[i - Len(g)] /\ i - Len(g) \in 1 .. Len(h))
    BY <1>1, <1>4, <1>5
  <1> HIDE DEF s
  <1>9. ASSUME NEW i \in 1 .. Len(s), s[i] = y
        PROVE  (\E j \in 1 .. Len(g) : g[j] = y) \/ (\E j \in 1 .. Len(h) : h[j] = y)
    <2>1. CASE i <= Len(g)
      <3>1. i \in 1 .. Len(g)  BY <1>5, <2>1
      <3> QED  BY ONLY <1>6, <1>9, <3>1
    <2>2. CASE ~(i <= Len(g))  BY ONLY <1>8, <1>9, <2>2
    <2> QED  BY <2>1, <2>2
  <1>10. (\E j \in 1 .. Len(g) : g[j] = y) => \E i \in 1 .. Len(s) : s[i] = y
    BY ONLY <1>6
  <1>11. (\E j \in 1 .. Len(h) : h[j] = y) => \E i \in 1 .. Len(s) : s[i] = y
    BY ONLY <1>7
  <1>12. Contains(s, y) <=> Contains(g, y) \/ Contains(h, y)
    BY ONLY <1>9, <1>10, <1>11 DEF Contains
  <1> QED  BY <1>12 DEF s

\* A tally stays one.
LEMMA AddKept ==
  ASSUME NEW t, Tally(t), NEW c, IsCall(c)
  PROVE  Tally(Add(t, c))
  <1> DEFINE u == Add(t, c)
  <1>1. Tally(t) /\ t.seq + 1 \in Nat /\ RunOf(c, t.seq + 1) \in Run
    BY RunTyped DEF Tally
  <1>2. Ran(c) => c.of \in Checks  BY DEF Ran, IsCall
  <1> HIDE DEF u
  <1>3. Adds(t, c, u)  BY AddIs DEF u
  <1> USE DEF Adds
  <1>4. u.runs \in [Checks -> Seq(Run)] /\ u.order \in Seq(Checks)
    <2>1. CASE ~Ran(c)  BY <1>1, <1>3, <2>1 DEF Tally
    <2>2. CASE Ran(c)
      <3>1. t.runs \in [Checks -> Seq(Run)] /\ t.order \in Seq(Checks)  BY <1>1 DEF Tally
      <3>2. t.runs[c.of] \in Seq(Run)  BY <1>2, <2>2, <3>1
      <3>3. Append(t.runs[c.of], RunOf(c, t.seq + 1)) \in Seq(Run)  BY <1>1, <3>2
      <3>4. Append(t.order, c.of) \in Seq(Checks)  BY <1>2, <2>2, <3>1
      <3> QED  BY <1>2, <1>3, <2>2, <3>1, <3>3, <3>4
    <2> QED  BY <2>1, <2>2
  <1>5. u.seq \in Nat /\ u.changing \subseteq 1 .. u.seq /\ u.outside \in Nat
    <2>1. Alters(c) => Shelled(c)
      BY DEF Alters, Shelled, Changes, Fixes, Shell, Tests
    <2> QED  BY <1>1, <1>3, <2>1 DEF Tally
  <1>6. u.launches = [i \in 1 .. Len(u.launches) |-> u.launches[i]] /\ Len(u.launches) \in Nat
    <2>1. CASE ~Launched(c)  BY <1>1, <1>3, <2>1 DEF Tally
    <2>2. CASE Launched(c)
      BY <1>1, <1>3, <2>2, AppendIs DEF Tally
    <2> QED  BY <2>1, <2>2
  <1>7. ASSUME NEW k \in Checks PROVE u.runs[k] # <<>> <=> Contains(u.order, k)
    <2>1. CASE ~Ran(c)  BY <1>1, <1>3, <2>1 DEF Tally
    <2>2. CASE Ran(c) /\ k # c.of
      <3>1. u.runs[k] = t.runs[k]  BY <1>1, <1>3, <2>2 DEF Tally
      <3>2. Contains(u.order, k) <=> Contains(t.order, k)
        BY <1>1, <1>2, <1>3, <2>2, ContainsAppend DEF Tally
      <3> QED  BY <1>1, <3>1, <3>2 DEF Tally
    <2>3. CASE Ran(c) /\ k = c.of
      <3>1. u.runs[k] = Append(t.runs[k], RunOf(c, t.seq + 1)) /\ t.runs[k] \in Seq(Run)
        BY <1>1, <1>2, <1>3, <2>3 DEF Tally
      <3>2. u.runs[k] # <<>>  BY <1>1, <3>1
      <3>3. Contains(u.order, k)
        BY <1>1, <1>2, <1>3, <2>3, ContainsAppend DEF Tally
      <3> QED  BY <3>2, <3>3
    <2> QED  BY <2>1, <2>2, <2>3
  <1> QED  BY <1>3, <1>4, <1>5, <1>6, <1>7 DEF Tally, u

LEMMA BlankTally ==
  ASSUME NEW ctx PROVE Tally(Blank(ctx))
  BY DEF Blank, Tally, Fields, Contains

\* The level is asked of a tally's fields and changes its entries alone.
LEMMA AskedIs ==
  ASSUME NEW t, Tally(t)
  PROVE  /\ Tally(Asked(t)) /\ Asked(t).entries = EntriesOf(t, Lasts(t))
         /\ Asked(t).runs = t.runs /\ Asked(t).order = t.order /\ Asked(t).writes = t.writes
         /\ Asked(t).outside = t.outside /\ Asked(t).writeCalls = t.writeCalls
         /\ Asked(t).launches = t.launches /\ Asked(t).seq = t.seq
         /\ Asked(t).changing = t.changing /\ Asked(t).lastChange = t.lastChange
         /\ Asked(t).ctx = t.ctx
  <1> DEFINE u == Asked(t)
  <1> HIDE DEF u
  <1>1. /\ DOMAIN u = DOMAIN t /\ u.entries = EntriesOf(t, Lasts(t))
        /\ u.runs = t.runs /\ u.order = t.order /\ u.writes = t.writes
        /\ u.outside = t.outside /\ u.writeCalls = t.writeCalls
        /\ u.launches = t.launches /\ u.seq = t.seq
        /\ u.changing = t.changing /\ u.lastChange = t.lastChange /\ u.ctx = t.ctx
    BY DEF u, Asked, Tally, Fields
  <1>2. Tally(u)  BY <1>1 DEF Tally, Fields
  <1> QED  BY <1>1, <1>2 DEF u
-----------------------------------------------------------------------------
\* All that a tally says but its entries.
Alike(t, u) ==
  /\ t.runs = u.runs /\ t.order = u.order /\ t.writes = u.writes /\ t.outside = u.outside
  /\ t.writeCalls = u.writeCalls /\ t.launches = u.launches /\ t.seq = u.seq
  /\ t.changing = u.changing /\ t.lastChange = u.lastChange /\ t.ctx = u.ctx

\* What a call added can be taken out again when it is the pass of one check and no
\* more, whatever it was added to.
SafeOf(c) == IF c.does = "check" /\ c.says = "passed" THEN c.of ELSE "none"

LEMMA EffectIs ==
  ASSUME NEW t, Tally(t), NEW c, IsCall(c), NEW u, Alike(u, Add(t, c))
  PROVE  Effect(t, u).check = SafeOf(c)
  <1> DEFINE v == Add(t, c)
  <1>1. Adds(t, c, v) /\ Tally(v)  BY AddIs, AddKept
  <1> HIDE DEF v
  <1>2. Alike(u, v)  BY DEF v
  <1> DEFINE k == {i \in Checks : u.runs[i] # t.runs[i]}
  <1>3. Ran(c) => c.of \in Checks  BY DEF Ran, IsCall
  <1>4. CASE ~Ran(c)
    <2>1. k = {}  BY <1>1, <1>2, <1>4 DEF Adds, Alike
    <2>2. Cardinality(k) # 1  BY <2>1, FS_EmptySet
    <2>3. Effect(t, u).check = "none"  BY <2>2 DEF Effect
    <2>4. SafeOf(c) = "none"  BY <1>4 DEF SafeOf, Ran, Tests, Refused
    <2> QED  BY <2>3, <2>4
  <1>5. CASE Ran(c)
    <2> DEFINE run == RunOf(c, t.seq + 1)
    <2>1. t.runs[c.of] \in Seq(Run) /\ run \in Run  BY <1>3, <1>5, RunTyped DEF Tally
    <2>2. u.runs = [t.runs EXCEPT ![c.of] = Append(@, run)]
      BY <1>1, <1>2, <1>5 DEF Adds, Alike
    <2>3. /\ u.runs[c.of] = Append(t.runs[c.of], run)
          /\ \A i \in Checks : i # c.of => u.runs[i] = t.runs[i]
      BY <1>3, <1>5, <2>2 DEF Tally
    <2> HIDE DEF run
    <2>4. u.runs[c.of] # t.runs[c.of] /\ Last(u.runs[c.of]) = run  BY <2>1, <2>3 DEF Last
    <2>5. k = {c.of}  BY <1>3, <1>5, <2>3, <2>4
    <2>6. Cardinality(k) = 1  BY <2>5, FS_Singleton
    <2> HIDE DEF k
    <2>7. CASE c.does = "check" /\ c.says = "passed"
      <3>1. <<u.launches, u.writes, u.outside, u.writeCalls, u.changing>>
              = <<t.launches, t.writes, t.outside, t.writeCalls, t.changing>>
        BY <1>1, <1>2, <2>7 DEF Adds, Alike, Launched, Wrote, Fixes, Alters, Changes
      <3>2. run.result = "passed" /\ ~run.background /\ ~run.fixes /\ ~run.changesLater
        BY <2>7 DEF run, RunOf, Outcome
      <3>3. Effect(t, u).check = CHOOSE i \in k : TRUE
        BY <2>4, <2>5, <2>6, <3>1, <3>2 DEF Effect, k
      <3> QED  BY <2>5, <2>7, <3>3 DEF SafeOf
    <2>8. CASE ~(c.does = "check" /\ c.says = "passed")
      <3>1. \/ run.result # "passed"
            \/ u.changing # t.changing
        <4>1. CASE c.does = "check" \/ c.does = "background-check"
          BY <2>8, <4>1 DEF run, RunOf, Outcome
        <4>2. CASE Fixes(c)
          <5>1. u.changing = t.changing \cup {t.seq + 1}
            BY <1>1, <1>2, <1>5, <4>2 DEF Adds, Alike, Alters, Changes, Ran
          <5>2. t.seq + 1 \notin t.changing  BY DEF Tally
          <5> QED  BY <5>1, <5>2
        <4> QED  BY <1>5, <4>1, <4>2 DEF Ran, Tests, Fixes
      <3>2. Effect(t, u).check = "none"
        BY <2>4, <2>5, <3>1 DEF Effect, k
      <3> QED  BY <2>8, <3>2 DEF SafeOf
    <2> QED  BY <2>7, <2>8
  <1> QED  BY <1>4, <1>5
-----------------------------------------------------------------------------
\* Two replays that differ by a head: t began with runs H, of checks O, and was d
\* commands on; what came then is in u too.
Delayed(run, d) == [run EXCEPT !.seq = @ + d]
Shift(h, d) == [i \in DOMAIN h |-> Delayed(h[i], d)]

Headed(H, O) ==
  /\ H \in [Checks -> Seq(Run)] /\ O \in Seq(Checks)
  /\ \A k \in Checks : H[k] # <<>> <=> Contains(O, k)

Beyond(t, u, d, H, O) ==
  /\ \A k \in Checks : t.runs[k] = H[k] \o Shift(u.runs[k], d)
  /\ t.seq = u.seq + d /\ t.changing = {s + d : s \in u.changing}
  /\ t.writes = u.writes /\ t.outside = u.outside /\ t.writeCalls = u.writeCalls
  /\ t.launches = u.launches /\ t.lastChange = u.lastChange
  /\ (\A k \in Checks : H[k] # <<>> => u.runs[k] = <<>>) => t.order = O \o u.order

LEMMA DelayedIs ==
  ASSUME NEW q \in Run, NEW d \in Nat
  PROVE  /\ Delayed(q, d) \in Run /\ Delayed(q, d).seq = q.seq + d
         /\ Delayed(q, d).at = q.at /\ Delayed(q, d).id = q.id
         /\ Delayed(q, d).result = q.result /\ Delayed(q, d).evidence = q.evidence
         /\ Delayed(q, d).background = q.background /\ Delayed(q, d).fixes = q.fixes
         /\ Delayed(q, d).changesLater = q.changesLater
  BY DEF Delayed, Run

LEMMA DelayedOnce ==
  ASSUME NEW p \in Run, NEW q \in Run, NEW d \in Nat, Delayed(p, d) = Delayed(q, d)
  PROVE  p = q
  <1>1. /\ p.seq = q.seq /\ p.at = q.at /\ p.id = q.id /\ p.result = q.result
        /\ p.evidence = q.evidence /\ p.background = q.background /\ p.fixes = q.fixes
        /\ p.changesLater = q.changesLater
    <2> DEFINE x == Delayed(p, d)
               y == Delayed(q, d)
    <2>1. /\ x.seq = p.seq + d /\ x.at = p.at /\ x.id = p.id /\ x.result = p.result
          /\ x.evidence = p.evidence /\ x.background = p.background /\ x.fixes = p.fixes
          /\ x.changesLater = p.changesLater
      BY DelayedIs
    <2>2. /\ y.seq = q.seq + d /\ y.at = q.at /\ y.id = q.id /\ y.result = q.result
          /\ y.evidence = q.evidence /\ y.background = q.background /\ y.fixes = q.fixes
          /\ y.changesLater = q.changesLater
      BY DelayedIs
    <2>3. x = y /\ p.seq \in Nat /\ q.seq \in Nat  BY DEF Run
    <2> HIDE DEF x, y
    <2> QED  BY <2>1, <2>2, <2>3
  <1> QED  BY <1>1 DEF Run

LEMMA ShiftIs ==
  ASSUME NEW h \in Seq(Run), NEW d \in Nat
  PROVE  /\ Shift(h, d) \in Seq(Run) /\ Len(Shift(h, d)) = Len(h)
         /\ \A i \in 1 .. Len(h) : Shift(h, d)[i] = Delayed(h[i], d)
         /\ Shift(h, d) = <<>> <=> h = <<>>
  <1>1. \A i \in 1 .. Len(h) : Delayed(h[i], d) \in Run  BY DelayedIs
  <1>2. Shift(h, d) = [i \in 1 .. Len(h) |-> Delayed(h[i], d)]  BY DEF Shift
  <1>3. Shift(h, d) \in [1 .. Len(h) -> Run]  BY <1>1, <1>2
  <1>4. Shift(h, d) \in Seq(Run) /\ Len(Shift(h, d)) = Len(h)  BY <1>3
  <1> QED  BY <1>2, <1>4

LEMMA ConcatAppend ==
  ASSUME NEW S, NEW g \in Seq(S), NEW w \in Seq(S), NEW z \in Seq(S), NEW r \in S,
         Len(z) = Len(w) + 1, \A i \in 1 .. Len(w) : z[i] = w[i], z[Len(w) + 1] = r
  PROVE  g \o z = Append(g \o w, r)
  <1>1. /\ g \o z \in Seq(S) /\ Len(g \o z) = Len(g) + Len(w) + 1
        /\ g \o w \in Seq(S) /\ Len(g \o w) = Len(g) + Len(w)
    OBVIOUS
  <1>2. Append(g \o w, r) \in Seq(S) /\ Len(Append(g \o w, r)) = Len(g) + Len(w) + 1
    BY <1>1
  <1>3. ASSUME NEW i \in 1 .. Len(g) + Len(w) + 1 PROVE (g \o z)[i] = Append(g \o w, r)[i]
    <2>1. CASE i <= Len(g)  BY <1>1, <2>1
    <2>2. CASE i > Len(g) /\ i <= Len(g) + Len(w)
      <3>1. i - Len(g) \in 1 .. Len(w)  BY <2>2
      <3>2. (g \o z)[i] = z[i - Len(g)]  BY <2>2
      <3>3. Append(g \o w, r)[i] = (g \o w)[i]  BY <1>1, <2>2
      <3>4. (g \o w)[i] = w[i - Len(g)]  BY <2>2
      <3> QED  BY <3>1, <3>2, <3>3, <3>4
    <2>3. CASE i = Len(g) + Len(w) + 1
      <3>1. (g \o z)[i] = z[Len(w) + 1]  BY <2>3
      <3>2. Append(g \o w, r)[i] = r  BY <1>1, <2>3
      <3> QED  BY <3>1, <3>2
    <2> QED  BY <2>1, <2>2, <2>3
  <1> QED  BY <1>1, <1>2, <1>3

LEMMA ShiftAppend ==
  ASSUME NEW g \in Seq(Run), NEW h \in Seq(Run), NEW q \in Run, NEW d \in Nat
  PROVE  g \o Shift(Append(h, q), d) = Append(g \o Shift(h, d), Delayed(q, d))
  <1> DEFINE m == Len(h)
             w == Shift(h, d)
             z == Shift(Append(h, q), d)
             r == Delayed(q, d)
  <1>1. w \in Seq(Run) /\ Len(w) = m /\ m \in Nat /\ r \in Run  BY ShiftIs, DelayedIs
  <1>2. /\ Append(h, q) \in Seq(Run) /\ Len(Append(h, q)) = m + 1
        /\ \A i \in 1 .. m : Append(h, q)[i] = h[i]
        /\ Append(h, q)[m + 1] = q
    OBVIOUS
  <1>3. z \in Seq(Run) /\ Len(z) = m + 1  BY <1>2, ShiftIs
  <1>4. \A i \in 1 .. m + 1 : z[i] = Delayed(Append(h, q)[i], d)
    <2> DEFINE a == Append(h, q)
    <2>1. a \in Seq(Run) /\ Len(a) = m + 1  BY <1>2
    <2> HIDE DEF a
    <2>2. \A i \in 1 .. Len(a) : Shift(a, d)[i] = Delayed(a[i], d)  BY <2>1, ShiftIs
    <2> QED  BY <2>1, <2>2 DEF a
  <1>5. \A i \in 1 .. m : w[i] = Delayed(h[i], d)  BY ShiftIs
  <1>6. \A i \in 1 .. m : z[i] = w[i]  BY <1>1, <1>2, <1>4, <1>5
  <1>7. z[m + 1] = r  BY <1>1, <1>2, <1>4
  <1> HIDE DEF w, z, r
  <1>8. g \o z = Append(g \o w, r)  BY <1>1, <1>3, <1>6, <1>7, ConcatAppend
  <1> QED  BY <1>8 DEF w, z, r

\* One more call keeps them so.
LEMMA AddBeyond ==
  ASSUME NEW t, NEW u, Tally(t), Tally(u), NEW c, IsCall(c), NEW d \in Nat, NEW H, NEW O,
         Headed(H, O), Beyond(t, u, d, H, O)
  PROVE  Beyond(Add(t, c), Add(u, c), d, H, O)
  <1> DEFINE x == Add(t, c)
             y == Add(u, c)
  <1>1. Adds(t, c, x) /\ Adds(u, c, y) /\ Tally(x) /\ Tally(y)  BY AddIs, AddKept
  <1> HIDE DEF x, y
  <1>2. Ran(c) => c.of \in Checks  BY DEF Ran, IsCall
  <1>3. t.seq = u.seq + d /\ u.seq \in Nat /\ t.seq + 1 = (u.seq + 1) + d
    BY DEF Beyond, Tally
  <1>4. x.seq = y.seq + d  BY <1>1, <1>3 DEF Adds
  <1>5. x.changing = {s + d : s \in y.changing}
    <2>1. t.changing = {s + d : s \in u.changing}  BY DEF Beyond
    <2> QED  BY <1>1, <1>3, <2>1 DEF Adds
  <1>6. /\ x.writes = y.writes /\ x.outside = y.outside /\ x.writeCalls = y.writeCalls
        /\ x.launches = y.launches /\ x.lastChange = y.lastChange
    BY <1>1 DEF Adds, Beyond
  <1>7. ASSUME NEW k \in Checks PROVE x.runs[k] = H[k] \o Shift(y.runs[k], d)
    <2>1. t.runs[k] = H[k] \o Shift(u.runs[k], d)  BY DEF Beyond
    <2>2. CASE ~Ran(c) \/ k # c.of
      <3>1. x.runs[k] = t.runs[k] /\ y.runs[k] = u.runs[k]  BY <1>1, <2>2 DEF Adds, Tally
      <3> QED  BY <2>1, <3>1
    <2>3. CASE Ran(c) /\ k = c.of
      <3> DEFINE q == RunOf(c, u.seq + 1)
      <3>1. q \in Run /\ RunOf(c, t.seq + 1) = Delayed(q, d)
        BY <1>3, RunTyped DEF RunOf, Delayed
      <3>2. x.runs[k] = Append(t.runs[k], Delayed(q, d)) /\ y.runs[k] = Append(u.runs[k], q)
        <4> HIDE DEF q
        <4>1. /\ x.runs = [t.runs EXCEPT ![c.of] = Append(@, Delayed(q, d))]
              /\ y.runs = [u.runs EXCEPT ![c.of] = Append(@, q)]
          BY <1>1, <2>3, <3>1 DEF Adds, q
        <4> QED  BY <2>3, <4>1 DEF Tally
      <3>3. H[k] \in Seq(Run) /\ u.runs[k] \in Seq(Run)  BY DEF Headed, Tally
      <3> HIDE DEF q
      <3>4. q \in Run /\ d \in Nat  BY <3>1
      <3>5. H[k] \o Shift(Append(u.runs[k], q), d)
              = Append(H[k] \o Shift(u.runs[k], d), Delayed(q, d))
        BY ONLY <3>3, <3>4, ShiftAppend
      <3> QED  BY ONLY <2>1, <3>2, <3>5
    <2> QED  BY <2>2, <2>3
  <1>8. ASSUME \A k \in Checks : H[k] # <<>> => y.runs[k] = <<>> PROVE x.order = O \o y.order
    <2>1. ASSUME NEW k \in Checks, H[k] # <<>> PROVE u.runs[k] = <<>>
      <3>1. y.runs[k] = <<>>  BY <1>8, <2>1
      <3>2. u.runs[k] = y.runs[k] \/ \E r \in Run : y.runs[k] = Append(u.runs[k], r)
        <4>1. RunOf(c, u.seq + 1) \in Run  BY <1>3, RunTyped
        <4>2. CASE ~Ran(c)  BY <1>1, <4>2 DEF Adds
        <4>3. CASE Ran(c)
          <5>1. y.runs = [u.runs EXCEPT ![c.of] = Append(@, RunOf(c, u.seq + 1))]
            BY <1>1, <4>3 DEF Adds
          <5> QED  BY <4>1, <5>1 DEF Tally
        <4> QED  BY <4>2, <4>3
      <3>3. u.runs[k] \in Seq(Run)  BY DEF Tally
      <3>4. \A r \in Run : Append(u.runs[k], r) # <<>>  BY <3>3
      <3> QED  BY <3>1, <3>2, <3>4
    <2>2. t.order = O \o u.order  BY <2>1 DEF Beyond
    <2>3. CASE ~Ran(c)  BY <1>1, <2>2, <2>3 DEF Adds
    <2>4. CASE Ran(c)
      <3>1. y.runs[c.of] # <<>>
        <4>1. RunOf(c, u.seq + 1) \in Run /\ u.runs[c.of] \in Seq(Run)
          BY <1>2, <1>3, <2>4, RunTyped DEF Tally
        <4>2. y.runs = [u.runs EXCEPT ![c.of] = Append(@, RunOf(c, u.seq + 1))]
          BY <1>1, <2>4 DEF Adds
        <4>3. y.runs[c.of] = Append(u.runs[c.of], RunOf(c, u.seq + 1))
          BY <1>2, <2>4, <4>2 DEF Tally
        <4> QED  BY <4>1, <4>3
      <3>2. ~Contains(O, c.of)  BY <1>2, <1>8, <2>4, <3>1 DEF Headed
      <3>3. O \in Seq(Checks) /\ u.order \in Seq(Checks)  BY DEF Headed, Tally
      <3>4. Contains(t.order, c.of) <=> Contains(u.order, c.of)
        BY <2>2, <3>2, <3>3, ContainsConcat
      <3>5. O \o Append(u.order, c.of) = Append(O \o u.order, c.of)
        BY <1>2, <2>4, <3>3
      <3> QED  BY <1>1, <2>2, <2>4, <3>4, <3>5 DEF Adds
    <2> QED  BY <2>3, <2>4
  <1>9. Beyond(x, y, d, H, O)  BY <1>4, <1>5, <1>6, <1>7, <1>8 DEF Beyond
  <1> QED  BY <1>9 DEF x, y
-----------------------------------------------------------------------------
\* The latest run is one of them.
AsNew(p, i, q, j) == q.evidence < p.evidence \/ (q.evidence = p.evidence /\ j <= i)

LEMMA LatestIs ==
  ASSUME NEW h \in Seq(Run), h # <<>>
  PROVE  \E i \in DOMAIN h : /\ Latest(h) = h[i]
                             /\ \A j \in DOMAIN h : AsNew(h[i], i, h[j], j)
  <1> DEFINE Top(n) == \E i \in 1 .. n : \A j \in 1 .. n : AsNew(h[i], i, h[j], j)
             A == {n \in Nat : n + 1 <= Len(h) => Top(n + 1)}
  <1>1. Len(h) \in Nat \ {0} /\ DOMAIN h = 1 .. Len(h)  OBVIOUS
  <1>2. \A i \in 1 .. Len(h) : h[i].evidence \in Nat
    <2>1. \A i \in 1 .. Len(h) : h[i] \in Run  OBVIOUS
    <2> QED  BY <2>1 DEF Run
  <1>3. 0 \in A
    <2>1. AsNew(h[1], 1, h[1], 1)  BY DEF AsNew
    <2> QED  BY <2>1
  <1>4. ASSUME NEW n \in Nat, n \in A PROVE n + 1 \in A
    <2> SUFFICES ASSUME n + 2 <= Len(h) PROVE Top(n + 2)  OBVIOUS
    <2>1. PICK i \in 1 .. n + 1 : \A j \in 1 .. n + 1 : AsNew(h[i], i, h[j], j)
      BY <1>4
    <2>2. h[i].evidence \in Nat /\ h[n + 2].evidence \in Nat  BY <1>2
    <2>3. \A j \in 1 .. n + 1 : h[j].evidence \in Nat  BY <1>2
    <2>4. CASE h[n + 2].evidence < h[i].evidence
      <3>1. \A j \in 1 .. n + 2 : AsNew(h[i], i, h[j], j)
        BY <2>1, <2>2, <2>3, <2>4 DEF AsNew
      <3> QED  BY <3>1
    <2>5. CASE h[n + 2].evidence >= h[i].evidence
      <3>1. ASSUME NEW j \in 1 .. n + 2 PROVE AsNew(h[n + 2], n + 2, h[j], j)
        <4>1. CASE j = n + 2  BY <4>1 DEF AsNew
        <4>2. CASE j \in 1 .. n + 1
          <5>1. h[j].evidence <= h[i].evidence  BY <2>1, <2>2, <2>3, <4>2 DEF AsNew
          <5>2. h[j].evidence <= h[n + 2].evidence /\ j <= n + 2
            BY <2>2, <2>3, <2>5, <4>2, <5>1
          <5> QED  BY <2>2, <2>3, <4>2, <5>2 DEF AsNew
        <4> QED  BY <4>1, <4>2
      <3> QED  BY <3>1
    <2>6. h[n + 2].evidence < h[i].evidence \/ h[n + 2].evidence >= h[i].evidence  BY <2>2
    <2> HIDE DEF Top
    <2> QED  BY <2>4, <2>5, <2>6
  <1> HIDE DEF A
  <1>5. Nat \subseteq A  BY <1>3, <1>4, Induction
  <1>6. Len(h) - 1 \in Nat /\ (Len(h) - 1) + 1 = Len(h)  BY <1>1
  <1>7. Top(Len(h))
    <2>1. Len(h) - 1 \in A  BY <1>5, <1>6
    <2> QED  BY <1>6, <2>1 DEF A
  <1> DEFINE best == CHOOSE i \in DOMAIN h : \A j \in DOMAIN h : AsNew(h[i], i, h[j], j)
  <1>8. best \in DOMAIN h /\ \A j \in DOMAIN h : AsNew(h[best], best, h[j], j)
    BY <1>1, <1>7
  <1>9. Latest(h) = h[best]  BY DEF Latest, AsNew
  <1> HIDE DEF best
  <1> QED  BY <1>8, <1>9

LEMMA LatestTyped ==
  ASSUME NEW h \in Seq(Run), h # <<>> PROVE Latest(h) \in Run
  BY LatestIs

LEMMA LatestShift ==
  ASSUME NEW h \in Seq(Run), h # <<>>, NEW d \in Nat
  PROVE  Latest(Shift(h, d)) = Delayed(Latest(h), d)
  <1>1. PICK i \in DOMAIN h : /\ Latest(h) = h[i]
                              /\ \A j \in DOMAIN h : AsNew(h[i], i, h[j], j)
    BY LatestIs
  <1> DEFINE g == Shift(h, d)
  <1>2. /\ g \in Seq(Run) /\ g # <<>> /\ DOMAIN g = DOMAIN h
        /\ \A j \in DOMAIN h : g[j] = Delayed(h[j], d) /\ h[j] \in Run
    BY ShiftIs
  <1>3. \A j \in DOMAIN h : g[j].evidence = h[j].evidence /\ h[j].evidence \in Nat
    BY <1>2, DelayedIs DEF Run
  <1> HIDE DEF g
  <1>4. PICK m \in DOMAIN g : /\ Latest(g) = g[m]
                              /\ \A j \in DOMAIN g : AsNew(g[m], m, g[j], j)
    BY <1>2, LatestIs
  <1>5. m = i
    <2>1. AsNew(g[m], m, g[i], i) /\ AsNew(h[i], i, h[m], m)  BY <1>1, <1>2, <1>4
    <2>2. i \in Nat /\ m \in Nat /\ m \in DOMAIN h  BY <1>1, <1>2, <1>4
    <2> QED  BY <1>3, <2>1, <2>2 DEF AsNew
  <1> QED  BY <1>1, <1>2, <1>4, <1>5 DEF g
-----------------------------------------------------------------------------
\* The same replay under another count: what two tallies may differ in.
Like(t, u, d) ==
  /\ \A k \in Checks : t.runs[k] = Shift(u.runs[k], d)
  /\ t.seq = u.seq + d /\ t.changing = {s + d : s \in u.changing}
  /\ t.writes = u.writes /\ t.outside = u.outside /\ t.writeCalls = u.writeCalls
  /\ t.launches = u.launches /\ t.lastChange = u.lastChange
  /\ t.order = u.order /\ t.ctx = u.ctx

\* The entry of each check that stands, as asking for it anew would give it.
Standing(t) == {k \in DOMAIN Lasts(t) : CoveredBy(Lasts(t), k) = {}}
EntryOf(t, k) == CheckEntry(t, Lasts(t)[k], FailedEarlier(t, Lasts(t), k))
Current(t) ==
  /\ DOMAIN t.entries \subseteq Standing(t)
  /\ \A k \in DOMAIN t.entries : t.entries[k] = EntryOf(t, k)

LEMMA LastsIs ==
  ASSUME NEW t, Tally(t)
  PROVE  /\ DOMAIN Lasts(t) \subseteq Checks
         /\ \A k \in Checks : k \in DOMAIN Lasts(t)
                                <=> \E i \in DOMAIN t.runs[k] : ~t.runs[k][i].background
         /\ \A k \in DOMAIN Lasts(t) : /\ t.runs[k] \in Seq(Run) /\ t.runs[k] # <<>>
                                       /\ Lasts(t)[k] = Latest(t.runs[k])
                                       /\ Lasts(t)[k] \in Run
  <1>1. \A k \in Checks : t.runs[k] \in Seq(Run)  BY DEF Tally
  <1>2. DOMAIN Lasts(t) = {k \in Checks : \E i \in DOMAIN t.runs[k] : ~t.runs[k][i].background}
    BY DEF Lasts
  <1>3. \A k \in DOMAIN Lasts(t) : t.runs[k] # <<>>  BY <1>2
  <1>4. \A k \in DOMAIN Lasts(t) : Lasts(t)[k] = Latest(t.runs[k])  BY DEF Lasts
  <1> QED  BY <1>1, <1>2, <1>3, <1>4, LatestTyped

\* Entries fall when what they were read off changes, so they stay current.
LEMMA FreshOf ==
  ASSUME NEW t, NEW u, t.runs = u.runs, t.writeCalls = u.writeCalls,
         t.changing = u.changing, t.ctx = u.ctx
  PROVE  /\ Lasts(t) = Lasts(u) /\ Standing(t) = Standing(u)
         /\ \A k : EntryOf(t, k) = EntryOf(u, k)
  <1>1. Lasts(t) = Lasts(u)  BY DEF Lasts
  <1>2. \A k : FailedEarlier(t, Lasts(t), k) = FailedEarlier(u, Lasts(u), k)
    BY <1>1 DEF FailedEarlier
  <1>3. \A run, b : CheckEntry(t, run, b) = CheckEntry(u, run, b)  BY DEF CheckEntry
  <1> QED  BY <1>1, <1>2, <1>3 DEF Standing, EntryOf

LEMMA AddCurrent ==
  ASSUME NEW t, Tally(t), Current(t), NEW c, IsCall(c) PROVE Current(Add(t, c))
  <1> DEFINE u == Add(t, c)
  <1>1. Adds(t, c, u)  BY AddIs
  <1> HIDE DEF u
  <1>2. CASE u.entries = << >>  BY <1>2 DEF Current, u
  <1>3. CASE u.entries = t.entries /\ u.runs = t.runs /\ u.writeCalls = t.writeCalls
             /\ u.changing = t.changing
    <2>1. u.ctx = t.ctx  BY <1>1 DEF Adds
    <2>2. Current(u)  BY <1>3, <2>1, FreshOf DEF Current
    <2> QED  BY <2>2 DEF u
  <1> QED  BY <1>1, <1>2, <1>3 DEF Adds

LEMMA AskedFresh ==
  ASSUME NEW t, Tally(t), Current(t)
  PROVE  /\ Current(Asked(t)) /\ DOMAIN Asked(t).entries = Standing(t)
         /\ \A k \in Standing(t) : Asked(t).entries[k] = EntryOf(t, k)
  <1> DEFINE u == Asked(t)
  <1>1. /\ u.entries = EntriesOf(t, Lasts(t)) /\ u.runs = t.runs
        /\ u.writeCalls = t.writeCalls /\ u.changing = t.changing /\ u.ctx = t.ctx
    BY AskedIs
  <1> HIDE DEF u
  <1>2. DOMAIN u.entries = Standing(t)  BY <1>1 DEF EntriesOf, Standing
  <1>3. ASSUME NEW k \in Standing(t) PROVE u.entries[k] = EntryOf(t, k)
    <2>1. u.entries[k] = IF k \in DOMAIN t.entries THEN t.entries[k] ELSE EntryOf(t, k)
      BY <1>1, <1>3 DEF EntriesOf, Standing, EntryOf
    <2> QED  BY <2>1 DEF Current
  <1>4. Current(u)  BY <1>1, <1>2, <1>3, FreshOf DEF Current
  <1> QED  BY <1>2, <1>3, <1>4 DEF u
-----------------------------------------------------------------------------
\* A count of commands moves no entry.
LEMMA LastsLike ==
  ASSUME NEW t, NEW u, Tally(t), Tally(u), NEW d \in Nat, Like(t, u, d)
  PROVE  /\ DOMAIN Lasts(t) = DOMAIN Lasts(u)
         /\ \A k \in DOMAIN Lasts(u) : /\ Lasts(u)[k] \in Run
                                       /\ Lasts(t)[k] = Delayed(Lasts(u)[k], d)
  <1>1. ASSUME NEW k \in Checks
        PROVE  /\ t.runs[k] \in Seq(Run) /\ u.runs[k] \in Seq(Run)
               /\ t.runs[k] = Shift(u.runs[k], d) /\ DOMAIN t.runs[k] = DOMAIN u.runs[k]
               /\ \A i \in DOMAIN u.runs[k] : t.runs[k][i].background = u.runs[k][i].background
    <2>1. t.runs[k] \in Seq(Run) /\ u.runs[k] \in Seq(Run)  BY DEF Tally
    <2>2. t.runs[k] = Shift(u.runs[k], d)  BY DEF Like
    <2>3. /\ DOMAIN t.runs[k] = DOMAIN u.runs[k]
          /\ \A i \in DOMAIN u.runs[k] : /\ t.runs[k][i] = Delayed(u.runs[k][i], d)
                                         /\ u.runs[k][i] \in Run
      BY <2>1, <2>2, ShiftIs
    <2>4. \A i \in DOMAIN u.runs[k] : t.runs[k][i].background = u.runs[k][i].background
      BY <2>3, DelayedIs
    <2> QED  BY <2>1, <2>2, <2>3, <2>4
  <1>2. DOMAIN Lasts(t) = DOMAIN Lasts(u)
    <2>1. /\ DOMAIN Lasts(t) \subseteq Checks /\ DOMAIN Lasts(u) \subseteq Checks
          /\ \A k \in Checks : k \in DOMAIN Lasts(t)
                                 <=> \E i \in DOMAIN t.runs[k] : ~t.runs[k][i].background
          /\ \A k \in Checks : k \in DOMAIN Lasts(u)
                                 <=> \E i \in DOMAIN u.runs[k] : ~u.runs[k][i].background
      BY LastsIs
    <2>2. ASSUME NEW k \in Checks PROVE k \in DOMAIN Lasts(t) <=> k \in DOMAIN Lasts(u)
      <3>1. /\ DOMAIN t.runs[k] = DOMAIN u.runs[k]
            /\ \A i \in DOMAIN u.runs[k] : t.runs[k][i].background = u.runs[k][i].background
        BY <1>1
      <3> QED  BY ONLY <2>1, <3>1
    <2> QED  BY ONLY <2>1, <2>2
  <1>3. ASSUME NEW k \in DOMAIN Lasts(u)
        PROVE  Lasts(u)[k] \in Run /\ Lasts(t)[k] = Delayed(Lasts(u)[k], d)
    <2>1. /\ u.runs[k] \in Seq(Run) /\ u.runs[k] # <<>> /\ k \in Checks
          /\ Lasts(u)[k] = Latest(u.runs[k]) /\ Lasts(u)[k] \in Run
      BY LastsIs
    <2>2. Lasts(t)[k] = Latest(t.runs[k])  BY <1>2, LastsIs
    <2> QED  BY <1>1, <2>1, <2>2, LatestShift
  <1> QED  BY <1>2, <1>3

LEMMA JoinsLike ==
  ASSUME NEW t, NEW u, Tally(t), Tally(u), NEW d \in Nat, Like(t, u, d)
  PROVE  /\ \A k \in DOMAIN Lasts(u) : CoveredBy(Lasts(t), k) = CoveredBy(Lasts(u), k)
         /\ \A k : Joins(Lasts(t), k) = Joins(Lasts(u), k)
         /\ \A k : Joins(Lasts(u), k) \subseteq Checks
  <1> DEFINE x == Lasts(t)
             y == Lasts(u)
  <1>1. /\ DOMAIN x = DOMAIN y /\ DOMAIN y \subseteq Checks
        /\ \A k \in DOMAIN y : y[k] \in Run /\ x[k] = Delayed(y[k], d)
    BY LastsLike, LastsIs
  <1>2. \A k \in DOMAIN y : x[k].result = y[k].result /\ x[k].evidence = y[k].evidence
    BY <1>1, DelayedIs
  <1> HIDE DEF x, y
  <1>3. ASSUME NEW k \in DOMAIN y PROVE CoveredBy(x, k) = CoveredBy(y, k)
    BY <1>1, <1>2 DEF CoveredBy
  <1>4. ASSUME NEW k PROVE Joins(x, k) = Joins(y, k)
    <2>1. \A f \in DOMAIN y : \A q \in CoveredBy(y, f) : q \in DOMAIN y  BY DEF CoveredBy
    <2> QED  BY <1>1, <1>2, <1>3, <2>1 DEF Joins
  <1>5. \A k : Joins(y, k) \subseteq Checks  BY <1>1 DEF Joins
  <1> QED  BY <1>3, <1>4, <1>5 DEF x, y

LEMMA FailedLike ==
  ASSUME NEW t, NEW u, Tally(t), Tally(u), NEW d \in Nat, Like(t, u, d),
         NEW k \in DOMAIN Lasts(u)
  PROVE  FailedEarlier(t, Lasts(t), k) <=> FailedEarlier(u, Lasts(u), k)
  <1> DEFINE J == Joins(Lasts(u), k) \cup {k}
             p == Lasts(t)[k]
             q == Lasts(u)[k]
  <1>1. Joins(Lasts(t), k) = Joins(Lasts(u), k) /\ J \subseteq Checks
    <2>1. k \in Checks  BY LastsIs
    <2> QED  BY <2>1, JoinsLike
  <1>2. q \in Run /\ p = Delayed(q, d)  BY LastsLike
  <1>3. ASSUME NEW f \in J
        PROVE  (\E r \in ToSet(t.runs[f]) : r.result = "failed" /\ r # p)
                 <=> (\E r \in ToSet(u.runs[f]) : r.result = "failed" /\ r # q)
    <2>1. t.runs[f] = Shift(u.runs[f], d) /\ u.runs[f] \in Seq(Run)
      BY <1>1 DEF Like, Tally
    <2>2. /\ DOMAIN t.runs[f] = DOMAIN u.runs[f]
          /\ \A i \in DOMAIN u.runs[f] : /\ t.runs[f][i] = Delayed(u.runs[f][i], d)
                                         /\ u.runs[f][i] \in Run
      BY <2>1, ShiftIs
    <2>3. \A i \in DOMAIN u.runs[f] : /\ t.runs[f][i].result = u.runs[f][i].result
                                      /\ t.runs[f][i] # p <=> u.runs[f][i] # q
      BY <1>2, <2>2, DelayedIs, DelayedOnce
    <2> HIDE DEF J, p, q
    <2> QED  BY <2>2, <2>3 DEF ToSet
  <1> QED  BY <1>1, <1>3 DEF FailedEarlier

LEMMA EntryLike ==
  ASSUME NEW t, NEW u, Tally(t), Tally(u), NEW d \in Nat, Like(t, u, d)
  PROVE  /\ Standing(t) = Standing(u)
         /\ \A k \in Standing(u) : EntryOf(t, k) = EntryOf(u, k)
  <1>1. Standing(t) = Standing(u)  BY LastsLike, JoinsLike DEF Standing
  <1>2. ASSUME NEW k \in DOMAIN Lasts(u) PROVE EntryOf(t, k) = EntryOf(u, k)
    <2> DEFINE p == Lasts(t)[k]
               q == Lasts(u)[k]
               b == FailedEarlier(u, Lasts(u), k)
    <2>1. q \in Run /\ p = Delayed(q, d)  BY LastsLike
    <2>2. /\ p.at = q.at /\ p.id = q.id /\ p.result = q.result /\ p.evidence = q.evidence
          /\ p.fixes = q.fixes /\ p.changesLater = q.changesLater /\ p.seq = q.seq + d
          /\ q.seq \in Nat
      BY <2>1, DelayedIs DEF Run
    <2>3. FailedEarlier(t, Lasts(t), k) <=> b  BY FailedLike
    <2>4. (\E s \in t.changing : s > p.seq) <=> (\E s \in u.changing : s > q.seq)
      <3>1. t.changing = {s + d : s \in u.changing} /\ \A s \in u.changing : s \in Nat
        BY DEF Like, Tally
      <3> HIDE DEF p, q
      <3> QED  BY <2>2, <3>1
    <2>5. t.writeCalls = u.writeCalls /\ t.ctx = u.ctx  BY DEF Like
    <2> HIDE DEF p, q, b
    <2>6. CheckEntry(t, p, FailedEarlier(t, Lasts(t), k)) = CheckEntry(u, q, b)
      BY <2>2, <2>3, <2>4, <2>5 DEF CheckEntry
    <2> QED  BY <2>6 DEF EntryOf, p, q, b
  <1>3. Standing(u) \subseteq DOMAIN Lasts(u)  BY DEF Standing
  <1> QED  BY <1>1, <1>2, <1>3
-----------------------------------------------------------------------------
\* The list and the level are of these alone.
Same(x, y) ==
  /\ x.entries = y.entries /\ x.order = y.order /\ x.writes = y.writes
  /\ x.outside = y.outside /\ x.launches = y.launches /\ x.lastChange = y.lastChange
  /\ x.ctx = y.ctx

LEMMA LevelSame ==
  ASSUME NEW x, NEW y, Same(x, y)
  PROVE  /\ Listed(x) = Listed(y)
         /\ \A rows, on : LiveLevel(x, rows, on) = LiveLevel(y, rows, on)
  <1> USE DEF Same
  <1>1. Listed(x) = Listed(y)  BY DEF Listed, Candidates
  <1>2. \A result : Counted(x, result) = Counted(y, result)  BY DEF Counted
  <1>3. \A passes : FloorHolds(x, passes) = FloorHolds(y, passes)  BY <1>2 DEF FloorHolds
  <1>4. \A writes, on : WrittenOutside(x, writes, on) = WrittenOutside(y, writes, on)
    BY DEF WrittenOutside
  <1>5. \A e : Anchored(x, e) = Anchored(y, e)  BY DEF Anchored
  <1>6. \A passes, anchored, writes, outside :
          LevelOf(x, passes, anchored, writes, outside)
            = LevelOf(y, passes, anchored, writes, outside)
    BY <1>3 DEF LevelOf
  <1>7. ASSUME NEW checks, NEW writes, NEW on
        PROVE LevelOver(x, checks, writes, on) = LevelOver(y, checks, writes, on)
    <2> DEFINE passes == {e \in checks : e.result = "passed"}
               mine == {e \in checks : Anchored(x, e)}
               other == {e \in checks : Anchored(y, e)}
               a == WrittenOutside(x, writes, on)
               b == WrittenOutside(y, writes, on)
    <2>1. mine = other  BY <1>5
    <2>2. a = b  BY <1>4
    <2>3. /\ LevelOver(x, checks, writes, on) = LevelOf(x, passes, mine, writes, a)
          /\ LevelOver(y, checks, writes, on) = LevelOf(y, passes, other, writes, b)
      BY DEF LevelOver
    <2> HIDE DEF passes, mine, other, a, b
    <2>4. LevelOf(x, passes, mine, writes, a) = LevelOf(y, passes, other, writes, b)
      BY ONLY <1>6, <2>1, <2>2
    <2> QED  BY ONLY <2>3, <2>4
  <1>8. \A rows, on : LiveLevel(x, rows, on) = LiveLevel(y, rows, on)
    BY <1>7 DEF LiveLevel
  <1> QED  BY <1>1, <1>8

\* The level of a tally, asked of it now with these folders on the disk, and the list it
\* is read off.
ListOf(t) == Listed(Asked(t))
LevelAt(t, on) == LiveLevel(Asked(t), ListOf(t), on)

LEMMA LevelLike ==
  ASSUME NEW t, NEW u, Tally(t), Tally(u), Current(t), Current(u), NEW d \in Nat,
         Like(t, u, d)
  PROVE  ListOf(t) = ListOf(u) /\ \A on : LevelAt(t, on) = LevelAt(u, on)
  <1> DEFINE x == Asked(t)
             y == Asked(u)
  <1>1. /\ x.entries = EntriesOf(t, Lasts(t)) /\ DOMAIN x.entries = Standing(t)
        /\ y.entries = EntriesOf(u, Lasts(u)) /\ DOMAIN y.entries = Standing(u)
        /\ \A k \in Standing(t) : x.entries[k] = EntryOf(t, k)
        /\ \A k \in Standing(u) : y.entries[k] = EntryOf(u, k)
    BY AskedIs, AskedFresh
  <1>2. /\ x.order = t.order /\ x.writes = t.writes /\ x.outside = t.outside
        /\ x.launches = t.launches /\ x.lastChange = t.lastChange /\ x.ctx = t.ctx
        /\ y.order = u.order /\ y.writes = u.writes /\ y.outside = u.outside
        /\ y.launches = u.launches /\ y.lastChange = u.lastChange /\ y.ctx = u.ctx
    BY AskedIs
  <1> HIDE DEF x, y
  <1>3. x.entries = y.entries
    <2>1. /\ Standing(t) = Standing(u)
          /\ \A k \in Standing(u) : EntryOf(t, k) = EntryOf(u, k)
      BY EntryLike
    <2>2. /\ x.entries = [k \in DOMAIN x.entries |-> x.entries[k]]
          /\ y.entries = [k \in DOMAIN y.entries |-> y.entries[k]]
      BY <1>1 DEF EntriesOf
    <2> QED  BY <1>1, <2>1, <2>2
  <1>4. Same(x, y)  BY <1>2, <1>3 DEF Same, Like
  <1>5. /\ Listed(x) = Listed(y)
        /\ \A on : LiveLevel(x, Listed(x), on) = LiveLevel(y, Listed(y), on)
    BY <1>4, LevelSame
  <1> QED  BY <1>5 DEF ListOf, LevelAt, x, y
-----------------------------------------------------------------------------
\* Two tallies that are alike stay so, call by call, whoever asks of them.
NoRuns == [k \in Checks |-> <<>>]

LEMMA LikeBeyond ==
  ASSUME NEW t, NEW u, Tally(t), Tally(u), NEW d \in Nat
  PROVE  Like(t, u, d) <=> Beyond(t, u, d, NoRuns, <<>>) /\ t.ctx = u.ctx
  <1>1. ASSUME NEW k \in Checks PROVE NoRuns[k] \o Shift(u.runs[k], d) = Shift(u.runs[k], d)
    <2>1. Shift(u.runs[k], d) \in Seq(Run)  BY ShiftIs DEF Tally
    <2> QED  BY <2>1 DEF NoRuns
  <1>2. <<>> \o u.order = u.order  BY DEF Tally
  <1>3. \A k \in Checks : NoRuns[k] = <<>>  BY DEF NoRuns
  <1> QED  BY <1>1, <1>2, <1>3 DEF Like, Beyond

LEMMA AddLike ==
  ASSUME NEW t, NEW u, Tally(t), Tally(u), NEW d \in Nat, Like(t, u, d), NEW c, IsCall(c)
  PROVE  Like(Add(t, c), Add(u, c), d)
  <1>1. Beyond(t, u, d, NoRuns, <<>>) /\ t.ctx = u.ctx  BY LikeBeyond
  <1>2. Headed(NoRuns, <<>>)  BY DEF Headed, NoRuns, Contains
  <1>3. Beyond(Add(t, c), Add(u, c), d, NoRuns, <<>>)  BY <1>1, <1>2, AddBeyond
  <1>4. Tally(Add(t, c)) /\ Tally(Add(u, c))  BY AddKept
  <1>5. Adds(t, c, Add(t, c)) /\ Adds(u, c, Add(u, c))  BY AddIs
  <1>6. Add(t, c).ctx = Add(u, c).ctx  BY <1>1, <1>5 DEF Adds
  <1> QED  BY <1>3, <1>4, <1>6, LikeBeyond

LEMMA AskedLike ==
  ASSUME NEW t, NEW u, Tally(t), NEW d, Like(t, u, d)
  PROVE  Like(Asked(t), u, d)
  <1>1. Alike(Asked(t), t)  BY AskedIs DEF Alike
  <1> QED  BY <1>1 DEF Like, Alike

LEMMA LikeSelf ==
  ASSUME NEW t, Tally(t) PROVE Like(t, t, 0)
  <1>1. ASSUME NEW k \in Checks PROVE t.runs[k] = Shift(t.runs[k], 0)
    <2>1. t.runs[k] \in Seq(Run)  BY DEF Tally
    <2>2. ASSUME NEW q \in Run PROVE Delayed(q, 0) = q
      <3>1. q.seq + 0 = q.seq  BY DEF Run
      <3>2. Delayed(q, 0) = [q EXCEPT !.seq = q.seq]  BY <3>1 DEF Delayed
      <3> QED  BY <3>2 DEF Run
    <2>3. \A i \in DOMAIN t.runs[k] : Delayed(t.runs[k][i], 0) = t.runs[k][i]  BY <2>1, <2>2
    <2>4. t.runs[k] = [i \in DOMAIN t.runs[k] |-> t.runs[k][i]]  BY <2>1
    <2> QED  BY <2>3, <2>4 DEF Shift
  <1>2. t.seq = t.seq + 0 /\ t.changing = {s + 0 : s \in t.changing}
    <2>1. \A s \in t.changing : s + 0 = s  BY DEF Tally
    <2> QED  BY <2>1 DEF Tally
  <1> QED  BY <1>1, <1>2 DEF Like
-----------------------------------------------------------------------------
\* What a transcript holds, and what of it is a call.
Things == {entry.of : entry \in Menu \cup ChildMenu} \cup {""}
Entry == [at : Nat, id : Nat, does : Deeds \cup {"person"}, of : Things, says : Says,
          told : Nat]
Called == {c \in Entry : c.does \in Deeds /\ (Tests(c) => c.of \in Checks)}

LEMMA CalledIs == ASSUME NEW c \in Called PROVE IsCall(c)
  BY DEF Called, Entry, IsCall

LEMMA Onward ==
  ASSUME NEW A, NEW start \in Nat, NEW last \in Nat, start \in A,
         \A i \in start .. last - 1 : i \in A => i + 1 \in A
  PROVE  start .. last \subseteq A
  <1> DEFINE B == {n \in Nat : start + n <= last => start + n \in A}
  <1>1. 0 \in B  OBVIOUS
  <1>2. ASSUME NEW n \in Nat, n \in B PROVE n + 1 \in B
    <2> SUFFICES ASSUME start + n + 1 <= last PROVE start + n + 1 \in A  OBVIOUS
    <2>1. start + n \in A /\ start + n \in start .. last - 1  BY <1>2
    <2> QED  BY <2>1
  <1> HIDE DEF B
  <1>3. Nat \subseteq B  BY <1>1, <1>2, Induction
  <1>4. ASSUME NEW i \in start .. last PROVE i \in A
    <2>1. i - start \in Nat /\ start + (i - start) = i  OBVIOUS
    <2>2. i - start \in B  BY <1>3, <2>1
    <2> QED  BY <2>1, <2>2 DEF B
  <1> QED  BY <1>4

\* The tallies from one call on: each is the one before with the next call added.
Then(t, c, asked) == IF asked THEN Asked(Add(t, c)) ELSE Add(t, c)
Start(t, asked) == IF asked THEN Asked(t) ELSE t
Stage(t, calls, start, asking, i, before) ==
  IF i = start THEN Start(t, i \in asking) ELSE Then(before, calls[i], i \in asking)

Stages(t, calls, start, asking, last) ==
  \E g : g = [i \in start .. last |-> Stage(t, calls, start, asking, i, g[i - 1])]

LEMMA StagesExist ==
  ASSUME NEW t, NEW calls, NEW start \in Nat, NEW asking, NEW last \in Nat, start <= last
  PROVE  Stages(t, calls, start, asking, last)
  <1> DEFINE Exists(n) ==
        \E g : g = [i \in start .. n |-> Stage(t, calls, start, asking, i, g[i - 1])]
      A == {n \in Nat : n >= start /\ Exists(n)}
  <1>1. start \in A
    <2> DEFINE g == [i \in start .. start |-> Start(t, start \in asking)]
    <2>1. g = [i \in start .. start |-> Stage(t, calls, start, asking, i, g[i - 1])]
      BY DEF Stage
    <2> HIDE DEF g
    <2> QED  BY <2>1
  <1>2. ASSUME NEW n \in start .. last - 1, n \in A PROVE n + 1 \in A
    <2>1. PICK g : g = [i \in start .. n |-> Stage(t, calls, start, asking, i, g[i - 1])]
      BY <1>2
    <2> DEFINE h == [i \in start .. n + 1 |->
                       IF i = n + 1 THEN Stage(t, calls, start, asking, i, g[n]) ELSE g[i]]
    <2>2. ASSUME NEW i \in start .. n + 1
          PROVE h[i] = Stage(t, calls, start, asking, i, h[i - 1])
      <3>1. CASE i = n + 1
        <4>1. n \in start .. n + 1 /\ n # n + 1  BY <1>2
        <4>2. h[n] = g[n]  BY <4>1
        <4>3. h[i] = Stage(t, calls, start, asking, i, g[n])  BY <3>1
        <4> QED  BY <3>1, <4>2, <4>3
      <3>2. CASE i = start /\ i # n + 1
        <4>1. i \in start .. n  BY <3>2
        <4>2. h[i] = g[i]  BY <3>2
        <4>3. g[i] = Stage(t, calls, start, asking, i, g[i - 1])  BY <2>1, <4>1
        <4> QED  BY <3>2, <4>2, <4>3 DEF Stage
      <3>3. CASE i # start /\ i # n + 1
        <4>1. i \in start .. n /\ i - 1 \in start .. n /\ i - 1 # n + 1  BY <1>2, <3>3
        <4>2. h[i] = g[i] /\ h[i - 1] = g[i - 1]  BY <3>3, <4>1
        <4>3. g[i] = Stage(t, calls, start, asking, i, g[i - 1])  BY <2>1, <4>1
        <4> QED  BY <4>2, <4>3
      <3> QED  BY <3>1, <3>2, <3>3
    <2>3. h = [i \in start .. n + 1 |-> h[i]]  OBVIOUS
    <2> HIDE DEF h
    <2>4. h = [i \in start .. n + 1 |-> Stage(t, calls, start, asking, i, h[i - 1])]
      BY <2>2, <2>3
    <2>5. Exists(n + 1)  BY <2>4
    <2> QED  BY <1>2, <2>5
  <1> HIDE DEF A
  <1>3. start .. last \subseteq A  BY <1>1, <1>2, Onward
  <1> QED  BY <1>3 DEF A, Stages

Staged(at, t, calls, start, asking) ==
  /\ at = [i \in start .. Len(calls) |-> at[i]]
  /\ at[start] = Start(t, start \in asking)
  /\ \A i \in start + 1 .. Len(calls) : at[i] = Then(at[i - 1], calls[i], i \in asking)

LEMMA TalliesIs ==
  ASSUME NEW t, NEW calls, Len(calls) \in Nat, NEW start \in 0 .. Len(calls), NEW asking
  PROVE  Staged(Tallies(t, calls, start, asking), t, calls, start, asking)
  <1> DEFINE n == Len(calls)
             at == Tallies(t, calls, start, asking)
  <1>1. \E g : g = [i \in start .. n |-> Stage(t, calls, start, asking, i, g[i - 1])]
    <2>1. Stages(t, calls, start, asking, n)  BY StagesExist
    <2> QED  BY <2>1 DEF Stages
  <1>2. \E g : g = [i \in start .. n |->
                      LET added == IF i = start THEN t ELSE Add(g[i - 1], calls[i])
                      IN IF i \in asking THEN Asked(added) ELSE added]
    <2>1. PICK g : g = [i \in start .. n |-> Stage(t, calls, start, asking, i, g[i - 1])]
      BY <1>1
    <2>2. g = [i \in start .. n |->
                 LET added == IF i = start THEN t ELSE Add(g[i - 1], calls[i])
                 IN IF i \in asking THEN Asked(added) ELSE added]
      BY <2>1 DEF Stage, Start, Then
    <2> QED  BY <2>2
  <1>3. at = [i \in start .. n |->
                LET added == IF i = start THEN t ELSE Add(at[i - 1], calls[i])
                IN IF i \in asking THEN Asked(added) ELSE added]
    BY <1>2 DEF Tallies
  <1> HIDE DEF at
  <1>4. \A i \in start .. n : at[i] = Stage(t, calls, start, asking, i, at[i - 1])
    BY <1>3 DEF Stage, Start, Then
  <1>5. at = [i \in start .. n |-> at[i]]  BY <1>3
  <1>6. at[start] = Start(t, start \in asking)  BY <1>4 DEF Stage
  <1>7. \A i \in start + 1 .. n : at[i] = Then(at[i - 1], calls[i], i \in asking)
    BY <1>4 DEF Stage
  <1> QED  BY <1>5, <1>6, <1>7 DEF at, Staged

\* The same, of any stretch of tallies that take the calls one by one.
Goes(x, calls, low, high) ==
  \A i \in low + 1 .. high : \E b \in BOOLEAN : x[i] = Then(x[i - 1], calls[i], b)

LEMMA StagedGoes ==
  ASSUME NEW at, NEW t, NEW calls, NEW start, NEW asking, Staged(at, t, calls, start, asking)
  PROVE  Goes(at, calls, start, Len(calls))
  <1>1. \A i \in start + 1 .. Len(calls) : at[i] = Then(at[i - 1], calls[i], i \in asking)
    BY DEF Staged
  <1>2. ASSUME NEW i \in start + 1 .. Len(calls)
        PROVE  \E b \in BOOLEAN : at[i] = Then(at[i - 1], calls[i], b)
    <2>1. at[i] = Then(at[i - 1], calls[i], i \in asking)  BY <1>1
    <2>2. (i \in asking) \in BOOLEAN  OBVIOUS
    <2> QED  BY <2>1, <2>2
  <1> QED  BY <1>2 DEF Goes

LEMMA ThenKept ==
  ASSUME NEW t, Tally(t), NEW c, IsCall(c), NEW b \in BOOLEAN
  PROVE  /\ Tally(Then(t, c, b)) /\ (Current(t) => Current(Then(t, c, b)))
         /\ Alike(Then(t, c, b), Add(t, c))
  <1>1. Tally(Add(t, c)) /\ (Current(t) => Current(Add(t, c)))  BY AddKept, AddCurrent
  <1>2. CASE b  BY <1>1, <1>2, AskedIs, AskedFresh DEF Then, Alike
  <1>3. CASE ~b  BY <1>1, <1>3 DEF Then, Alike
  <1> QED  BY <1>2, <1>3

LEMMA StartKept ==
  ASSUME NEW t, Tally(t), NEW b \in BOOLEAN
  PROVE  /\ Tally(Start(t, b)) /\ (Current(t) => Current(Start(t, b)))
         /\ Alike(Start(t, b), t)
  <1>1. CASE b  BY <1>1, AskedIs, AskedFresh DEF Start, Alike
  <1>2. CASE ~b  BY <1>2 DEF Start, Alike
  <1> QED  BY <1>1, <1>2

LEMMA GoesKept ==
  ASSUME NEW x, NEW calls, NEW low \in Nat, NEW high \in Nat, Goes(x, calls, low, high),
         \A i \in low + 1 .. high : IsCall(calls[i]), Tally(x[low]), Current(x[low])
  PROVE  \A i \in low .. high : Tally(x[i]) /\ Current(x[i])
  <1> DEFINE A == {i \in Nat : Tally(x[i]) /\ Current(x[i])}
  <1>1. low \in A  OBVIOUS
  <1>2. ASSUME NEW i \in low .. high - 1, i \in A PROVE i + 1 \in A
    <2>1. i + 1 \in low + 1 .. high /\ (i + 1) - 1 = i  OBVIOUS
    <2>2. PICK b \in BOOLEAN : x[i + 1] = Then(x[i], calls[i + 1], b)  BY <2>1 DEF Goes
    <2>3. IsCall(calls[i + 1]) /\ Tally(x[i]) /\ Current(x[i])  BY <1>2, <2>1
    <2> QED  BY <2>1, <2>2, <2>3, ThenKept
  <1> HIDE DEF A
  <1>3. low .. high \subseteq A  BY <1>1, <1>2, Onward
  <1> QED  BY <1>3 DEF A

LEMMA GoesLike ==
  ASSUME NEW x, NEW y, NEW calls, NEW low \in Nat, NEW high \in Nat,
         Goes(x, calls, low, high), Goes(y, calls, low, high),
         \A i \in low + 1 .. high : IsCall(calls[i]), Tally(x[low]), Tally(y[low]),
         NEW d \in Nat, Like(x[low], y[low], d)
  PROVE  \A i \in low .. high : Like(x[i], y[i], d)
  <1> DEFINE A == {i \in Nat : Tally(x[i]) /\ Tally(y[i]) /\ Like(x[i], y[i], d)}
  <1>1. low \in A  OBVIOUS
  <1>2. ASSUME NEW i \in low .. high - 1, i \in A PROVE i + 1 \in A
    <2>1. i + 1 \in low + 1 .. high /\ (i + 1) - 1 = i  OBVIOUS
    <2>2. PICK b \in BOOLEAN : x[i + 1] = Then(x[i], calls[i + 1], b)  BY <2>1 DEF Goes
    <2>3. PICK e \in BOOLEAN : y[i + 1] = Then(y[i], calls[i + 1], e)  BY <2>1 DEF Goes
    <2>4. IsCall(calls[i + 1]) /\ Tally(x[i]) /\ Tally(y[i]) /\ Like(x[i], y[i], d)
      BY <1>2, <2>1
    <2>5. Like(Add(x[i], calls[i + 1]), Add(y[i], calls[i + 1]), d)  BY <2>4, AddLike
    <2>6. /\ Tally(x[i + 1]) /\ Alike(x[i + 1], Add(x[i], calls[i + 1]))
          /\ Tally(y[i + 1]) /\ Alike(y[i + 1], Add(y[i], calls[i + 1]))
      BY <2>2, <2>3, <2>4, ThenKept
    <2>7. Like(x[i + 1], y[i + 1], d)  BY <2>5, <2>6 DEF Like, Alike
    <2> QED  BY <2>1, <2>6, <2>7
  <1> HIDE DEF A
  <1>3. low .. high \subseteq A  BY <1>1, <1>2, Onward
  <1> QED  BY <1>3 DEF A

\* A replay from nothing that asks nothing.
Pure(calls, ctx) == Tallies(Blank(ctx), calls, 0, {})

LEMMA BlankCurrent ==
  ASSUME NEW ctx PROVE Current(Blank(ctx))
  BY DEF Current, Blank

LEMMA PureIs ==
  ASSUME NEW calls \in Seq(Called), NEW ctx
  PROVE  /\ Pure(calls, ctx)[0] = Blank(ctx)
         /\ Goes(Pure(calls, ctx), calls, 0, Len(calls))
         /\ \A i \in 1 .. Len(calls) :
              Pure(calls, ctx)[i] = Add(Pure(calls, ctx)[i - 1], calls[i])
         /\ \A i \in 0 .. Len(calls) :
              Tally(Pure(calls, ctx)[i]) /\ Current(Pure(calls, ctx)[i])
  <1> DEFINE p == Pure(calls, ctx)
  <1>1. Staged(p, Blank(ctx), calls, 0, {})  BY TalliesIs DEF Pure
  <1> HIDE DEF p
  <1>2. p[0] = Blank(ctx) /\ \A i \in 1 .. Len(calls) : p[i] = Add(p[i - 1], calls[i])
    <2>1. p[0] = Start(Blank(ctx), 0 \in {})  BY <1>1 DEF Staged
    <2>2. \A i \in 0 + 1 .. Len(calls) : p[i] = Then(p[i - 1], calls[i], i \in {})
      BY <1>1 DEF Staged
    <2>3. ASSUME NEW i \in 1 .. Len(calls) PROVE p[i] = Add(p[i - 1], calls[i])
      <3>1. p[i] = Then(p[i - 1], calls[i], i \in {})  BY <2>2
      <3> QED  BY <3>1 DEF Then
    <2> QED  BY <2>1, <2>3 DEF Start
  <1>3. Goes(p, calls, 0, Len(calls))  BY <1>1, StagedGoes
  <1>4. \A i \in 0 + 1 .. Len(calls) : IsCall(calls[i])  BY CalledIs
  <1>5. Tally(p[0]) /\ Current(p[0])  BY <1>2, BlankTally, BlankCurrent
  <1>6. \A i \in 0 .. Len(calls) : Tally(p[i]) /\ Current(p[i])
    <2> DEFINE n == Len(calls)
    <2>1. n \in Nat /\ 0 \in Nat  OBVIOUS
    <2>2. Goes(p, calls, 0, n) /\ \A i \in 0 + 1 .. n : IsCall(calls[i])  BY <1>3, <1>4
    <2> HIDE DEF n
    <2>3. \A i \in 0 .. n : Tally(p[i]) /\ Current(p[i])  BY ONLY <1>5, <2>1, <2>2, GoesKept
    <2> QED  BY <2>3 DEF n
  <1> QED  BY <1>2, <1>3, <1>6 DEF p

LEMMA PurePrefix ==
  ASSUME NEW calls \in Seq(Called), NEW other \in Seq(Called), NEW ctx,
         NEW n \in Nat, n <= Len(calls), n <= Len(other),
         \A i \in 1 .. n : calls[i] = other[i]
  PROVE  \A i \in 0 .. n : Pure(calls, ctx)[i] = Pure(other, ctx)[i]
  <1> DEFINE p == Pure(calls, ctx)
             q == Pure(other, ctx)
             A == {i \in Nat : p[i] = q[i]}
  <1>1. /\ p[0] = q[0] /\ \A i \in 1 .. Len(calls) : p[i] = Add(p[i - 1], calls[i])
        /\ \A i \in 1 .. Len(other) : q[i] = Add(q[i - 1], other[i])
    BY PureIs
  <1> HIDE DEF p, q
  <1>2. 0 \in A  BY <1>1
  <1>3. ASSUME NEW i \in 0 .. n - 1, i \in A PROVE i + 1 \in A
    <2>1. /\ i + 1 \in 1 .. n /\ i + 1 \in 1 .. Len(calls) /\ i + 1 \in 1 .. Len(other)
          /\ (i + 1) - 1 = i
      OBVIOUS
    <2>2. p[i + 1] = Add(p[i], calls[i + 1]) /\ q[i + 1] = Add(q[i], other[i + 1])
      BY <1>1, <2>1
    <2> QED  BY <1>3, <2>1, <2>2
  <1> HIDE DEF A
  <1>4. 0 .. n \subseteq A  BY <1>2, <1>3, Onward
  <1> QED  BY <1>4 DEF A, p, q
-----------------------------------------------------------------------------
\* A leading call that can be taken out again is the pass of one check and no more.
HeadTally(t, calls, n) ==
  /\ t.seq = n /\ t.changing = {} /\ t.writes = <<>> /\ t.outside = 0
  /\ t.writeCalls = {} /\ t.launches = <<>> /\ t.lastChange = None
  /\ \A k \in Checks : t.runs[k] # <<>> <=> \E i \in 1 .. n : SafeOf(calls[i]) = k

LEMMA HeadAdd ==
  ASSUME NEW calls \in Seq(Called), NEW n \in Nat, n + 1 <= Len(calls),
         NEW t, Tally(t), HeadTally(t, calls, n), SafeOf(calls[n + 1]) # "none"
  PROVE  HeadTally(Add(t, calls[n + 1]), calls, n + 1)
  <1> DEFINE c == calls[n + 1]
             u == Add(t, c)
  <1>1. n + 1 \in 1 .. Len(calls) /\ c \in Called  OBVIOUS
  <1>2. IsCall(c) /\ Adds(t, c, u)  BY <1>1, CalledIs, AddIs
  <1>9. SafeOf(calls[n + 1]) = SafeOf(c)  OBVIOUS
  <1> HIDE DEF c, u
  <1>3. /\ c.does = "check" /\ c.says = "passed" /\ SafeOf(c) = c.of
    BY <1>9 DEF SafeOf
  <1>4. Ran(c) /\ c.of \in Checks /\ Shelled(c) /\ ~Alters(c) /\ ~Wrote(c) /\ ~Launched(c)
        /\ ~Fixes(c)
    BY <1>2, <1>3 DEF Ran, Tests, IsCall, Shelled, Shell, Refused, Alters, Changes, Fixes,
                      Wrote, Launched
  <1>5. /\ u.seq = n + 1 /\ u.changing = {} /\ u.writes = <<>> /\ u.outside = 0
        /\ u.writeCalls = {} /\ u.launches = <<>> /\ u.lastChange = None
    BY <1>2, <1>4 DEF Adds, HeadTally
  <1>6. ASSUME NEW k \in Checks
        PROVE u.runs[k] # <<>> <=> \E i \in 1 .. n + 1 : SafeOf(calls[i]) = k
    <2>1. u.runs = [t.runs EXCEPT ![c.of] = Append(@, RunOf(c, t.seq + 1))]
      BY <1>2, <1>4 DEF Adds
    <2>2. CASE k = c.of
      <3>1. u.runs[k] = Append(t.runs[k], RunOf(c, t.seq + 1)) /\ t.runs[k] \in Seq(Run)
        BY <1>4, <2>1, <2>2 DEF Tally
      <3>2. RunOf(c, t.seq + 1) \in Run  BY <1>2, RunTyped DEF Tally
      <3>3. u.runs[k] # <<>>  BY <3>1, <3>2
      <3>4. SafeOf(calls[n + 1]) = k /\ n + 1 \in 1 .. n + 1  BY <1>3, <2>2 DEF c
      <3> QED  BY <3>3, <3>4
    <2>3. CASE k # c.of
      <3>1. u.runs[k] = t.runs[k]  BY <1>4, <2>1, <2>3 DEF Tally
      <3>2. t.runs[k] # <<>> <=> \E i \in 1 .. n : SafeOf(calls[i]) = k  BY DEF HeadTally
      <3>3. SafeOf(calls[n + 1]) # k  BY <1>3, <2>3 DEF c
      <3>4. \A i \in 1 .. n + 1 : i # n + 1 => i \in 1 .. n  OBVIOUS
      <3>5. \A i \in 1 .. n : i \in 1 .. n + 1  OBVIOUS
      <3> QED  BY <3>1, <3>2, <3>3, <3>4, <3>5
    <2> QED  BY <2>2, <2>3
  <1>7. HeadTally(u, calls, n + 1)  BY <1>5, <1>6 DEF HeadTally
  <1> QED  BY <1>7 DEF u, c

LEMMA HeadIs ==
  ASSUME NEW calls \in Seq(Called), NEW ctx, NEW n \in 0 .. Len(calls),
         \A i \in 1 .. n : SafeOf(calls[i]) # "none"
  PROVE  HeadTally(Pure(calls, ctx)[n], calls, n)
  <1> DEFINE p == Pure(calls, ctx)
             A == {i \in Nat : HeadTally(p[i], calls, i)}
  <1>1. /\ p[0] = Blank(ctx) /\ \A i \in 1 .. Len(calls) : p[i] = Add(p[i - 1], calls[i])
        /\ \A i \in 0 .. Len(calls) : Tally(p[i])
    BY PureIs
  <1> HIDE DEF p
  <1>2. 0 \in A  BY <1>1 DEF HeadTally, Blank
  <1>3. ASSUME NEW i \in 0 .. n - 1, i \in A PROVE i + 1 \in A
    <2>1. /\ i + 1 \in 1 .. n /\ i + 1 \in 1 .. Len(calls) /\ i \in 0 .. Len(calls)
          /\ (i + 1) - 1 = i /\ i \in Nat /\ i + 1 \in Nat /\ i + 1 <= Len(calls)
      OBVIOUS
    <2>2. p[i + 1] = Add(p[i], calls[i + 1]) /\ Tally(p[i])  BY <1>1, <2>1
    <2>3. HeadTally(p[i], calls, i) /\ SafeOf(calls[i + 1]) # "none"  BY <1>3, <2>1
    <2>4. HeadTally(p[i + 1], calls, i + 1)  BY <2>1, <2>2, <2>3, HeadAdd
    <2> QED  BY <2>1, <2>4
  <1> HIDE DEF A
  <1>6. n \in Nat  OBVIOUS
  <1>4. 0 .. n \subseteq A  BY <1>2, <1>3, <1>6, Onward
  <1>5. n \in A  BY <1>4, <1>6
  <1> QED  BY <1>5 DEF A, p

\* What follows a head is what a replay without it finds.
LEMMA BeyondHead ==
  ASSUME NEW calls \in Seq(Called), NEW other \in Seq(Called), NEW ctx, NEW ctx2,
         NEW n \in Nat, NEW m \in Nat, n + m <= Len(calls), m <= Len(other),
         \A j \in 1 .. m : calls[n + j] = other[j],
         HeadTally(Pure(calls, ctx)[n], calls, n)
  PROVE  LET p == Pure(calls, ctx)
         IN /\ Headed(p[n].runs, p[n].order)
            /\ Beyond(p[n + m], Pure(other, ctx2)[m], n, p[n].runs, p[n].order)
  <1> DEFINE p == Pure(calls, ctx)
             q == Pure(other, ctx2)
             H == p[n].runs
             O == p[n].order
             A == {j \in Nat : Beyond(p[n + j], q[j], n, H, O)}
  <1>1. /\ \A i \in 1 .. Len(calls) : p[i] = Add(p[i - 1], calls[i])
        /\ \A i \in 0 .. Len(calls) : Tally(p[i])
        /\ q[0] = Blank(ctx2) /\ \A i \in 1 .. Len(other) : q[i] = Add(q[i - 1], other[i])
        /\ \A i \in 0 .. Len(other) : Tally(q[i])
    BY PureIs
  <1>2. HeadTally(p[n], calls, n)  OBVIOUS
  <1> HIDE DEF p, q
  <1>3. Tally(p[n])  BY <1>1
  <1>4. Headed(H, O)  BY <1>3 DEF Headed, Tally
  <1>5. 0 \in A
    <2> DEFINE t == p[n]
               u == Blank(ctx2)
    <2>1. /\ \A k \in Checks : u.runs[k] = <<>> /\ t.runs[k] \in Seq(Run)
          /\ u.seq = 0 /\ u.changing = {} /\ u.writes = <<>> /\ u.outside = 0
          /\ u.writeCalls = {} /\ u.launches = <<>> /\ u.lastChange = None /\ u.order = <<>>
          /\ t.order \in Seq(Checks)
      BY <1>3 DEF Blank, Tally
    <2>2. HeadTally(t, calls, n)  BY <1>2
    <2> HIDE DEF t, u
    <2>3. \A k \in Checks : t.runs[k] \o Shift(u.runs[k], n) = t.runs[k]  BY <2>1 DEF Shift
    <2>4. t.order \o u.order = t.order  BY <2>1
    <2>5. {s + n : s \in u.changing} = {} /\ u.seq + n = n  BY <2>1
    <2>6. Beyond(t, u, n, t.runs, t.order)  BY <2>1, <2>2, <2>3, <2>4, <2>5 DEF Beyond, HeadTally
    <2> QED  BY <1>1, <2>6 DEF t, u
  <1> HIDE DEF H, O
  <1>6. ASSUME NEW j \in 0 .. m - 1, j \in A PROVE j + 1 \in A
    <2>1. /\ j + 1 \in 1 .. m /\ n + (j + 1) \in 1 .. Len(calls) /\ j + 1 \in 1 .. Len(other)
          /\ (j + 1) - 1 = j /\ (n + (j + 1)) - 1 = n + j /\ j + 1 \in Nat
          /\ n + j \in 0 .. Len(calls) /\ j \in 0 .. Len(other)
      OBVIOUS
    <2>2. /\ p[n + (j + 1)] = Add(p[n + j], calls[n + (j + 1)])
          /\ q[j + 1] = Add(q[j], other[j + 1]) /\ Tally(p[n + j]) /\ Tally(q[j])
          /\ calls[n + (j + 1)] = other[j + 1]
      BY <1>1, <2>1
    <2>3. IsCall(other[j + 1])
      <3>1. other[j + 1] \in Called  BY <2>1
      <3> QED  BY ONLY <3>1, CalledIs
    <2>4. Beyond(p[n + j], q[j], n, H, O)  BY <1>6
    <2>5. Beyond(p[n + (j + 1)], q[j + 1], n, H, O)
      BY <1>4, <2>2, <2>3, <2>4, AddBeyond
    <2> QED  BY <2>1, <2>5
  <1> HIDE DEF A
  <1>7. 0 .. m \subseteq A  BY <1>5, <1>6, Onward
  <1>8. m \in A  BY <1>7
  <1> QED  BY <1>4, <1>8 DEF A, H, O, p, q
-----------------------------------------------------------------------------
\* The end of a sequence is what is among its last members alone.
LEMMA CountFrom ==
  ASSUME NEW a \in Nat, NEW b \in Nat
  PROVE  Cardinality(a + 1 .. a + b) = b
  <1> DEFINE low == a + 1
             high == a + b
  <1>1. low \in Int /\ high \in Int  OBVIOUS
  <1> HIDE DEF low, high
  <1>2. Cardinality(low .. high) = IF low > high THEN 0 ELSE high - low + 1
    BY <1>1, FS_Interval
  <1> QED  BY <1>2 DEF low, high

LEMMA AmongTail ==
  ASSUME NEW X, NEW o \in Seq(X), NEW w \in Seq(X), NEW S,
         \A i \in 1 .. Len(o) : o[i] \notin S, \A i \in 1 .. Len(w) : w[i] \in S
  PROVE  Among(o \o w, S) = w
  <1> DEFINE a == Len(o)
             b == Len(w)
             s == o \o w
             places == {i \in DOMAIN s : s[i] \in S}
             Place(n) == CHOOSE i \in places : Cardinality({j \in places : j < i}) = n - 1
  <1>1. a \in Nat /\ b \in Nat /\ DOMAIN s = 1 .. a + b  OBVIOUS
  <1>2. /\ \A i \in 1 .. a : s[i] = o[i]
        /\ \A i \in a + 1 .. a + b : s[i] = w[i - a] /\ i - a \in 1 .. b
        /\ w = [n \in 1 .. b |-> w[n]]
    OBVIOUS
  <1>3. places = a + 1 .. a + b  BY <1>1, <1>2
  <1>7. Among(s, S) = [n \in 1 .. Cardinality(places) |-> s[Place(n)]]  BY DEF Among
  <1> HIDE DEF a, b, s
  <1> HIDE DEF places
  <1>4. Cardinality(places) = b  BY <1>1, <1>3, CountFrom
  <1>5. ASSUME NEW n \in Nat, a + n \in places
        PROVE  Cardinality({j \in places : j < a + n}) = n - 1
    <2>1. n - 1 \in Nat  BY <1>1, <1>3, <1>5
    <2>2. {j \in places : j < a + n} = a + 1 .. a + (n - 1)  BY <1>1, <1>3, <1>5
    <2> QED  BY <1>1, <2>1, <2>2, CountFrom
  <1>6. ASSUME NEW n \in 1 .. b PROVE Place(n) = a + n
    <2>1. a + n \in places /\ n \in Nat  BY <1>1, <1>3
    <2>2. Cardinality({j \in places : j < a + n}) = n - 1  BY <1>5, <2>1
    <2>3. Place(n) \in places /\ Cardinality({j \in places : j < Place(n)}) = n - 1
      BY <2>1, <2>2
    <2> HIDE DEF Place
    <2>4. PICK m \in Nat : Place(n) = a + m
      <3>1. Place(n) \in Int /\ Place(n) >= a + 1  BY <1>1, <1>3, <2>3
      <3>2. Place(n) - a \in Nat /\ Place(n) = a + (Place(n) - a)  BY <1>1, <3>1
      <3> QED  BY <3>2
    <2>5. m - 1 = n - 1  BY <1>5, <2>3, <2>4
    <2> QED  BY <2>1, <2>4, <2>5
  <1>8. ASSUME NEW n \in 1 .. b PROVE s[Place(n)] = w[n]
    <2>1. a + n \in a + 1 .. a + b /\ (a + n) - a = n  BY <1>1
    <2> HIDE DEF Place
    <2> QED  BY <1>2, <1>6, <2>1
  <1> HIDE DEF Place
  <1>9. Among(s, S) = [n \in 1 .. b |-> w[n]]  BY <1>4, <1>7, <1>8
  <1> QED  BY <1>2, <1>9 DEF s

\* To take checks out of a tally leaves the entries of the others as they are.
LEMMA DropCurrent ==
  ASSUME NEW t, NEW u, Tally(t), Tally(u), Current(t), NEW gone,
         \A k \in Checks : u.runs[k] = IF k \in gone THEN <<>> ELSE t.runs[k],
         u.changing = t.changing, u.writeCalls = t.writeCalls, u.ctx = t.ctx,
         u.entries = [k \in DOMAIN t.entries \ gone |-> t.entries[k]]
  PROVE  Current(u)
  <1> DEFINE x == Lasts(t)
             y == Lasts(u)
  <1>1. /\ DOMAIN x \subseteq Checks /\ DOMAIN y \subseteq Checks
        /\ \A k \in Checks : k \in DOMAIN x
                               <=> \E i \in DOMAIN t.runs[k] : ~t.runs[k][i].background
        /\ \A k \in Checks : k \in DOMAIN y
                               <=> \E i \in DOMAIN u.runs[k] : ~u.runs[k][i].background
        /\ \A k \in DOMAIN x : x[k] = Latest(t.runs[k])
        /\ \A k \in DOMAIN y : y[k] = Latest(u.runs[k])
    BY LastsIs
  <1> HIDE DEF x, y
  <1>2. ASSUME NEW k PROVE k \in DOMAIN y <=> k \in DOMAIN x /\ k \notin gone
    <2>1. CASE k \in gone /\ k \in Checks
      <3>1. u.runs[k] = <<>>  BY <2>1
      <3> QED  BY <1>1, <2>1, <3>1
    <2>2. CASE k \notin gone /\ k \in Checks
      <3>1. u.runs[k] = t.runs[k]  BY <2>2
      <3> QED  BY <1>1, <2>2, <3>1
    <2> QED  BY <1>1, <2>1, <2>2
  <1>3. \A k \in DOMAIN y : y[k] = x[k] /\ u.runs[k] = t.runs[k]
    BY <1>1, <1>2
  <1>4. \A k \in DOMAIN y : CoveredBy(y, k) \subseteq CoveredBy(x, k)
    BY <1>2, <1>3 DEF CoveredBy
  <1>5. ASSUME NEW k \in DOMAIN u.entries
        PROVE  k \in Standing(t) /\ k \in Standing(u) /\ u.entries[k] = EntryOf(u, k)
    <2>1. k \in DOMAIN t.entries /\ k \notin gone /\ u.entries[k] = t.entries[k]
      BY <1>5
    <2>2. k \in Standing(t) /\ t.entries[k] = EntryOf(t, k)  BY <2>1 DEF Current
    <2>3. k \in DOMAIN x /\ CoveredBy(x, k) = {}  BY <2>2 DEF Standing, x
    <2>4. k \in DOMAIN y /\ CoveredBy(y, k) = {}  BY <1>2, <1>4, <2>1, <2>3
    <2>5. k \in Standing(u)  BY <2>4 DEF Standing, y
    <2>6. y[k] = x[k] /\ u.runs[k] = t.runs[k]  BY <1>3, <2>4
    <2>7. \A b : CheckEntry(u, y[k], b) = CheckEntry(t, y[k], b)  BY DEF CheckEntry
    <2>8. CASE x[k].result = "failed" \/ x[k].result = "passed"
      <3>1. \A b, e : CheckEntry(t, x[k], b) = CheckEntry(t, x[k], e)
        BY <2>8 DEF CheckEntry
      <3>2. EntryOf(u, k) = EntryOf(t, k)  BY <2>6, <2>7, <3>1 DEF EntryOf, x, y
      <3> QED  BY <2>1, <2>2, <2>5, <3>2
    <2>9. CASE x[k].result # "failed" /\ x[k].result # "passed"
      <3>1. Joins(x, k) = {} /\ Joins(y, k) = {}  BY <2>6, <2>9 DEF Joins, CoveredBy
      <3>2. FailedEarlier(u, y, k) = FailedEarlier(t, x, k)
        BY <2>6, <3>1 DEF FailedEarlier
      <3>3. EntryOf(u, k) = EntryOf(t, k)  BY <2>6, <2>7, <3>2 DEF EntryOf, x, y
      <3> QED  BY <2>1, <2>2, <2>5, <3>3
    <2> QED  BY <2>8, <2>9
  <1> QED  BY <1>5 DEF Current

LEMMA PureCtx ==
  ASSUME NEW calls \in Seq(Called), NEW ctx
  PROVE  \A i \in 0 .. Len(calls) : Pure(calls, ctx)[i].ctx = ctx
  <1> DEFINE p == Pure(calls, ctx)
             A == {i \in Nat : p[i].ctx = ctx}
  <1>1. /\ p[0] = Blank(ctx) /\ \A i \in 1 .. Len(calls) : p[i] = Add(p[i - 1], calls[i])
        /\ \A i \in 0 .. Len(calls) : Tally(p[i])
    BY PureIs
  <1> HIDE DEF p
  <1>2. 0 \in A  BY <1>1 DEF Blank
  <1>3. ASSUME NEW i \in 0 .. Len(calls) - 1, i \in A PROVE i + 1 \in A
    <2>1. /\ i + 1 \in 1 .. Len(calls) /\ i \in 0 .. Len(calls) /\ (i + 1) - 1 = i
          /\ i + 1 \in Nat
      OBVIOUS
    <2>2. p[i + 1] = Add(p[i], calls[i + 1]) /\ Tally(p[i]) /\ IsCall(calls[i + 1])
      BY <1>1, <2>1, CalledIs
    <2>3. Adds(p[i], calls[i + 1], p[i + 1])  BY <2>2, AddIs
    <2>4. p[i + 1].ctx = p[i].ctx  BY <2>3 DEF Adds
    <2> QED  BY <1>3, <2>1, <2>4
  <1> HIDE DEF A
  <1>4. Len(calls) \in Nat  OBVIOUS
  <1>5. 0 .. Len(calls) \subseteq A  BY <1>2, <1>3, <1>4, Onward
  <1> QED  BY <1>5 DEF A, p

\* What is known of what a scan could and could not read.
Contexts == [from : Nat, person : Nat, unread : BOOLEAN, missing : BOOLEAN,
             children : BOOLEAN, done : SUBSET Nat]

\* The base a replay begins from when n calls are no longer read.
Rid(t, effects, old, ctx) ==
  [Dropped(t, effects) EXCEPT
     !.ctx = ctx, !.entries = IF old.from # ctx.from THEN << >> ELSE @]

IsRid(u, t, gone, old, ctx) ==
  /\ Fields(u) /\ u.ctx = ctx /\ u.writes = t.writes /\ u.outside = t.outside
  /\ u.writeCalls = t.writeCalls /\ u.launches = t.launches /\ u.seq = t.seq
  /\ u.changing = t.changing /\ u.lastChange = t.lastChange
  /\ u.runs = [k \in Checks |-> IF k \in gone THEN <<>> ELSE t.runs[k]]
  /\ u.order = Among(t.order, Checks \ gone)
  /\ u.entries = IF old.from # ctx.from THEN << >>
                 ELSE [k \in DOMAIN t.entries \ gone |-> t.entries[k]]

LEMMA RidIs ==
  ASSUME NEW t, Tally(t), NEW effects, NEW old, NEW ctx
  PROVE  IsRid(Rid(t, effects, old, ctx), t, {effects[i].check : i \in DOMAIN effects},
               old, ctx)
  <1> DEFINE gone == {effects[i].check : i \in DOMAIN effects}
             v == Dropped(t, effects)
             u == Rid(t, effects, old, ctx)
  <1>1. Fields(t)  BY DEF Tally
  <1> HIDE DEF gone
  <1>2. v = [t EXCEPT !.runs = [k \in Checks |-> IF k \in gone THEN <<>> ELSE t.runs[k]],
                      !.order = Among(t.order, Checks \ gone),
                      !.entries = [k \in DOMAIN t.entries \ gone |-> t.entries[k]]]
    BY <1>1 DEF Dropped, Fields, gone
  <1> HIDE DEF v
  <1>3. /\ Fields(v) /\ v.writes = t.writes /\ v.outside = t.outside
        /\ v.writeCalls = t.writeCalls /\ v.launches = t.launches /\ v.seq = t.seq
        /\ v.changing = t.changing /\ v.lastChange = t.lastChange
        /\ v.runs = [k \in Checks |-> IF k \in gone THEN <<>> ELSE t.runs[k]]
        /\ v.order = Among(t.order, Checks \ gone)
        /\ v.entries = [k \in DOMAIN t.entries \ gone |-> t.entries[k]]
    BY <1>1, <1>2 DEF Fields
  <1>4. u = [v EXCEPT !.ctx = ctx,
                      !.entries = IF old.from # ctx.from THEN << >> ELSE v.entries]
    BY <1>3 DEF Rid, Fields, v
  <1> HIDE DEF u
  <1>5. /\ Fields(u) /\ u.ctx = ctx /\ u.writes = v.writes /\ u.outside = v.outside
        /\ u.writeCalls = v.writeCalls /\ u.launches = v.launches /\ u.seq = v.seq
        /\ u.changing = v.changing /\ u.lastChange = v.lastChange /\ u.runs = v.runs
        /\ u.order = v.order
        /\ u.entries = IF old.from # ctx.from THEN << >> ELSE v.entries
    BY <1>3, <1>4 DEF Fields
  <1>6. IsRid(u, t, gone, old, ctx)  BY <1>3, <1>5 DEF IsRid
  <1> QED  BY <1>6 DEF gone, u

LEMMA ShiftTwice ==
  ASSUME NEW h \in Seq(Run), NEW d \in Nat, NEW e \in Nat
  PROVE  Shift(Shift(h, e), d) = Shift(h, d + e)
  <1>1. ASSUME NEW q \in Run PROVE Delayed(Delayed(q, e), d) = Delayed(q, d + e)
    <2>1. q.seq \in Nat /\ (q.seq + e) + d = q.seq + (d + e)  BY DEF Run
    <2>2. Delayed(q, e).seq = q.seq + e /\ Delayed(q, e) \in Run  BY DelayedIs
    <2>3. Delayed(Delayed(q, e), d) = [q EXCEPT !.seq = (q.seq + e) + d]
      BY DEF Delayed, Run
    <2>4. Delayed(q, d + e) = [q EXCEPT !.seq = q.seq + (d + e)]  BY DEF Delayed
    <2> QED  BY <2>1, <2>3, <2>4
  <1>2. DOMAIN Shift(h, e) = DOMAIN h /\ \A i \in DOMAIN h : Shift(h, e)[i] = Delayed(h[i], e)
    BY ShiftIs
  <1>3. \A i \in DOMAIN h : h[i] \in Run  OBVIOUS
  <1>4. \A i \in DOMAIN h : Delayed(Shift(h, e)[i], d) = Delayed(h[i], d + e)
    BY <1>1, <1>2, <1>3
  <1>5. Shift(Shift(h, e), d) = [i \in DOMAIN h |-> Delayed(Shift(h, e)[i], d)]
    BY <1>2 DEF Shift
  <1>6. Shift(h, d + e) = [i \in DOMAIN h |-> Delayed(h[i], d + e)]  BY DEF Shift
  <1> QED  BY <1>4, <1>5, <1>6

Further(g, h, n, d) == Shift(g \o Shift(h, n), d)

OneIsAll(g, h, n, d) ==
  /\ Len(Further(g, h, n, d)) = 1 /\ g # <<>> => h = <<>>
  /\ g = <<>> => Further(g, h, n, d) = Shift(h, d + n)

LEMMA ShiftHeaded ==
  ASSUME NEW g \in Seq(Run), NEW h \in Seq(Run), NEW d \in Nat, NEW n \in Nat
  PROVE  OneIsAll(g, h, n, d)
  <1> DEFINE x == Further(g, h, n, d)
  <1>1. Shift(h, n) \in Seq(Run) /\ Len(Shift(h, n)) = Len(h)  BY ShiftIs
  <1>2. g \o Shift(h, n) \in Seq(Run) /\ Len(g \o Shift(h, n)) = Len(g) + Len(h)
    BY <1>1
  <1>6. x = Shift(g \o Shift(h, n), d)  BY DEF Further
  <1>3. x \in Seq(Run) /\ Len(x) = Len(g) + Len(h)  BY <1>2, <1>6, ShiftIs
  <1>4. ASSUME g = <<>> PROVE x = Shift(h, d + n)
    <2>1. g \o Shift(h, n) = Shift(h, n)  BY <1>1, <1>4
    <2> QED  BY <1>6, <2>1, ShiftTwice
  <1>5. ASSUME Len(x) = 1, g # <<>> PROVE h = <<>>
    <2>1. Len(g) \in Nat /\ Len(g) # 0 /\ Len(h) \in Nat  BY <1>5
    <2>2. Len(h) = 0  BY <1>3, <1>5, <2>1
    <2> QED  BY <2>2
  <1> QED  BY <1>3, <1>4, <1>5 DEF OneIsAll

\* A base without its head is what a replay without those calls comes to.
LEMMA RidBase ==
  ASSUME NEW t, NEW u, NEW p, NEW q, NEW h, Tally(t), Tally(p), Tally(q), Tally(h),
         NEW d \in Nat, NEW n \in Nat, Like(t, p, d),
         Headed(h.runs, h.order), Beyond(p, q, n, h.runs, h.order),
         NEW gone, NEW old, IsRid(u, t, gone, old, q.ctx),
         \A k \in Checks : k \in gone <=> h.runs[k] # <<>>,
         \A k \in Checks : k \in gone => Len(t.runs[k]) = 1
  PROVE  Tally(u) /\ Like(u, q, d + n)
  <1>1. ASSUME NEW k \in Checks
        PROVE  /\ h.runs[k] \in Seq(Run) /\ q.runs[k] \in Seq(Run)
               /\ t.runs[k] = Further(h.runs[k], q.runs[k], n, d)
    BY DEF Tally, Like, Beyond, Further
  <1>2. ASSUME NEW k \in Checks
        PROVE  /\ h.runs[k] # <<>> => q.runs[k] = <<>>
               /\ h.runs[k] = <<>> => t.runs[k] = Shift(q.runs[k], d + n)
    <2> DEFINE g == h.runs[k]
               r == q.runs[k]
               x == t.runs[k]
    <2>1. g \in Seq(Run) /\ r \in Seq(Run) /\ x = Further(g, r, n, d)  BY <1>1
    <2>2. g # <<>> => Len(x) = 1  OBVIOUS
    <2>4. d \in Nat /\ n \in Nat  OBVIOUS
    <2> HIDE DEF g, r, x
    <2>5. (Len(x) = 1 /\ g # <<>> => r = <<>>) /\ (g = <<>> => x = Shift(r, d + n))
      <3>1. OneIsAll(g, r, n, d)  BY ONLY <2>1, <2>4, ShiftHeaded
      <3> QED  BY <2>1, <3>1 DEF OneIsAll
    <2>3. (g # <<>> => r = <<>>) /\ (g = <<>> => x = Shift(r, d + n))
      BY ONLY <2>2, <2>5
    <2> QED  BY <2>3 DEF g, r, x
  <1>3. ASSUME NEW k \in Checks PROVE u.runs[k] = Shift(q.runs[k], d + n)
    <2>1. CASE k \in gone
      <3>1. u.runs[k] = <<>> /\ q.runs[k] = <<>>  BY <1>2, <2>1 DEF IsRid
      <3> QED  BY <3>1 DEF Shift
    <2>2. CASE k \notin gone  BY <1>2, <2>2 DEF IsRid
    <2> QED  BY <2>1, <2>2
  <1>4. u.order = q.order
    <2> DEFINE o == h.order
               w == q.order
               S == Checks \ gone
    <2>1. t.order = o \o w
      <3>1. \A k \in Checks : h.runs[k] # <<>> => q.runs[k] = <<>>  BY <1>2
      <3> QED  BY <3>1 DEF Like, Beyond
    <2>2. o \in Seq(Checks) /\ w \in Seq(Checks)  BY DEF Tally
    <2>3. ASSUME NEW i \in 1 .. Len(o) PROVE o[i] \notin S
      <3>1. o[i] \in Checks  BY <2>2
      <3>2. Contains(o, o[i])  BY DEF Contains
      <3> QED  BY <3>1, <3>2 DEF Headed
    <2>4. ASSUME NEW i \in 1 .. Len(w) PROVE w[i] \in S
      <3>1. w[i] \in Checks  BY <2>2
      <3>2. Contains(w, w[i])  BY DEF Contains
      <3>3. q.runs[w[i]] # <<>>  BY <3>1, <3>2 DEF Tally
      <3> QED  BY <1>2, <3>1, <3>3
    <2>6. u.order = Among(t.order, S)  BY DEF IsRid
    <2> HIDE DEF o, w, S
    <2>5. Among(o \o w, S) = w  BY <2>2, <2>3, <2>4, AmongTail
    <2> QED  BY <2>1, <2>5, <2>6 DEF w
  <1>5. u.seq = q.seq + (d + n) /\ u.changing = {s + (d + n) : s \in q.changing}
    <2>1. t.seq = p.seq + d /\ p.seq = q.seq + n /\ q.seq \in Nat /\ u.seq = t.seq
      BY DEF Like, Beyond, Tally, IsRid
    <2>2. /\ t.changing = {s + d : s \in p.changing} /\ u.changing = t.changing
          /\ p.changing = {s + n : s \in q.changing}
      BY DEF Like, Beyond, IsRid
    <2>3. q.changing \subseteq Nat
      <3>1. q.changing \subseteq 1 .. q.seq  BY DEF Tally
      <3> QED  BY <2>1, <3>1
    <2>4. \A s \in q.changing : (s + n) + d = s + (d + n)  BY <2>3
    <2>5. {s + d : s \in p.changing} = {s + (d + n) : s \in q.changing}
      BY <2>2, <2>4
    <2>6. u.seq = q.seq + (d + n)  BY <2>1
    <2> QED  BY <2>2, <2>5, <2>6
  <1>6. Like(u, q, d + n)
    <2>1. /\ u.writes = q.writes /\ u.outside = q.outside /\ u.writeCalls = q.writeCalls
          /\ u.launches = q.launches /\ u.lastChange = q.lastChange /\ u.ctx = q.ctx
      BY DEF Like, Beyond, IsRid
    <2> QED  BY <1>3, <1>4, <1>5, <2>1 DEF Like
  <1>7. Tally(u)
    <2>1. u.runs \in [Checks -> Seq(Run)]
      <3>1. \A k \in Checks : t.runs[k] \in Seq(Run)  BY DEF Tally
      <3>2. <<>> \in Seq(Run)  OBVIOUS
      <3>3. u.runs = [k \in Checks |-> IF k \in gone THEN <<>> ELSE t.runs[k]]  BY DEF IsRid
      <3> QED  BY <3>1, <3>2, <3>3
    <2>2. u.order \in Seq(Checks)  BY <1>4 DEF Tally
    <2>3. /\ u.seq \in Nat /\ u.changing \subseteq 1 .. u.seq /\ u.outside \in Nat
          /\ u.launches = [i \in 1 .. Len(u.launches) |-> u.launches[i]]
          /\ Len(u.launches) \in Nat /\ Fields(u)
      BY DEF Tally, IsRid
    <2>4. ASSUME NEW k \in Checks PROVE u.runs[k] # <<>> <=> Contains(u.order, k)
      <3> DEFINE r == q.runs[k]
      <3>1. r \in Seq(Run) /\ d + n \in Nat /\ u.runs[k] = Shift(r, d + n)  BY <1>1, <1>3
      <3>2. r # <<>> <=> Contains(q.order, k)  BY DEF Tally
      <3> HIDE DEF r
      <3>3. u.runs[k] = <<>> <=> r = <<>>  BY <3>1, ShiftIs
      <3> QED  BY <1>4, <3>2, <3>3
    <2> QED  BY <2>1, <2>2, <2>3, <2>4 DEF Tally
  <1> QED  BY <1>6, <1>7

Cut(calls, other, n, m) ==
  /\ n + m <= Len(calls) /\ m <= Len(other) /\ \A j \in 1 .. m : calls[n + j] = other[j]
HeadOf(effects, calls, n) ==
  DOMAIN effects = 1 .. n /\ \A i \in 1 .. n : effects[i].check = SafeOf(calls[i])
ReadFrom(old, ctx) == [old EXCEPT !.from = ctx.from] = ctx

LEMMA RidLike ==
  ASSUME NEW calls \in Seq(Called), NEW other \in Seq(Called),
         NEW old \in Contexts, NEW ctx \in Contexts, ReadFrom(old, ctx),
         NEW n \in Nat, NEW m \in Nat, Cut(calls, other, n, m),
         NEW t, Tally(t), Current(t), NEW d \in Nat, Like(t, Pure(calls, old)[n + m], d),
         NEW effects, HeadOf(effects, calls, n), Droppable(t, effects),
         NEW u, u = Rid(t, effects, old, ctx)
  PROVE  Tally(u) /\ Current(u) /\ Like(u, Pure(other, ctx)[m], d + n)
  <1> DEFINE p == Pure(calls, old)[n + m]
             h == Pure(calls, old)[n]
             q == Pure(other, ctx)[m]
             gone == {effects[i].check : i \in DOMAIN effects}
  <1> USE DEF Cut, HeadOf, ReadFrom
  <1>1. \A i \in 1 .. n : SafeOf(calls[i]) # "none"  BY DEF Droppable
  <1>2. HeadTally(h, calls, n)
    <2>1. n \in 0 .. Len(calls)  OBVIOUS
    <2> QED  BY <1>1, <2>1, HeadIs
  <1>3. Headed(h.runs, h.order) /\ Beyond(p, q, n, h.runs, h.order)
    BY <1>2, BeyondHead
  <1>4. /\ Tally(p) /\ Tally(h) /\ Tally(q) /\ p.ctx = old /\ q.ctx = ctx
    <2>1. n + m \in 0 .. Len(calls) /\ n \in 0 .. Len(calls) /\ m \in 0 .. Len(other)
      OBVIOUS
    <2> QED  BY <2>1, PureIs, PureCtx
  <1>5. IsRid(u, t, gone, old, ctx)  BY RidIs
  <1>6. Like(t, p, d)  OBVIOUS
  <1>7. ASSUME NEW k \in Checks PROVE k \in gone <=> h.runs[k] # <<>>
    <2>1. h.runs[k] # <<>> <=> \E i \in 1 .. n : SafeOf(calls[i]) = k  BY <1>2 DEF HeadTally
    <2>2. k \in gone <=> \E i \in DOMAIN effects : effects[i].check = k  OBVIOUS
    <2>3. DOMAIN effects = 1 .. n /\ \A i \in 1 .. n : effects[i].check = SafeOf(calls[i])
      OBVIOUS
    <2> QED  BY ONLY <2>1, <2>2, <2>3
  <1>8. \A k \in Checks : k \in gone => Len(t.runs[k]) = 1  BY DEF Droppable
  <1> HIDE DEF p, h, q, gone
  <1>9. Tally(u) /\ Like(u, q, d + n)
    <2>1. IsRid(u, t, gone, old, q.ctx)  BY <1>4, <1>5
    <2>2. Tally(t) /\ d \in Nat /\ n \in Nat  OBVIOUS
    <2> QED  BY ONLY <1>3, <1>4, <1>6, <1>7, <1>8, <2>1, <2>2, RidBase
  <1>10. Current(u)
    <2>1. CASE old.from # ctx.from  BY <1>5, <2>1 DEF Current, IsRid
    <2>2. CASE old.from = ctx.from
      <3>1. old = ctx  BY <2>2 DEF Contexts
      <3>2. u.ctx = t.ctx  BY <1>4, <1>5, <1>6, <3>1 DEF Like, IsRid
      <3>3. \A k \in Checks : u.runs[k] = IF k \in gone THEN <<>> ELSE t.runs[k]
        BY <1>5 DEF IsRid
      <3>4. u.entries = [k \in DOMAIN t.entries \ gone |-> t.entries[k]]
        BY <1>5, <2>2 DEF IsRid
      <3>5. u.changing = t.changing /\ u.writeCalls = t.writeCalls  BY <1>5 DEF IsRid
      <3>6. Tally(t) /\ Current(t)  OBVIOUS
      <3> QED  BY ONLY <1>9, <3>2, <3>3, <3>4, <3>5, <3>6, DropCurrent
    <2> QED  BY <2>1, <2>2
  <1> QED  BY <1>9, <1>10 DEF q
-----------------------------------------------------------------------------
\* Tallies begun where a replay from nothing would be go on as it does: every level
\* asked of them, and what every call added, are the same.
RunsOn(at, calls, ctx, start, asking, d) ==
  /\ \A i \in start .. Len(calls) :
       /\ Tally(at[i]) /\ Current(at[i]) /\ Like(at[i], Pure(calls, ctx)[i], d)
       /\ i \in asking => /\ \A on : LiveLevel(at[i], Listed(at[i]), on)
                                       = LevelAt(Pure(calls, ctx)[i], on)
                          /\ Listed(at[i]) = ListOf(Pure(calls, ctx)[i])
  /\ \A i \in start + 1 .. Len(calls) : Effect(at[i - 1], at[i]).check = SafeOf(calls[i])

LEMMA StageLevel ==
  ASSUME NEW t, NEW p, NEW x, NEW d \in Nat, Tally(t), Current(t), Tally(p), Current(p),
         Like(t, p, d), x = Asked(t)
  PROVE  (\A on : LiveLevel(x, Listed(x), on) = LevelAt(p, on)) /\ Listed(x) = ListOf(p)
  <1>1. ListOf(t) = ListOf(p) /\ \A on : LevelAt(t, on) = LevelAt(p, on)  BY LevelLike
  <1> QED  BY <1>1 DEF ListOf, LevelAt

LEMMA RunOn ==
  ASSUME NEW calls \in Seq(Called), NEW ctx, NEW start \in 0 .. Len(calls), NEW asking,
         NEW t, Tally(t), Current(t), NEW d \in Nat, Like(t, Pure(calls, ctx)[start], d)
  PROVE  RunsOn(Tallies(t, calls, start, asking), calls, ctx, start, asking, d)
  <1> DEFINE at == Tallies(t, calls, start, asking)
             p == Pure(calls, ctx)
             n == Len(calls)
  <1>1. Staged(at, t, calls, start, asking)  BY TalliesIs
  <1>2. /\ Goes(p, calls, 0, n) /\ \A i \in 0 .. n : Tally(p[i]) /\ Current(p[i])
        /\ \A i \in 1 .. n : p[i] = Add(p[i - 1], calls[i])
    BY PureIs
  <1>3. n \in Nat /\ start \in Nat /\ start <= n  OBVIOUS
  <1>4. \A i \in 1 .. n : IsCall(calls[i])  BY CalledIs
  <1>5. Like(t, p[start], d)  OBVIOUS
  <1> HIDE DEF at, p, n
  <1>6. Goes(at, calls, start, n)  BY <1>1, StagedGoes DEF n
  <1>7. Goes(p, calls, start, n)
    <2>1. \A i \in start + 1 .. n : i \in 0 + 1 .. n  BY <1>3
    <2> QED  BY <1>2, <2>1 DEF Goes
  <1>8. (start \in asking) \in BOOLEAN /\ at[start] = Start(t, start \in asking)
    BY <1>1 DEF Staged
  <1>9. Tally(at[start]) /\ Current(at[start]) /\ Like(at[start], p[start], d)
    <2>1. /\ Tally(at[start]) /\ Current(at[start]) /\ Alike(at[start], t)
      BY <1>8, StartKept
    <2> QED  BY <1>5, <2>1 DEF Like, Alike
  <1>10. \A i \in start + 1 .. n : IsCall(calls[i])
    <2>1. \A i \in start + 1 .. n : i \in 1 .. n  BY <1>3
    <2> QED  BY <1>4, <2>1
  <1>11. start \in 0 .. n /\ Tally(p[start])  BY <1>2, <1>3
  <1>12. \A i \in start .. n : Tally(at[i]) /\ Current(at[i])
    BY <1>3, <1>6, <1>9, <1>10, GoesKept
  <1>13. \A i \in start .. n : Like(at[i], p[i], d)
    BY <1>3, <1>6, <1>7, <1>9, <1>10, <1>11, GoesLike
  <1>14. ASSUME NEW i \in start + 1 .. n
         PROVE  /\ i \in start .. n /\ i - 1 \in start .. n /\ i \in 1 .. n
                /\ i \in 0 .. n /\ i - 1 \in 0 .. n
                /\ at[i] = Then(at[i - 1], calls[i], i \in asking)
                /\ Tally(at[i - 1]) /\ Current(at[i - 1]) /\ IsCall(calls[i])
    <2>1. /\ i \in start .. n /\ i - 1 \in start .. n /\ i \in 1 .. n
          /\ i \in 0 .. n /\ i - 1 \in 0 .. n
      BY <1>3
    <2>2. at[i] = Then(at[i - 1], calls[i], i \in asking)  BY <1>1 DEF Staged, n
    <2> QED  BY <1>10, <1>12, <2>1, <2>2
  <1>15. ASSUME NEW i \in start .. n, i \in asking
         PROVE  /\ \A on : LiveLevel(at[i], Listed(at[i]), on) = LevelAt(p[i], on)
                /\ Listed(at[i]) = ListOf(p[i])
    <2>1. Tally(p[i]) /\ Current(p[i])
      <3>1. i \in 0 .. n  BY <1>3
      <3> QED  BY <1>2, <3>1
    <2>2. CASE i = start
      <3>1. at[i] = Asked(t)  BY <1>8, <1>15, <2>2 DEF Start
      <3>2. Like(t, p[i], d)  BY <1>5, <2>2
      <3> QED  BY <2>1, <3>1, <3>2, StageLevel
    <2>3. CASE i # start
      <3> DEFINE u == Add(at[i - 1], calls[i])
      <3>1. i \in start + 1 .. n  BY <1>3, <2>3
      <3>2. at[i] = Asked(u) /\ Tally(at[i - 1]) /\ Current(at[i - 1]) /\ IsCall(calls[i])
        BY <1>14, <1>15, <3>1 DEF Then
      <3>3. Tally(u) /\ Current(u)  BY <3>2, AddKept, AddCurrent
      <3>4. Like(u, p[i], d)
        <4>1. p[i] = Add(p[i - 1], calls[i]) /\ Tally(p[i - 1])  BY <1>2, <1>14, <3>1
        <4>2. Like(at[i - 1], p[i - 1], d)  BY <1>13, <1>14, <3>1
        <4> QED  BY <3>2, <4>1, <4>2, AddLike
      <3> HIDE DEF u
      <3> QED  BY <2>1, <3>2, <3>3, <3>4, StageLevel
    <2> QED  BY <2>2, <2>3
  <1>16. ASSUME NEW i \in start + 1 .. n
         PROVE  Effect(at[i - 1], at[i]).check = SafeOf(calls[i])
    <2>1. /\ at[i] = Then(at[i - 1], calls[i], i \in asking)
          /\ Tally(at[i - 1]) /\ Current(at[i - 1]) /\ IsCall(calls[i])
      BY <1>14
    <2>2. (i \in asking) \in BOOLEAN  OBVIOUS
    <2>3. Alike(at[i], Add(at[i - 1], calls[i]))  BY <2>1, <2>2, ThenKept
    <2> QED  BY <2>1, <2>3, EffectIs
  <1>17. RunsOn(at, calls, ctx, start, asking, d)
    BY <1>12, <1>13, <1>15, <1>16 DEF RunsOn, p, n
  <1> QED  BY <1>17 DEF at
-----------------------------------------------------------------------------
LEMMA MaxIs ==
  ASSUME NEW a \in Int, NEW b \in Int
  PROVE  Max({a, b}) = IF a >= b THEN a ELSE b
  <1> DEFINE S == {a, b}
             m == IF a >= b THEN a ELSE b
  <1>1. m \in S /\ \A y \in S : m >= y  OBVIOUS
  <1>2. \A x \in S : (\A y \in S : x >= y) => x = m  OBVIOUS
  <1> HIDE DEF S, m
  <1>3. Max(S) = m  BY <1>1, <1>2 DEF Max
  <1> QED  BY <1>3 DEF S, m

LEMMA FirstIs ==
  ASSUME NEW calls, Len(calls) \in Nat
  PROVE  /\ First(calls) \in 0 .. Len(calls)
         /\ First(calls) = IF Len(calls) > ReplaySteps THEN Len(calls) - ReplaySteps ELSE 0
  <1> DEFINE n == Len(calls) - ReplaySteps
  <1>1. ReplaySteps \in Nat /\ n \in Int /\ 0 \in Int  BY LiveEstimateAssumption
  <1>2. Max({0, n}) = IF 0 >= n THEN 0 ELSE n  BY <1>1, MaxIs
  <1>3. First(calls) = Max({0, n})  BY DEF First
  <1> QED  BY <1>1, <1>2, <1>3

\* A tally that is where a replay from nothing would be, and what its head added.
Near(t, p) == Tally(t) /\ Current(t) /\ \E d \in Nat : Like(t, p, d)
Heads(safe, calls, n) ==
  /\ safe = [i \in 1 .. n |-> safe[i]]
  /\ \A i \in 1 .. n : safe[i].check = SafeOf(calls[i])

\* A step holds the level of a tally, by the folders it was asked with.
Judged(step, t) ==
  /\ step.on \subseteq DOMAIN Inside
  /\ step = Step(LevelAt(t, step.on), step.on)

\* A replay that may be kept: the levels of its window are those of a replay from
\* nothing, and so are the tallies it may be gone on from.
Coherent(e) ==
  LET n == Len(e.marks)
      f == First(e.marks)
      p == Pure(e.marks, e.context)
  IN /\ e.marks \in Seq(Called) /\ e.context \in Contexts
     /\ e.steps = [i \in f .. n |-> e.steps[i]]
     /\ \A i \in f .. n : Judged(e.steps[i], p[i])
     /\ e.level = e.steps[n].level
     /\ e.rose = Rose(e.steps, e.marks, ListOf(p[n]))
     /\ Near(e.base, p[f]) /\ Near(e.final, p[n]) /\ Heads(e.safe, e.marks, f)

\* Where a replay may begin.
Seeded(seed, calls, ctx) ==
  LET n == Len(calls)
      f == First(calls)
      p == Pure(calls, ctx)
  IN /\ seed.start \in 0 .. n /\ Near(seed.tally, p[seed.start])
     /\ DOMAIN seed.steps \subseteq f .. n - 1
     /\ \A i \in DOMAIN seed.steps : Judged(seed.steps[i], p[i])
     /\ \/ /\ seed.start <= f /\ Heads(seed.safe, calls, seed.start)
           /\ seed.base = seed.tally
        \/ /\ seed.start >= f /\ Heads(seed.safe, calls, f) /\ Near(seed.base, p[f])
           /\ DOMAIN seed.steps = f .. seed.start

LEMMA EffectsHeads ==
  ASSUME NEW at, NEW calls, NEW start \in Nat, NEW first \in Nat, start <= first,
         NEW safe, Heads(safe, calls, start),
         \A i \in start + 1 .. first : Effect(at[i - 1], at[i]).check = SafeOf(calls[i])
  PROVE  Heads(safe \o Effects(at, start, first), calls, first)
  <1> DEFINE g == Effects(at, start, first)
             m == first - start
             s == safe \o g
  <1>1. m \in Nat /\ start + m = first  OBVIOUS
  <1>2. g = [i \in 1 .. m |-> Effect(at[start + i - 1], at[start + i])]  BY DEF Effects
  <1>3. safe = [i \in 1 .. start |-> safe[i]]  BY DEF Heads
  <1>4. g = [i \in 1 .. m |-> g[i]]  BY <1>2
  <1> HIDE DEF g, m
  <1>5. s = [i \in 1 .. start + m |-> IF i <= start THEN safe[i] ELSE g[i - start]]
    BY <1>1, <1>3, <1>4, ConcatIs
  <1> HIDE DEF s
  <1>6. s = [i \in 1 .. first |-> s[i]]  BY <1>1, <1>5
  <1>7. ASSUME NEW i \in 1 .. first PROVE s[i].check = SafeOf(calls[i])
    <2>1. CASE i <= start
      <3>1. s[i] = safe[i] /\ i \in 1 .. start  BY <1>1, <1>5, <2>1
      <3> QED  BY <3>1 DEF Heads
    <2>2. CASE i > start
      <3>1. s[i] = g[i - start] /\ i - start \in 1 .. m  BY <1>1, <1>5, <2>2
      <3>2. start + (i - start) = i /\ i \in start + 1 .. first  BY <2>2
      <3>3. g[i - start] = Effect(at[start + (i - start) - 1], at[start + (i - start)])
        BY <1>2, <3>1
      <3> QED  BY <3>1, <3>2, <3>3
    <2> QED  BY <2>1, <2>2
  <1> QED  BY <1>6, <1>7 DEF Heads, s, g

LEMMA EffectsNone ==
  ASSUME NEW at, NEW calls, NEW start \in Nat, NEW first \in Nat, first <= start,
         NEW safe, NEW n \in Nat, Heads(safe, calls, n)
  PROVE  Heads(safe \o Effects(at, start, first), calls, n)
  <1> DEFINE g == Effects(at, start, first)
  <1>1. g = [i \in 1 .. 0 |-> g[i]]
    <2>1. 1 .. first - start = 1 .. 0  OBVIOUS
    <2> QED  BY <2>1 DEF Effects
  <1>2. safe = [i \in 1 .. n |-> safe[i]]  BY DEF Heads
  <1> HIDE DEF g
  <1>3. safe \o g = [i \in 1 .. n + 0 |-> IF i <= n THEN safe[i] ELSE g[i - n]]
    BY <1>1, <1>2, ConcatIs
  <1>4. safe \o g = [i \in 1 .. n |-> safe[i]]  BY <1>3
  <1>5. safe \o g = safe  BY <1>2, <1>4
  <1> QED  BY <1>5 DEF g

LEMMA LoopCoherent ==
  ASSUME NEW calls \in Seq(Called), NEW ctx \in Contexts, NEW seed, Seeded(seed, calls, ctx),
         NEW on \in SUBSET DOMAIN Inside
  PROVE  Coherent(Found(Loop(seed, calls, on), calls, ctx))
  <1> DEFINE n == Len(calls)
             f == First(calls)
             p == Pure(calls, ctx)
             start == seed.start
             asking == (Max({f, start}) .. n) \ DOMAIN seed.steps
             at == Tallies(seed.tally, calls, start, asking)
             end == Loop(seed, calls, on)
             e == Found(end, calls, ctx)
  <1>1. n \in Nat /\ f \in 0 .. n  BY FirstIs
  <1>2. start \in 0 .. n /\ Near(seed.tally, p[start])  BY DEF Seeded
  <1>3. PICK d \in Nat : Like(seed.tally, p[start], d)  BY <1>2 DEF Near
  <1>4. RunsOn(at, calls, ctx, start, asking, d)
    BY <1>2, <1>3, RunOn DEF Near
  <1>5. /\ end.tally = at[n]
        /\ end.base = IF f > start \/ f \in asking THEN at[f] ELSE seed.base
        /\ end.steps = [i \in DOMAIN seed.steps \cup asking |->
                          IF i \in asking THEN Step(LiveLevel(at[i], Listed(at[i]), on), on)
                          ELSE seed.steps[i]]
        /\ end.safe = seed.safe \o Effects(at, start, f)
    BY DEF Loop
  <1>6. /\ e.marks = calls /\ e.context = ctx /\ e.steps = end.steps
        /\ e.level = end.steps[n].level
        /\ e.rose = Rose(end.steps, calls, Listed(end.tally))
        /\ e.base = end.base /\ e.safe = end.safe /\ e.final = end.tally
    BY DEF Found
  <1>7. /\ DOMAIN seed.steps \subseteq f .. n - 1
        /\ \A i \in DOMAIN seed.steps : Judged(seed.steps[i], p[i])
    BY DEF Seeded
  <1>8. Max({f, start}) = IF f >= start THEN f ELSE start
    BY <1>1, <1>2, MaxIs
  <1>20. /\ \A i \in start .. n : /\ Near(at[i], p[i])
                                  /\ i \in asking =>
                                       /\ LiveLevel(at[i], Listed(at[i]), on)
                                            = LevelAt(p[i], on)
                                       /\ Listed(at[i]) = ListOf(p[i])
         /\ \A i \in start + 1 .. n : Effect(at[i - 1], at[i]).check = SafeOf(calls[i])
    BY <1>4 DEF RunsOn, Near
  <1>21. \/ /\ start <= f /\ Heads(seed.safe, calls, start) /\ seed.base = seed.tally
         \/ /\ start >= f /\ Heads(seed.safe, calls, f) /\ Near(seed.base, p[f])
            /\ DOMAIN seed.steps = f .. start
    BY DEF Seeded
  <1>22. asking = (Max({f, start}) .. n) \ DOMAIN seed.steps  OBVIOUS
  <1> HIDE DEF n, f, p, start, at, end, e, asking
  <1>9. n \in asking /\ asking \subseteq start .. n /\ asking \subseteq f .. n
    <2> DEFINE m == Max({f, start})
    <2>1. m \in f .. n /\ m \in start .. n  BY <1>1, <1>2, <1>8
    <2>2. n \notin DOMAIN seed.steps  BY <1>1, <1>7
    <2> HIDE DEF m
    <2>3. asking = (m .. n) \ DOMAIN seed.steps  BY <1>22 DEF m
    <2> QED  BY <1>1, <1>2, <2>1, <2>2, <2>3
  <1>10. DOMAIN seed.steps \cup asking = f .. n
    <2>1. CASE start <= f  BY <1>1, <1>2, <1>7, <1>8, <1>22, <2>1
    <2>2. CASE start >= f /\ DOMAIN seed.steps = f .. start
      BY <1>1, <1>2, <1>7, <1>8, <1>22, <2>2
    <2> QED  BY <1>21, <2>1, <2>2
  <1>11. e.steps = [i \in f .. n |-> e.steps[i]] /\ \A i \in f .. n : Judged(e.steps[i], p[i])
    <2> DEFINE step(i) == IF i \in asking THEN Step(LiveLevel(at[i], Listed(at[i]), on), on)
                          ELSE seed.steps[i]
    <2>1. e.steps = [i \in f .. n |-> step(i)]  BY <1>5, <1>6, <1>10
    <2>2. ASSUME NEW i \in f .. n PROVE Judged(step(i), p[i])
      <3>1. CASE i \in asking
        <4>1. step(i) = Step(LevelAt(p[i], on), on)  BY <1>9, <1>20, <3>1
        <4> QED  BY <4>1 DEF Judged, Step
      <3>2. CASE i \notin asking
        <4>1. step(i) = seed.steps[i] /\ i \in DOMAIN seed.steps  BY <1>10, <3>2
        <4> QED  BY <1>7, <4>1
      <3> QED  BY <3>1, <3>2
    <2> HIDE DEF step
    <2> QED  BY <2>1, <2>2
  <1>12. e.level = e.steps[n].level /\ e.rose = Rose(e.steps, calls, ListOf(p[n]))
    <2>1. n \in start .. n  BY <1>1, <1>2
    <2>2. Listed(end.tally) = ListOf(p[n])  BY <1>5, <1>9, <1>20, <2>1
    <2> QED  BY <1>6, <2>2
  <1>13. Near(e.final, p[n])
    <2>1. n \in start .. n  BY <1>1, <1>2
    <2> QED  BY <1>5, <1>6, <1>20, <2>1
  <1>14. Near(e.base, p[f])
    <2>1. CASE f > start \/ f \in asking
      <3>1. f \in start .. n  BY <1>1, <1>2, <1>9, <2>1
      <3> QED  BY <1>5, <1>6, <1>20, <2>1, <3>1
    <2>2. CASE ~(f > start \/ f \in asking)
      <3>1. e.base = seed.base  BY <1>5, <1>6, <2>2
      <3>2. CASE start <= f /\ seed.base = seed.tally
        <4>1. start = f  BY <1>1, <1>2, <2>2, <3>2
        <4> QED  BY <1>2, <3>1, <3>2, <4>1
      <3>3. CASE Near(seed.base, p[f])  BY <3>1, <3>3
      <3> QED  BY <1>21, <3>2, <3>3
    <2> QED  BY <2>1, <2>2
  <1>15. Heads(e.safe, calls, f)
    <2>1. CASE start <= f /\ Heads(seed.safe, calls, start)
      <3>1. \A i \in start + 1 .. f : Effect(at[i - 1], at[i]).check = SafeOf(calls[i])
        BY <1>1, <1>2, <1>20
      <3>2. start \in Nat /\ f \in Nat  BY <1>1, <1>2
      <3>3. Heads(seed.safe \o Effects(at, start, f), calls, f)
        BY <2>1, <3>1, <3>2, EffectsHeads
      <3> QED  BY <1>5, <1>6, <3>3
    <2>2. CASE start >= f /\ Heads(seed.safe, calls, f)
      <3>1. start \in Nat /\ f \in Nat /\ f <= start  BY <1>1, <1>2, <2>2
      <3>2. Heads(seed.safe \o Effects(at, start, f), calls, f)
        BY <2>2, <3>1, EffectsNone
      <3> QED  BY <1>5, <1>6, <3>2
    <2> QED  BY <1>21, <2>1, <2>2
  <1>16. calls \in Seq(Called) /\ ctx \in Contexts  OBVIOUS
  <1>17. Coherent(e)
    <2>1. n = Len(e.marks) /\ f = First(e.marks) /\ p = Pure(e.marks, e.context)
      BY <1>6 DEF n, f, p
    <2> QED  BY <1>6, <1>11, <1>12, <1>13, <1>14, <1>15, <1>16, <2>1 DEF Coherent
  <1> QED  BY <1>17 DEF e, end
-----------------------------------------------------------------------------
Part(h, a, b) ==
  /\ SubSeq(h, a + 1, b) = [i \in 1 .. b - a |-> h[a + i]]
  /\ Len(SubSeq(h, a + 1, b)) = b - a
  /\ DOMAIN SubSeq(h, a + 1, b) = 1 .. b - a

LEMMA SubSeqIs ==
  ASSUME NEW h, NEW n \in Nat, h = [i \in 1 .. n |-> h[i]],
         NEW a \in Nat, NEW b \in Nat, a <= b, b <= n
  PROVE  Part(h, a, b)
  BY SMTT(20) DEF Part

LEMMA PrefixIs ==
  ASSUME NEW S, NEW g \in Seq(S), NEW h \in Seq(S), IsPrefix(g, h)
  PROVE  Len(g) <= Len(h) /\ \A i \in 1 .. Len(g) : g[i] = h[i]
  <1>1. Len(g) <= Len(h) /\ SubSeq(g, 1, Len(g)) = SubSeq(h, 1, Len(g))
    BY DEF IsPrefix
  <1>2. \A i \in 1 .. Len(g) : SubSeq(g, 1, Len(g))[i] = g[i]  OBVIOUS
  <1>3. \A i \in 1 .. Len(g) : SubSeq(h, 1, Len(g))[i] = h[i]  BY <1>1
  <1> QED  BY <1>1, <1>2, <1>3

LEMMA MaxSet ==
  ASSUME NEW n \in Nat, NEW S \in SUBSET (0 .. n), S # {}
  PROVE  Max(S) \in S /\ \A y \in S : Max(S) >= y
  <1> DEFINE A == {k \in Nat : (\E x \in S : x <= k)
                                 => \E x \in S : x <= k /\ \A y \in S : y <= k => x >= y}
  <1>1. 0 \in A  OBVIOUS
  <1>2. ASSUME NEW k \in Nat, k \in A PROVE k + 1 \in A
    <2>1. CASE k + 1 \in S
      <3>1. \A y \in S : y <= k + 1 => k + 1 >= y  OBVIOUS
      <3> QED  BY <2>1, <3>1
    <2>2. CASE k + 1 \notin S
      <3>1. \A x \in S : x <= k + 1 <=> x <= k  BY <2>2
      <3> QED  BY <1>2, <3>1
    <2> QED  BY <2>1, <2>2
  <1> HIDE DEF A
  <1>3. n \in A  BY <1>1, <1>2, Induction
  <1>4. \A x \in S : x <= n  OBVIOUS
  <1>5. \E x \in S : \A y \in S : x >= y  BY <1>3, <1>4 DEF A
  <1> QED  BY <1>5 DEF Max

LEMMA MinIs ==
  ASSUME NEW a \in Int, NEW b \in Int
  PROVE  Min({a, b}) = IF a <= b THEN a ELSE b
  <1> DEFINE S == {a, b}
             m == IF a <= b THEN a ELSE b
  <1>1. m \in S /\ \A y \in S : m <= y  OBVIOUS
  <1>2. \A x \in S : (\A y \in S : x <= y) => x = m  OBVIOUS
  <1> HIDE DEF S, m
  <1>3. Min(S) = m  BY <1>1, <1>2 DEF Min
  <1> QED  BY <1>3 DEF S, m

LEMMA NearSame ==
  ASSUME NEW ctx PROVE Near(Blank(ctx), Blank(ctx))
  BY BlankTally, BlankCurrent, LikeSelf DEF Near

\* The leading calls two replays share have the same tallies.
LEMMA ReusableIs ==
  ASSUME NEW old, old.marks \in Seq(Called), NEW calls \in Seq(Called)
  PROVE  /\ Reusable(old, calls) \in 0 .. Len(calls)
         /\ Reusable(old, calls) <= Len(old.marks)
         /\ \A i \in 1 .. Reusable(old, calls) : old.marks[i] = calls[i]
  <1> DEFINE n == Min({Len(old.marks), Len(calls)})
             T == {k \in 1 .. n : SubSeq(old.marks, 1, k) = SubSeq(calls, 1, k)}
             S == {0} \cup T
             r == Max(S)
  <1>1. n \in Nat /\ n <= Len(old.marks) /\ n <= Len(calls)  BY MinIs
  <1>2. S \in SUBSET (0 .. n) /\ S # {}  BY <1>1
  <1>3. r \in S
    <2> HIDE DEF S
    <2> QED  BY <1>1, <1>2, MaxSet
  <1>4. Reusable(old, calls) = r  BY DEF Reusable
  <1> HIDE DEF r, n
  <1>5. ASSUME r # 0 PROVE \A i \in 1 .. r : old.marks[i] = calls[i]
    <2>1. r \in 1 .. n /\ SubSeq(old.marks, 1, r) = SubSeq(calls, 1, r)  BY <1>3, <1>5
    <2>2. r \in Nat /\ r <= Len(old.marks) /\ r <= Len(calls)  BY <1>1, <2>1
    <2>3. \A i \in 1 .. r : /\ SubSeq(old.marks, 1, r)[i] = old.marks[i]
                            /\ SubSeq(calls, 1, r)[i] = calls[i]
      BY <2>2
    <2> QED  BY <2>1, <2>3
  <1>6. r \in 0 .. n  BY <1>1, <1>2, <1>3
  <1> QED  BY <1>1, <1>4, <1>5, <1>6

\* From nothing, with the steps that stand.
LEMMA KeptSeeded ==
  ASSUME NEW old, old = Nothing \/ Coherent(old), NEW calls \in Seq(Called),
         NEW ctx \in Contexts
  PROVE  Seeded(FromBase(Blank(ctx), <<>>, Kept(old, calls, ctx)), calls, ctx)
  <1> DEFINE n == Len(calls)
             f == First(calls)
             p == Pure(calls, ctx)
             steps == Kept(old, calls, ctx)
             seed == FromBase(Blank(ctx), <<>>, steps)
  <1>1. n \in Nat /\ f \in 0 .. n  BY FirstIs
  <1>2. p[0] = Blank(ctx)  BY PureIs
  <1>3. seed.start = 0 /\ seed.tally = Blank(ctx) /\ seed.steps = steps
        /\ seed.base = seed.tally /\ seed.safe = <<>>
    BY DEF FromBase
  <1>4. Near(seed.tally, p[seed.start])  BY <1>2, <1>3, NearSame
  <1>5. Heads(seed.safe, calls, seed.start)
    <2>1. <<>> = [i \in 1 .. 0 |-> <<>>[i]]  OBVIOUS
    <2> QED  BY <1>3, <2>1 DEF Heads
  <1>6. /\ DOMAIN steps \subseteq f .. n - 1
        /\ \A i \in DOMAIN steps : Judged(steps[i], p[i])
    <2>1. CASE old = Nothing \/ old.context # ctx  BY <2>1 DEF Kept
    <2>2. CASE ~(old = Nothing \/ old.context # ctx)
      <3> DEFINE r == Reusable(old, calls)
                 q == Pure(old.marks, ctx)
                 g == First(old.marks)
                 top == Min({r, n - 1})
                 old_n == Len(old.marks)
      <3>1. /\ Coherent(old) /\ old.context = ctx /\ old.marks \in Seq(Called)
            /\ old.steps = [i \in g .. old_n |-> old.steps[i]]
            /\ \A i \in g .. old_n : Judged(old.steps[i], q[i])
        BY <2>2 DEF Coherent
      <3>2. r \in 0 .. n /\ r <= old_n /\ \A i \in 1 .. r : old.marks[i] = calls[i]
        BY <3>1, ReusableIs
      <3>3. \A i \in 0 .. r : q[i] = p[i]
        <4>1. r \in Nat /\ r <= Len(old.marks) /\ r <= Len(calls)  BY <1>1, <3>2
        <4>2. /\ old.marks \in Seq(Called) /\ calls \in Seq(Called)
              /\ \A i \in 1 .. r : old.marks[i] = calls[i]
          BY <3>1, <3>2
        <4> HIDE DEF r
        <4> QED  BY ONLY <4>1, <4>2, PurePrefix
      <3>4. steps = [i \in DOMAIN old.steps \cap (f .. top) |-> old.steps[i]]
        BY <2>2 DEF Kept
      <3>5. top = IF r <= n - 1 THEN r ELSE n - 1
        <4>1. r \in Int /\ n - 1 \in Int  BY <1>1, <3>2
        <4> HIDE DEF r, n
        <4> QED  BY <4>1, MinIs
      <3> HIDE DEF r, q, g, top, old_n, n, f, p, steps
      <3>6. top <= n - 1 /\ top <= r /\ top \in Int  BY <1>1, <3>2, <3>5
      <3>7. DOMAIN steps = (g .. old_n) \cap (f .. top)  BY <3>1, <3>4
      <3>8. ASSUME NEW i \in DOMAIN steps PROVE Judged(steps[i], p[i])
        <4>1. i \in g .. old_n /\ i \in f .. top  BY <3>7
        <4>2. i \in 0 .. r  BY <1>1, <3>2, <3>6, <4>1
        <4>3. steps[i] = old.steps[i] /\ Judged(old.steps[i], q[i])  BY <3>1, <3>4, <4>1
        <4> QED  BY <3>3, <4>2, <4>3
      <3>9. DOMAIN steps \subseteq f .. n - 1  BY <1>1, <3>6, <3>7
      <3> QED  BY <3>8, <3>9
    <2> QED  BY <2>1, <2>2
  <1>7. seed.start \in 0 .. n /\ seed.start <= f  BY <1>1, <1>3
  <1> HIDE DEF seed
  <1>8. Seeded(seed, calls, ctx)  BY <1>3, <1>4, <1>5, <1>6, <1>7 DEF Seeded
  <1> QED  BY <1>8 DEF seed

\* From the end of what was kept, with the base moved up.
LEMMA EndSeeded ==
  ASSUME NEW old, Coherent(old), NEW calls \in Seq(Called), NEW ctx \in Contexts,
         Grown(old, calls, ctx)
  PROVE  Seeded(FromEnd(old, calls), calls, ctx)
  <1> DEFINE n == Len(calls)
             f == First(calls)
             p == Pure(calls, ctx)
             m == Len(old.marks)
             g == First(old.marks)
             q == Pure(old.marks, ctx)
             seed == FromEnd(old, calls)
             at == Tallies(old.base, calls, g, {})
  <1>1. n \in Nat /\ f \in 0 .. n /\ f = IF n > ReplaySteps THEN n - ReplaySteps ELSE 0
    BY FirstIs
  <1>2. /\ old.marks \in Seq(Called) /\ old.context = ctx
        /\ old.steps = [i \in g .. m |-> old.steps[i]]
        /\ \A i \in g .. m : Judged(old.steps[i], q[i])
        /\ Near(old.base, q[g]) /\ Near(old.final, q[m]) /\ Heads(old.safe, old.marks, g)
    BY DEF Coherent, Grown
  <1>3. m \in Nat /\ g \in 0 .. m /\ g = IF m > ReplaySteps THEN m - ReplaySteps ELSE 0
    BY <1>2, FirstIs
  <1>4. f <= m /\ IsPrefix(old.marks, calls) /\ old.marks # calls
    BY DEF Grown, IsStrictPrefix
  <1>5. m <= n /\ \A i \in 1 .. m : old.marks[i] = calls[i]  BY <1>2, <1>4, PrefixIs
  <1>6. m < n
    <2>1. ASSUME m = n PROVE FALSE
      <3>1. old.marks = [i \in 1 .. m |-> old.marks[i]] /\ calls = [i \in 1 .. n |-> calls[i]]
        BY <1>2
      <3> QED  BY <1>4, <1>5, <2>1, <3>1
    <2> QED  BY <1>1, <1>3, <1>5, <2>1
  <1>7. \A i \in 0 .. m : q[i] = p[i]
    <2>1. m <= Len(old.marks) /\ m <= Len(calls) /\ m \in Nat  BY <1>3, <1>5
    <2> HIDE DEF m
    <2> QED  BY <1>2, <1>5, <2>1, PurePrefix
  <1>8. g <= f  BY <1>1, <1>3, <1>6, LiveEstimateAssumption
  <1>9. Len(old.safe) = g
    <2>1. old.safe = [i \in 1 .. g |-> old.safe[i]]  BY <1>2 DEF Heads
    <2> HIDE DEF g
    <2> QED  BY <1>3, <2>1
  <1>10. /\ seed.start = m /\ seed.tally = old.final
         /\ seed.steps = [i \in DOMAIN old.steps \cap (f .. m) |-> old.steps[i]]
         /\ seed.base = at[f] /\ seed.safe = old.safe \o Effects(at, g, f)
    BY <1>9 DEF FromEnd, Slid
  <1>11. PICK d \in Nat : Tally(old.base) /\ Current(old.base) /\ Like(old.base, p[g], d)
    BY <1>2, <1>3, <1>7 DEF Near
  <1>12. RunsOn(at, calls, ctx, g, {}, d)
    <2>1. g \in 0 .. n  BY <1>1, <1>3, <1>6
    <2> HIDE DEF g
    <2> QED  BY <1>11, <2>1, RunOn
  <1>13. /\ \A i \in g .. n : Near(at[i], p[i])
         /\ \A i \in g + 1 .. n : Effect(at[i - 1], at[i]).check = SafeOf(calls[i])
    BY <1>12 DEF RunsOn, Near
  <1> HIDE DEF n, f, p, m, g, q, seed, at
  <1>14. Near(seed.base, p[f])
    <2>1. f \in g .. n  BY <1>1, <1>3, <1>8
    <2> QED  BY <1>10, <1>13, <2>1
  <1>15. Heads(seed.safe, calls, f)
    <2>1. Heads(old.safe, calls, g)
      <3>1. \A i \in 1 .. g : old.marks[i] = calls[i]  BY <1>3, <1>5
      <3> QED  BY <1>2, <3>1 DEF Heads
    <2>2. \A i \in g + 1 .. f : Effect(at[i - 1], at[i]).check = SafeOf(calls[i])
      BY <1>1, <1>3, <1>8, <1>13
    <2>3. g \in Nat /\ f \in Nat  BY <1>1, <1>3
    <2>4. Heads(old.safe \o Effects(at, g, f), calls, f)
      BY <1>8, <2>1, <2>2, <2>3, EffectsHeads
    <2> QED  BY <1>10, <2>4
  <1>16. DOMAIN seed.steps = f .. m
    <2>1. DOMAIN old.steps = g .. m  BY <1>2
    <2>2. (g .. m) \cap (f .. m) = f .. m  BY <1>1, <1>3, <1>8
    <2> QED  BY <1>10, <2>1, <2>2
  <1>17. ASSUME NEW i \in DOMAIN seed.steps PROVE Judged(seed.steps[i], p[i])
    <2>1. i \in g .. m /\ i \in 0 .. m  BY <1>1, <1>3, <1>8, <1>16
    <2>2. seed.steps[i] = old.steps[i] /\ Judged(old.steps[i], q[i])
      BY <1>2, <1>10, <1>16, <2>1
    <2> QED  BY <1>7, <2>1, <2>2
  <1>18. Near(seed.tally, p[seed.start])
    <2>1. m \in 0 .. m  BY <1>3
    <2> QED  BY <1>2, <1>7, <1>10, <2>1
  <1>19. seed.start \in 0 .. n /\ DOMAIN seed.steps \subseteq f .. n - 1
    BY <1>1, <1>3, <1>6, <1>10, <1>16
  <1>20. Seeded(seed, calls, ctx)
    <2>1. seed.start >= f /\ DOMAIN seed.steps = f .. seed.start  BY <1>4, <1>10, <1>16
    <2> QED  BY <1>14, <1>15, <1>17, <1>18, <1>19, <2>1 DEF Seeded, n, f, p
  <1> QED  BY <1>20 DEF seed

\* From the base without the calls that are no longer read.
LEMMA ShiftSeeded ==
  ASSUME NEW old, Coherent(old), NEW calls \in Seq(Called), NEW ctx \in Contexts,
         NEW n \in Shifts(old, calls, ctx)
  PROVE  Seeded(FromBase(Rebased(old, n, ctx),
                         SubSeq(old.safe, n + 1, Len(old.safe)), << >>), calls, ctx)
  <1> DEFINE g == First(old.marks)
             m == g - n
             p == Pure(calls, ctx)
             f == First(calls)
             t == old.base
             u == Rebased(old, n, ctx)
             before == SubSeq(old.safe, 1, n)
             after == SubSeq(old.safe, n + 1, Len(old.safe))
             seed == FromBase(u, after, << >>)
  <1>1. /\ old.marks \in Seq(Called) /\ old.context \in Contexts
        /\ Near(t, Pure(old.marks, old.context)[g]) /\ Heads(old.safe, old.marks, g)
    BY DEF Coherent
  <1>2. g \in 0 .. Len(old.marks)  BY <1>1, FirstIs
  <1>3. old.safe = [i \in 1 .. g |-> old.safe[i]]
        /\ \A i \in 1 .. g : old.safe[i].check = SafeOf(old.marks[i])
    BY <1>1 DEF Heads
  <1>4. /\ n \in 0 .. Len(old.marks) - 1
        /\ IsPrefix(SubSeq(old.marks, n + 1, Len(old.marks)), calls)
        /\ [old.context EXCEPT !.from = ctx.from] = ctx
        /\ n <= Len(old.safe) /\ Droppable(t, before) /\ Len(old.safe) - n <= f
    BY DEF Shifts, Offsets
  <1>5. Len(old.safe) = g
    <2> HIDE DEF g
    <2> QED  BY <1>2, <1>3
  <1>6. n \in Nat /\ m \in Nat /\ n <= g /\ n + m = g  BY <1>2, <1>4, <1>5
  <1>7. /\ \A i \in 1 .. Len(old.marks) - n : old.marks[n + i] = calls[i]
        /\ Len(old.marks) - n <= Len(calls)
    <2> DEFINE tail == SubSeq(old.marks, n + 1, Len(old.marks))
    <2>1. /\ tail \in Seq(Called) /\ Len(tail) = Len(old.marks) - n
          /\ \A i \in 1 .. Len(old.marks) - n : tail[i] = old.marks[n + i]
      <3> DEFINE b == Len(old.marks)
      <3>1. b \in Nat /\ old.marks = [i \in 1 .. b |-> old.marks[i]] /\ n \in Nat /\ n <= b
        <4>1. old.marks \in Seq(Called) /\ n \in 0 .. b - 1  BY <1>1, <1>4
        <4>2. b \in Nat /\ old.marks = [i \in 1 .. b |-> old.marks[i]]  BY ONLY <4>1
        <4> HIDE DEF b
        <4> QED  BY ONLY <4>1, <4>2
      <3>2. \A i \in 1 .. b : old.marks[i] \in Called  BY <1>1
      <3>3. tail = SubSeq(old.marks, n + 1, b)  OBVIOUS
      <3> HIDE DEF tail, b
      <3>4. Part(old.marks, n, b)  BY ONLY <3>1, SubSeqIs
      <3>5. tail = [i \in 1 .. b - n |-> old.marks[n + i]] /\ Len(tail) = b - n
        BY ONLY <3>3, <3>4 DEF Part
      <3>6. \A i \in 1 .. b - n : n + i \in 1 .. b  BY ONLY <3>1
      <3>7. \A i \in 1 .. b - n : tail[i] = old.marks[n + i] /\ tail[i] \in Called
        BY ONLY <3>2, <3>5, <3>6
      <3>8. b - n \in Nat  BY ONLY <3>1
      <3>9. tail \in Seq(Called)  BY ONLY <3>5, <3>7, <3>8
      <3> QED  BY <3>5, <3>7, <3>9 DEF b
    <2> HIDE DEF tail
    <2>2. Len(tail) <= Len(calls) /\ \A i \in 1 .. Len(tail) : tail[i] = calls[i]
      <3>1. IsPrefix(tail, calls)  BY <1>4 DEF tail
      <3> QED  BY <2>1, <3>1, PrefixIs
    <2> QED  BY <2>1, <2>2
  <1>8. m <= Len(calls) /\ \A j \in 1 .. m : old.marks[n + j] = calls[j]
    BY <1>2, <1>4, <1>6, <1>7
  <1>9. /\ before = [i \in 1 .. n |-> old.safe[i]] /\ DOMAIN before = 1 .. n
        /\ after = [i \in 1 .. m |-> old.safe[n + i]] /\ Len(after) = m
    <2> HIDE DEF g
    <2>1. g \in Nat /\ 0 \in Nat /\ 0 <= n  BY <1>2, <1>6
    <2> DEFINE s == old.safe
    <2>2. s = [i \in 1 .. g |-> s[i]]  BY <1>3
    <2> HIDE DEF s
    <2>3. Part(s, 0, n) /\ Part(s, n, g)  BY ONLY <1>6, <2>1, <2>2, SubSeqIs
    <2>4. before = [i \in 1 .. n |-> old.safe[i]] /\ DOMAIN before = 1 .. n
      BY <1>6, <2>3 DEF Part, s
    <2>5. after = [i \in 1 .. m |-> old.safe[n + i]] /\ Len(after) = m
      BY <1>5, <2>3 DEF Part, s
    <2> QED  BY <2>4, <2>5
  <1>10. \A i \in 1 .. n : before[i].check = SafeOf(old.marks[i])
    BY <1>2, <1>3, <1>6, <1>9
  <1>11. Heads(after, calls, m)
    <2>1. ASSUME NEW i \in 1 .. m PROVE after[i].check = SafeOf(calls[i])
      <3>1. after[i] = old.safe[n + i] /\ n + i \in 1 .. g  BY <1>6, <1>9
      <3> QED  BY <1>3, <1>8, <3>1
    <2>2. after = [i \in 1 .. m |-> after[i]]  BY <1>9
    <2> QED  BY <2>1, <2>2 DEF Heads
  <1>12. PICK d \in Nat : Like(t, Pure(old.marks, old.context)[g], d)
    BY <1>1 DEF Near
  <1>13. u = Rid(t, before, old.context, ctx)
    BY DEF Rebased, Rid
  <1>14. /\ seed.start = m /\ seed.tally = u /\ seed.steps = << >> /\ seed.base = u
         /\ seed.safe = after
    BY <1>9 DEF FromBase
  <1>15. Tally(t) /\ Current(t)  BY <1>1 DEF Near
  <1>16. calls \in Seq(Called) /\ ctx \in Contexts /\ n + m <= Len(old.marks)
    BY <1>2, <1>6
  <1>17. m \in 0 .. Len(calls) /\ m <= f  BY <1>4, <1>5, <1>6, <1>8
  <1>18. DOMAIN seed.steps = {}  BY <1>14
  <1> HIDE DEF g, m, t, u, before, after, seed
  <1>19. Like(t, Pure(old.marks, old.context)[n + m], d)  BY <1>6, <1>12
  <1>20. Tally(u) /\ Current(u) /\ Like(u, p[m], d + n)
    <2>1. d \in Nat /\ HeadOf(before, old.marks, n)  BY <1>9, <1>10 DEF HeadOf
    <2>2. Droppable(t, before) /\ ReadFrom(old.context, ctx)  BY <1>4 DEF ReadFrom
    <2>3. Cut(old.marks, calls, n, m)  BY <1>8, <1>16 DEF Cut
    <2> QED  BY ONLY <1>1, <1>6, <1>13, <1>15, <1>16, <1>19, <2>1, <2>2, <2>3, RidLike
  <1>21. Near(u, p[m])
    <2>1. d + n \in Nat  BY <1>6
    <2> QED  BY <1>20, <2>1 DEF Near
  <1>22. Seeded(seed, calls, ctx)
    BY <1>11, <1>14, <1>17, <1>18, <1>21 DEF Seeded
  <1> QED  BY <1>22 DEF seed, u, after

\* Whatever was kept, what comes of it may be kept.
LEMMA ReplayedCoherent ==
  ASSUME NEW old, old = Nothing \/ Coherent(old), NEW calls \in Seq(Called),
         NEW ctx \in Contexts, NEW on \in SUBSET DOMAIN Inside
  PROVE  /\ Coherent(Replayed(old, calls, ctx, on))
         /\ Replayed(old, calls, ctx, on).marks = calls
         /\ Replayed(old, calls, ctx, on).context = ctx
  <1> DEFINE kept == old # Nothing /\ old.context = ctx /\ old.marks = calls
             seed == Seed(old, calls, ctx)
             e == Found(Loop(seed, calls, on), calls, ctx)
  <1>1. CASE kept  BY <1>1 DEF Replayed
  <1>2. CASE ~kept
    <2>1. Seeded(seed, calls, ctx)
      <3>1. CASE Grown(old, calls, ctx)
        <4>1. Coherent(old)  BY <3>1 DEF Grown
        <4>2. Seeded(FromEnd(old, calls), calls, ctx)  BY <3>1, <4>1, EndSeeded
        <4> QED  BY <3>1, <4>2 DEF Seed
      <3>2. CASE ~Grown(old, calls, ctx) /\ old # Nothing /\ Shifts(old, calls, ctx) # {}
        <4> DEFINE n == CHOOSE m \in Shifts(old, calls, ctx) : TRUE
        <4>1. n \in Shifts(old, calls, ctx) /\ Coherent(old)  BY <3>2
        <4>2. seed = FromBase(Rebased(old, n, ctx),
                              SubSeq(old.safe, n + 1, Len(old.safe)), << >>)
          BY <3>2 DEF Seed
        <4> HIDE DEF n, seed
        <4>3. Seeded(FromBase(Rebased(old, n, ctx),
                              SubSeq(old.safe, n + 1, Len(old.safe)), << >>), calls, ctx)
          BY <4>1, ShiftSeeded
        <4> QED  BY <4>2, <4>3
      <3>3. CASE ~Grown(old, calls, ctx) /\ ~(old # Nothing /\ Shifts(old, calls, ctx) # {})
        <4>1. Seeded(FromBase(Blank(ctx), <<>>, Kept(old, calls, ctx)), calls, ctx)
          BY KeptSeeded
        <4> QED  BY <3>3, <4>1 DEF Seed
      <3> QED  BY <3>1, <3>2, <3>3
    <2> HIDE DEF seed
    <2>2. Coherent(e)  BY <2>1, LoopCoherent
    <2>3. Replayed(old, calls, ctx, on) = e  BY <1>2 DEF Replayed, seed
    <2>4. e.marks = calls /\ e.context = ctx  BY DEF Found
    <2> HIDE DEF e
    <2> QED  BY <2>2, <2>3, <2>4
  <1> QED  BY <1>1, <1>2

\* Two replays of the same calls under the same reading hold the same levels where they
\* were judged by the same folders, and the same rise when that is everywhere.
LEMMA CoherentSame ==
  ASSUME NEW e, NEW o, Coherent(e), Coherent(o), e.marks = o.marks, e.context = o.context
  PROVE  /\ DOMAIN e.steps = DOMAIN o.steps /\ Len(e.marks) \in DOMAIN e.steps
         /\ \A i \in DOMAIN e.steps : e.steps[i].on = o.steps[i].on => e.steps[i] = o.steps[i]
         /\ (\A i \in DOMAIN e.steps : e.steps[i].on = o.steps[i].on) => e.rose = o.rose
  <1> DEFINE n == Len(e.marks)
             f == First(e.marks)
             p == Pure(e.marks, e.context)
  <1>1. /\ e.marks \in Seq(Called)
        /\ e.steps = [i \in f .. n |-> e.steps[i]] /\ o.steps = [i \in f .. n |-> o.steps[i]]
        /\ \A i \in f .. n : Judged(e.steps[i], p[i]) /\ Judged(o.steps[i], p[i])
        /\ e.rose = Rose(e.steps, e.marks, ListOf(p[n]))
        /\ o.rose = Rose(o.steps, e.marks, ListOf(p[n]))
    BY DEF Coherent
  <1>2. n \in f .. n  BY <1>1, FirstIs
  <1> HIDE DEF n, f, p
  <1>3. DOMAIN e.steps = f .. n /\ DOMAIN o.steps = f .. n  BY <1>1
  <1>4. ASSUME NEW i \in f .. n, e.steps[i].on = o.steps[i].on PROVE e.steps[i] = o.steps[i]
    <2>1. Judged(e.steps[i], p[i]) /\ Judged(o.steps[i], p[i])  BY <1>1
    <2> QED  BY <1>4, <2>1 DEF Judged
  <1>5. ASSUME \A i \in f .. n : e.steps[i].on = o.steps[i].on PROVE e.steps = o.steps
    <2>1. \A i \in f .. n : e.steps[i] = o.steps[i]  BY <1>4, <1>5
    <2> QED  BY <1>1, <2>1
  <1> QED  BY <1>1, <1>2, <1>3, <1>4, <1>5 DEF n
-----------------------------------------------------------------------------
\* The calls are merged in one order: each place is some call's.
KeyedAlone(K) ==
  /\ \A x \in K : x[1] \in Nat /\ x[2] \in Nat /\ x[3] \in Nat
  /\ \A x, y \in K : x[1] = y[1] /\ x[2] = y[2] /\ x[3] = y[3] => x = y
Below(K, x) == {y \in K : Before(y, x)}

LEMMA BelowGrows ==
  ASSUME NEW K, IsFiniteSet(K), KeyedAlone(K), NEW x \in K, NEW y \in K, Before(x, y)
  PROVE  Cardinality(Below(K, x)) # Cardinality(Below(K, y))
  <1>1. ~Before(x, x)  BY DEF Before, KeyedAlone
  <1>2. ASSUME NEW z \in K, Before(z, x) PROVE Before(z, y)
    BY <1>2 DEF Before, KeyedAlone
  <1>3. Below(K, x) \subseteq Below(K, y) /\ Below(K, x) # Below(K, y)
    BY <1>1, <1>2 DEF Below
  <1>4. IsFiniteSet(Below(K, y))
    <2>1. Below(K, y) \in SUBSET K  BY DEF Below
    <2> QED  BY ONLY <2>1, FS_Subset, IsFiniteSet(K)
  <1>5. Below(K, x) \in SUBSET Below(K, y)  BY <1>3
  <1>6. Cardinality(Below(K, y)) = Cardinality(Below(K, x)) => Below(K, y) = Below(K, x)
    BY ONLY <1>4, <1>5, FS_Subset
  <1> QED  BY ONLY <1>3, <1>6

\* In an order of a finite set each place is some member's.
LEMMA RankTaken ==
  ASSUME NEW K, IsFiniteSet(K), NEW below \in [K -> SUBSET K], \A x \in K : x \notin below[x],
         \A x, y \in K : x # y => Cardinality(below[x]) # Cardinality(below[y]),
         NEW n \in 1 .. Cardinality(K)
  PROVE  \E x \in K : Cardinality(below[x]) = n - 1
  <1> DEFINE N == Cardinality(K)
             T == 0 .. N - 1
             rank == [x \in K |-> Cardinality(below[x])]
  <1>1. N \in Nat  BY FS_CardinalityType
  <1>2. IsFiniteSet(T) /\ Cardinality(T) = N
    <2> DEFINE high == N - 1
    <2>1. high \in Int /\ 0 \in Int  BY <1>1
    <2> HIDE DEF high
    <2>2. IsFiniteSet(0 .. high) /\ Cardinality(0 .. high) = IF 0 > high THEN 0 ELSE high - 0 + 1
      BY <2>1, FS_Interval
    <2>3. Cardinality(0 .. high) = N  BY <1>1, <2>2 DEF high
    <2> QED  BY <2>2, <2>3 DEF high
  <1>3. ASSUME NEW x \in K PROVE Cardinality(below[x]) \in T
    <2>1. below[x] \in SUBSET K /\ x \notin below[x]  OBVIOUS
    <2>2. /\ IsFiniteSet(below[x]) /\ Cardinality(below[x]) <= N
          /\ N = Cardinality(below[x]) => K = below[x]
      BY ONLY <2>1, FS_Subset, IsFiniteSet(K)
    <2>3. Cardinality(below[x]) \in Nat  BY ONLY <2>2, FS_CardinalityType
    <2>4. Cardinality(below[x]) # N  BY <2>1, <2>2
    <2> QED  BY ONLY <1>1, <2>2, <2>3, <2>4
  <1>4. \A x \in K : rank[x] = Cardinality(below[x])  OBVIOUS
  <1>5. rank \in [K -> T]  BY <1>3
  <1> HIDE DEF rank, T
  <1>6. rank \in Injection(K, T)  BY <1>4, <1>5 DEF Injection, IsInjective
  <1>7. rank \in Surjection(K, T)  BY ONLY <1>2, <1>6, FS_Injection
  <1>8. n - 1 \in T  BY <1>1 DEF T
  <1> QED  BY ONLY <1>4, <1>7, <1>8 DEF Surjection

\* The calls are merged in one order: each has its place, and they follow by it.
LEMMA PlaceIs ==
  ASSUME NEW K, IsFiniteSet(K), KeyedAlone(K)
  PROVE  /\ \A n \in 1 .. Cardinality(K) : InOrder(K)[n] \in K
         /\ \A x \in K : \E n \in 1 .. Cardinality(K) : InOrder(K)[n] = x
         /\ \A m, n \in 1 .. Cardinality(K) : m < n => Before(InOrder(K)[m], InOrder(K)[n])
  <1> DEFINE N == Cardinality(K)
             below == [x \in K |-> Below(K, x)]
             at(n) == InOrder(K)[n]
  <1>1. N \in Nat  BY FS_CardinalityType
  <1>2. below \in [K -> SUBSET K] /\ \A x \in K : below[x] = Below(K, x)  BY DEF Below
  <1>3. \A x \in K : x \notin below[x]  BY <1>2 DEF Below, Before, KeyedAlone
  <1>4. \A x, y \in K : x # y => Before(x, y) \/ Before(y, x)  BY DEF Before, KeyedAlone
  <1> HIDE DEF below
  <1>5. \A x, y \in K : x # y => Cardinality(below[x]) # Cardinality(below[y])
    BY <1>2, <1>4, BelowGrows
  <1>6. ASSUME NEW n \in 1 .. N PROVE at(n) \in K /\ Cardinality(Below(K, at(n))) = n - 1
    <2>1. \E x \in K : Cardinality(below[x]) = n - 1
      BY ONLY <1>2, <1>3, <1>5, RankTaken, IsFiniteSet(K), n \in 1 .. N
    <2>2. \E x \in K : Cardinality(Below(K, x)) = n - 1  BY <1>2, <2>1
    <2> QED  BY <2>2 DEF InOrder, Below
  <1> HIDE DEF at
  <1>7. \A x \in K : IsFiniteSet(Below(K, x)) /\ Cardinality(Below(K, x)) \in 0 .. N - 1
    <2> SUFFICES ASSUME NEW x \in K
                 PROVE  IsFiniteSet(Below(K, x)) /\ Cardinality(Below(K, x)) \in 0 .. N - 1
      OBVIOUS
    <2>1. Below(K, x) \in SUBSET K /\ x \notin Below(K, x)  BY <1>2, <1>3
    <2>2. /\ IsFiniteSet(Below(K, x)) /\ Cardinality(Below(K, x)) <= N
          /\ N = Cardinality(Below(K, x)) => K = Below(K, x)
      BY ONLY <2>1, FS_Subset, IsFiniteSet(K)
    <2>3. Cardinality(Below(K, x)) \in Nat  BY ONLY <2>2, FS_CardinalityType
    <2>4. Cardinality(Below(K, x)) # N  BY <2>1, <2>2
    <2> QED  BY ONLY <1>1, <2>2, <2>3, <2>4
  <1>8. ASSUME NEW x \in K PROVE \E n \in 1 .. N : at(n) = x
    <2> DEFINE n == Cardinality(Below(K, x)) + 1
    <2>1. n \in 1 .. N /\ n - 1 = Cardinality(Below(K, x))  BY <1>1, <1>7
    <2> HIDE DEF n
    <2>2. at(n) \in K /\ Cardinality(Below(K, at(n))) = Cardinality(Below(K, x))
      BY <1>6, <2>1
    <2>3. at(n) = x  BY <1>2, <1>5, <2>2
    <2> QED  BY <2>1, <2>3
  <1>9. ASSUME NEW m \in 1 .. N, NEW n \in 1 .. N, m < n PROVE Before(at(m), at(n))
    <2> DEFINE x == at(m)
               y == at(n)
    <2>1. /\ x \in K /\ Cardinality(Below(K, x)) = m - 1
          /\ y \in K /\ Cardinality(Below(K, y)) = n - 1
      BY <1>6
    <2> HIDE DEF x, y
    <2>2. x # y
      <3>1. m - 1 # n - 1  BY <1>9, <1>1
      <3> QED  BY <2>1, <3>1
    <2> SUFFICES ASSUME Before(y, x) PROVE FALSE  BY <1>4, <2>1, <2>2 DEF x, y
    <2>3. \A z \in K : Before(z, y) => Before(z, x)  BY <2>1 DEF Before, KeyedAlone
    <2>4. Below(K, y) \in SUBSET Below(K, x)  BY <2>3 DEF Below
    <2>5. IsFiniteSet(Below(K, x))  BY <1>7, <2>1
    <2>6. Cardinality(Below(K, y)) <= Cardinality(Below(K, x))  BY ONLY <2>4, <2>5, FS_Subset
    <2> QED  BY <1>1, <1>9, <2>1, <2>6
  <1> QED  BY <1>6, <1>8, <1>9 DEF at

\* What a line of a transcript is: a call or a message of the person's.
Line == {c \in Entry : Tests(c) => c.of \in Checks}

LEMMA KeyedIs ==
  ASSUME NEW s \in Seq(Line), NEW n \in Nat
  PROVE  /\ IsFiniteSet(Keyed(s, n))
         /\ \A x \in Keyed(s, n) : /\ x[1] \in Nat /\ x[2] = n /\ x[3] \in Nat
                                   /\ x[4] \in Called /\ x[1] = s[x[3]].at /\ x[4] = s[x[3]]
                                   /\ x = <<x[1], x[2], x[3], x[4]>>
  <1> DEFINE D == {j \in DOMAIN s : s[j].does # "person"}
             f == [i \in D |-> <<s[i].at, n, i, s[i]>>]
  <1>1. D \in SUBSET (1 .. Len(s)) /\ Len(s) \in Nat /\ \A i \in D : s[i] \in Line
    OBVIOUS
  <1>6. \A i \in D : s[i] \in Called /\ s[i].at \in Nat
    <2>1. \A i \in D : s[i].does # "person"  OBVIOUS
    <2> HIDE DEF D
    <2> QED  BY <1>1, <2>1 DEF Line, Called, Entry
  <1>2. IsFiniteSet(D)
    <2> HIDE DEF D
    <2>1. IsFiniteSet(1 .. Len(s))  BY <1>1, FS_Interval
    <2> QED  BY ONLY <1>1, <2>1, FS_Subset
  <1>3. f \in Surjection(D, Keyed(s, n))
    <2>1. Keyed(s, n) = {<<s[i].at, n, i, s[i]>> : i \in D}  BY DEF Keyed
    <2> HIDE DEF D
    <2> QED  BY <2>1 DEF Surjection
  <1> HIDE DEF f
  <1>4. IsFiniteSet(Keyed(s, n))
    <2> HIDE DEF D
    <2> QED  BY ONLY <1>2, <1>3, FS_Surjection
  <1>5. ASSUME NEW x \in Keyed(s, n)
        PROVE  /\ x[1] \in Nat /\ x[2] = n /\ x[3] \in Nat
               /\ x[4] \in Called /\ x[1] = s[x[3]].at /\ x[4] = s[x[3]]
               /\ x = <<x[1], x[2], x[3], x[4]>>
    <2>1. PICK i \in D : x = <<s[i].at, n, i, s[i]>>  BY DEF Keyed
    <2> HIDE DEF D
    <2> QED  BY <1>1, <1>6, <2>1
  <1> QED  BY <1>4, <1>5

LEMMA MergedTyped ==
  ASSUME NEW p \in Seq(Line), NEW c \in Seq(Line) PROVE Merged(p, c) \in Seq(Called)
  <1> DEFINE A == Keyed(p, 1)
             B == Keyed(c, 2)
             K == A \cup B
             order == InOrder(K)
             N == Cardinality(K)
  <1>1. IsFiniteSet(A) /\ IsFiniteSet(B)  BY KeyedIs
  <1>2. IsFiniteSet(K)  BY <1>1, FS_Union
  <1>3. /\ \A x \in A : /\ x[1] \in Nat /\ x[2] = 1 /\ x[3] \in Nat
                        /\ x[4] \in Called /\ x[1] = p[x[3]].at /\ x[4] = p[x[3]]
                        /\ x = <<x[1], x[2], x[3], x[4]>>
        /\ \A x \in B : /\ x[1] \in Nat /\ x[2] = 2 /\ x[3] \in Nat
                        /\ x[4] \in Called /\ x[1] = c[x[3]].at /\ x[4] = c[x[3]]
                        /\ x = <<x[1], x[2], x[3], x[4]>>
    BY KeyedIs
  <1> HIDE DEF A, B
  <1>4. KeyedAlone(K)
    <2>1. \A x \in K : x[1] \in Nat /\ x[2] \in Nat /\ x[3] \in Nat  BY <1>3
    <2>2. ASSUME NEW x \in K, NEW y \in K, x[1] = y[1], x[2] = y[2], x[3] = y[3]
          PROVE  x = y
      <3>1. (x \in A /\ y \in A) \/ (x \in B /\ y \in B)  BY <1>3, <2>2
      <3>2. x[4] = y[4] /\ x = <<x[1], x[2], x[3], x[4]>> /\ y = <<y[1], y[2], y[3], y[4]>>
        BY <1>3, <2>2, <3>1
      <3> QED  BY ONLY <2>2, <3>2
    <2> QED  BY <2>1, <2>2 DEF KeyedAlone
  <1>5. \A x \in K : x[4] \in Called  BY <1>3
  <1>6. N \in Nat  BY <1>2, FS_CardinalityType
  <1>7. DOMAIN order = 1 .. N  BY DEF InOrder
  <1>8. \A n \in 1 .. N : order[n] \in K
    <2> HIDE DEF K
    <2> QED  BY <1>2, <1>4, PlaceIs
  <1>9. Merged(p, c) = [n \in DOMAIN order |-> order[n][4]]  BY DEF Merged, A, B
  <1> HIDE DEF order, N, K
  <1> QED  BY <1>5, <1>6, <1>7, <1>8, <1>9

\* What is read of a transcript is of it.
ReadPart(h, s, n) ==
  /\ Len(h) \in 0 .. n /\ Len(h) <= Len(s)
  /\ \A i \in 1 .. Len(h) : \E j \in 1 .. Len(s) : h[i] = s[j]

LEMMA NewestIs ==
  ASSUME NEW S, NEW s \in Seq(S), NEW n \in Nat
  PROVE  /\ Newest(s, n) \in Seq(S) /\ ReadPart(Newest(s, n), s, n)
         /\ n > 0 /\ s # <<>> => Newest(s, n) # <<>>
  <1> DEFINE b == Len(s)
             m == Min({n, b})
             a == b - m
             h == SubSeq(s, a + 1, b)
  <1>1. b \in Nat /\ s = [i \in 1 .. b |-> s[i]]  OBVIOUS
  <1>2. m = IF n <= b THEN n ELSE b  BY <1>1, MinIs
  <1>3. b + 1 - m = a + 1 /\ a \in Nat /\ a <= b /\ b - a = m /\ m \in 0 .. n /\ m <= b
    <2> HIDE DEF m, b
    <2> QED  BY <1>1, <1>2
  <1>4. Newest(s, n) = h  BY <1>3 DEF Newest
  <1> HIDE DEF a, m
  <1>5. Part(s, a, b)
    <2> HIDE DEF b
    <2>1. b \in Nat  BY <1>1
    <2> QED  BY ONLY <1>1, <1>3, <2>1, SubSeqIs
  <1>6. h = [i \in 1 .. m |-> s[a + i]] /\ Len(h) = m  BY <1>3, <1>5 DEF Part
  <1>7. \A i \in 1 .. m : a + i \in 1 .. b  BY <1>3, <1>1
  <1>8. \A i \in 1 .. m : s[a + i] \in S  BY <1>7
  <1>9. h \in Seq(S)
    <2>1. m \in Nat  BY <1>3
    <2> HIDE DEF h
    <2> QED  BY ONLY <1>6, <1>8, <2>1
  <1>10. n > 0 /\ s # <<>> => m > 0
    <2>1. s # <<>> => b > 0  OBVIOUS
    <2> HIDE DEF b
    <2> QED  BY ONLY <1>1, <1>2, <2>1, n \in Nat
  <1>11. ReadPart(h, s, n)
    <2> HIDE DEF h
    <2> QED  BY <1>1, <1>3, <1>6, <1>7 DEF ReadPart
  <1> HIDE DEF h
  <1>12. n > 0 /\ s # <<>> => h # <<>>
    <2>1. m \in Nat /\ Len(<<>>) = 0  BY <1>3
    <2> QED  BY ONLY <1>6, <1>10, <2>1
  <1> QED  BY <1>4, <1>9, <1>11, <1>12

LEMMA ReadIs ==
  ASSUME NEW p \in Seq(Line), NEW c \in Seq(Line)
  PROVE  /\ ReadOf(p) \in Seq(Line) /\ ReadPart(ReadOf(p), p, Budget)
         /\ p # <<>> => ReadOf(p) # <<>>
         /\ ReadAfter(p, c) \in Seq(Line)
         /\ ReadPart(ReadAfter(p, c), c, Budget - Len(ReadOf(p)))
         /\ Calls(p, c) \in Seq(Called)
  <1>1. Budget \in Nat /\ Budget > 0  BY LiveEstimateAssumption
  <1>2. /\ ReadOf(p) \in Seq(Line) /\ ReadPart(ReadOf(p), p, Budget)
        /\ p # <<>> => ReadOf(p) # <<>>
    BY <1>1, NewestIs DEF ReadOf
  <1> DEFINE m == Budget - Len(ReadOf(p))
  <1>3. m \in Nat  BY <1>1, <1>2 DEF ReadPart
  <1>4. ReadAfter(p, c) = Newest(c, m)  BY DEF ReadAfter
  <1>5. Newest(c, m) \in Seq(Line) /\ ReadPart(Newest(c, m), c, m)
    <2> HIDE DEF m
    <2> QED  BY <1>3, NewestIs
  <1>6. Calls(p, c) \in Seq(Called)
    <2>1. ReadOf(p) \in Seq(Line) /\ ReadAfter(p, c) \in Seq(Line)  BY <1>2, <1>4, <1>5
    <2> QED  BY ONLY <2>1, MergedTyped DEF Calls
  <1> QED  BY <1>2, <1>4, <1>5, <1>6

\* The times of a transcript are no later than now.
Until(s, time) == \A i \in DOMAIN s : s[i].at \in 0 .. time

LEMMA ContextIs ==
  ASSUME NEW p \in Seq(Line), NEW c \in Seq(Line), NEW time \in Nat, Until(p, time),
         Until(c, time), NEW mtime \in 0 .. time, NEW completed \in SUBSET Nat,
         NEW moving \in BOOLEAN,
         NEW ctx, ctx = Context(p, c, mtime, completed, moving)
  PROVE  /\ ctx \in Contexts /\ ctx.done = completed /\ (moving => ctx.unread)
         /\ Len(p) > Budget => Head(ReadOf(p)).at <= ctx.from
         /\ c # <<>> /\ ReadAfter(p, c) = <<>> => mtime <= ctx.from
         /\ ReadAfter(p, c) # <<>> /\ ReadAfter(p, c) # c => Head(ReadAfter(p, c)).at <= ctx.from
  <1> DEFINE seen == ReadOf(p)
             seenChild == ReadAfter(p, c)
             named == \E r \in ToSet(seen) : r.does = "launch" /\ r.says = "passed"
             people == {r.at : r \in {m \in ToSet(seen) : m.does = "person"}}
             first == IF Len(p) > Budget THEN {Head(seen).at} ELSE {}
             unseen == IF c # <<>> /\ seenChild = <<>> THEN {mtime} ELSE {}
             later == IF seenChild # <<>> /\ seenChild # c THEN {Head(seenChild).at} ELSE {}
             cut == first \cup unseen \cup later
  <1>1. /\ seen \in Seq(Line) /\ ReadPart(seen, p, Budget)
        /\ p # <<>> => seen # <<>>
        /\ seenChild \in Seq(Line) /\ ReadPart(seenChild, c, Budget - Len(seen))
    BY ReadIs
  <1>15. \A h, s, n : h \in Seq(Line) /\ s \in Seq(Line) /\ ReadPart(h, s, n) /\ Until(s, time)
            => \A i \in DOMAIN h : h[i].at \in 0 .. time
    <2> SUFFICES ASSUME NEW h \in Seq(Line), NEW s \in Seq(Line), NEW n, ReadPart(h, s, n),
                        Until(s, time), NEW i \in DOMAIN h
                 PROVE  h[i].at \in 0 .. time
      OBVIOUS
    <2>1. i \in 1 .. Len(h)  OBVIOUS
    <2>2. PICK j \in 1 .. Len(s) : h[i] = s[j]  BY <2>1 DEF ReadPart
    <2> QED  BY <2>2 DEF Until
  <1>2. \A i \in DOMAIN seen : seen[i].at \in 0 .. time
    <2> HIDE DEF seen
    <2> QED  BY <1>1, <1>15
  <1>3. \A i \in DOMAIN seenChild : seenChild[i].at \in 0 .. time
    <2> HIDE DEF seenChild
    <2> QED  BY <1>1, <1>15
  <1>4. ctx
          = [from |-> Max(cut \cup {None}), person |-> Max(people \cup {None}),
             unread |-> moving \/ (named /\ seenChild = <<>>),
             missing |-> seenChild = <<>> /\ (named \/ c # <<>>),
             children |-> seenChild # <<>>, done |-> completed]
    BY DEF Context
  <1>5. people \cup {None} \in SUBSET (0 .. time)  BY <1>2 DEF ToSet, None
  <1>6. first \subseteq 0 .. time
    <2> SUFFICES ASSUME Len(p) > Budget PROVE Head(seen).at \in 0 .. time  OBVIOUS
    <2>1. p # <<>>  BY LiveEstimateAssumption
    <2>2. seen # <<>>  BY <1>1, <2>1
    <2> HIDE DEF seen
    <2>3. 1 \in DOMAIN seen /\ Head(seen) = seen[1]  BY <1>1, <2>2
    <2> QED  BY <1>2, <2>3
  <1>7. later \subseteq 0 .. time
    <2> SUFFICES ASSUME seenChild # <<>> PROVE Head(seenChild).at \in 0 .. time  OBVIOUS
    <2> HIDE DEF seenChild
    <2>3. 1 \in DOMAIN seenChild /\ Head(seenChild) = seenChild[1]  BY <1>1
    <2> QED  BY <1>3, <2>3
  <1>8. cut \cup {None} \in SUBSET (0 .. time)
    <2> HIDE DEF first, later
    <2> QED  BY <1>6, <1>7 DEF None
  <1>11. \A y \in cut : y <= Max(cut \cup {None})
    <2> HIDE DEF cut
    <2>1. \A y \in cut \cup {None} : Max(cut \cup {None}) >= y  BY <1>8, MaxSet
    <2>2. Max(cut \cup {None}) \in cut \cup {None}  BY <1>8, MaxSet
    <2>3. Max(cut \cup {None}) \in Nat /\ \A y \in cut : y \in Nat  BY <1>8, <2>2
    <2> QED  BY <2>1, <2>3
  <1>12. /\ Len(p) > Budget => Head(ReadOf(p)).at \in cut
         /\ c # <<>> /\ ReadAfter(p, c) = <<>> => mtime \in cut
         /\ ReadAfter(p, c) # <<>> /\ ReadAfter(p, c) # c => Head(ReadAfter(p, c)).at \in cut
    OBVIOUS
  <1> HIDE DEF cut, people, named, seenChild
  <1>9. Max(cut \cup {None}) \in Nat /\ Max(people \cup {None}) \in Nat
    <2>1. Max(cut \cup {None}) \in cut \cup {None}  BY <1>8, MaxSet
    <2>2. Max(people \cup {None}) \in people \cup {None}  BY <1>5, MaxSet
    <2> QED  BY <1>5, <1>8, <2>1, <2>2
  <1>10. (moving \/ (named /\ seenChild = <<>>)) \in BOOLEAN
         /\ (seenChild = <<>> /\ (named \/ c # <<>>)) \in BOOLEAN
         /\ (seenChild # <<>>) \in BOOLEAN
    OBVIOUS
  <1>13. ctx.from = Max(cut \cup {None}) /\ ctx.done = completed /\ (moving => ctx.unread)
    BY <1>4
  <1>14. ctx \in Contexts  BY <1>4, <1>9, <1>10 DEF Contexts
  <1> QED  BY <1>11, <1>12, <1>13, <1>14
-----------------------------------------------------------------------------
\* A replay is a record, and what is said of it is not of the files' sizes.
Whole(e) ==
  /\ DOMAIN e = {"signature", "marks", "context", "steps", "level", "rose", "base", "safe",
                 "final"}
  /\ Coherent(e)

LEMMA ReplayedWhole ==
  ASSUME NEW old, old = Nothing \/ Whole(old), NEW calls \in Seq(Called),
         NEW ctx \in Contexts, NEW on \in SUBSET DOMAIN Inside
  PROVE  /\ Whole(Replayed(old, calls, ctx, on))
         /\ Replayed(old, calls, ctx, on).marks = calls
         /\ Replayed(old, calls, ctx, on).context = ctx
  <1> DEFINE e == Replayed(old, calls, ctx, on)
  <1>1. old = Nothing \/ Coherent(old)  BY DEF Whole
  <1>2. Coherent(e) /\ e.marks = calls /\ e.context = ctx  BY <1>1, ReplayedCoherent
  <1>3. DOMAIN e = {"signature", "marks", "context", "steps", "level", "rose", "base", "safe",
                    "final"}
    <2>1. CASE old # Nothing /\ old.context = ctx /\ old.marks = calls
      BY <2>1 DEF Replayed, Whole
    <2>2. CASE ~(old # Nothing /\ old.context = ctx /\ old.marks = calls)
      <3> DEFINE end == Loop(Seed(old, calls, ctx), calls, on)
      <3>1. e = Found(end, calls, ctx)  BY <2>2 DEF Replayed
      <3> HIDE DEF e, end
      <3> QED  BY <3>1 DEF Found
    <2> QED  BY <2>1, <2>2
  <1> HIDE DEF e
  <1>4. Whole(e)  BY <1>2, <1>3 DEF Whole
  <1> QED  BY <1>2, <1>4 DEF e

LEMMA Resigned ==
  ASSUME NEW e, Whole(e), NEW signature, NEW kept,
         kept = [e EXCEPT !.signature = signature]
  PROVE  /\ Whole(kept) /\ kept.signature = signature
         /\ kept.marks = e.marks /\ kept.context = e.context
  <1>1. DOMAIN e = {"signature", "marks", "context", "steps", "level", "rose", "base", "safe",
                    "final"}
    BY DEF Whole
  <1>2. /\ DOMAIN kept = DOMAIN e /\ kept.signature = signature
        /\ kept.marks = e.marks /\ kept.context = e.context /\ kept.steps = e.steps
        /\ kept.level = e.level /\ kept.rose = e.rose /\ kept.base = e.base
        /\ kept.safe = e.safe /\ kept.final = e.final
    BY <1>1
  <1>3. Coherent(e)  BY DEF Whole
  <1>4. Coherent(kept)  BY ONLY <1>2, <1>3 DEF Coherent
  <1> QED  BY <1>1, <1>2, <1>4 DEF Whole

LEMMA LevelTyped ==
  ASSUME NEW t, NEW on PROVE LevelAt(t, on) \in Levels
  <1>1. \A u, passes, anchored, writes, outside :
          LevelOf(u, passes, anchored, writes, outside) \in Levels
    BY DEF LevelOf, Levels, Scale, ToSet
  <1> QED  BY <1>1 DEF LevelAt, LiveLevel, LevelOver

\* The level of a replay is that of its last tally, by the folders it was asked with.
LEMMA WholeLast ==
  ASSUME NEW e, Whole(e), NEW last, last = e.steps[Len(e.marks)]
  PROVE  /\ last.on \subseteq DOMAIN Inside
         /\ e.level = LevelAt(Pure(e.marks, e.context)[Len(e.marks)], last.on)
  <1> DEFINE n == Len(e.marks)
             p == Pure(e.marks, e.context)
  <1>1. /\ e.marks \in Seq(Called) /\ e.level = last.level
        /\ \A i \in First(e.marks) .. n : Judged(e.steps[i], p[i])
    BY DEF Whole, Coherent
  <1>2. n \in First(e.marks) .. n  BY <1>1, FirstIs
  <1>3. Judged(last, p[n])  BY <1>1, <1>2
  <1> HIDE DEF n, p
  <1>4. last.on \subseteq DOMAIN Inside /\ last = Step(LevelAt(p[n], last.on), last.on)
    BY <1>3 DEF Judged
  <1> DEFINE l == LevelAt(p[n], last.on)
  <1>5. Step(l, last.on).level = l  BY DEF Step
  <1> HIDE DEF l
  <1>6. last.level = l  BY <1>4, <1>5 DEF l
  <1> QED  BY <1>1, <1>4, <1>6 DEF l, n, p

LEMMA WholeLevel ==
  ASSUME NEW e, Whole(e) PROVE e.level \in Levels
  BY LevelTyped, WholeLast

\* A replay is kept with the levels of its whole window.
LEMMA WholeWindow ==
  ASSUME NEW e, Whole(e)
  PROVE  /\ First(e.marks) .. Len(e.marks) \subseteq DOMAIN e.steps
         /\ Len(e.safe) = First(e.marks)
  <1> DEFINE f == First(e.marks)
             n == Len(e.marks)
  <1>1. /\ e.marks \in Seq(Called) /\ e.steps = [i \in f .. n |-> e.steps[i]]
        /\ Heads(e.safe, e.marks, f)
    BY DEF Whole, Coherent
  <1>2. f \in Nat
    <2>1. Len(e.marks) \in Nat  BY <1>1
    <2> QED  BY <2>1, FirstIs
  <1>3. DOMAIN e.steps = f .. n  BY <1>1
  <1>4. e.safe = [i \in 1 .. f |-> e.safe[i]]  BY <1>1 DEF Heads
  <1> HIDE DEF f
  <1>5. Len(e.safe) = f  BY <1>2, <1>4
  <1> QED  BY <1>3, <1>5 DEF f
-----------------------------------------------------------------------------
\* The files are as the program's steps leave them.
Script(s, time) ==
  /\ s \in Seq(Line)
  /\ \A i \in DOMAIN s : /\ s[i].at \in 1 .. time /\ s[i].told \in 0 .. time
                         /\ s[i].id \in 1 .. MaxRecords
Files ==
  /\ now \in 1 .. MaxTime /\ touched \in 0 .. now
  /\ Script(parent, now) /\ Script(child, now) /\ Len(parent) + Len(child) <= MaxRecords
  /\ done \subseteq 1 .. MaxRecords

\* The disk has folders the saved intent names, and no other here.
Folders == there \subseteq DOMAIN Inside

\* A replay of the files as they are.
OfTheFiles(e) ==
  /\ e.marks = Calls(parent, child)
  /\ e.context = Context(parent, child, touched, done, FALSE)

Past(signature) == signature \in Nat \X Nat /\ Lines(signature) <= Lines(Signature)

\* A replay kept, and what a request has read, are of files no newer than these; of
\* files of these sizes they are of these files.
Stored ==
  \/ cache = Nothing
  \/ /\ Whole(cache) /\ Past(cache.signature)
     /\ cache.signature = Signature => OfTheFiles(cache)
Begun(f) ==
  /\ Past(f.signature) /\ Script(f.parent, now) /\ f.done \subseteq 1 .. MaxRecords
  /\ f.signature = Signature => f.parent = parent /\ f.done = done
Read(f) ==
  /\ Past(f.signature) /\ Whole(f.entry)
  /\ f.signature = Signature => OfTheFiles(f.entry)
Request(f) ==
  /\ f.at \in UnderWay \cup {"idle", "answered"}
  /\ f.at = "answered" => f.level \in Levels
  /\ f.at = "asked" => Past(f.signature)
  /\ f.at = "reading" => Begun(f)
  /\ f.at = "replayed" => Read(f)
Requests == DOMAIN flight = Readers /\ \A r \in Readers : Request(flight[r])
OneReads ==
  \A r, q \in Readers :
    flight[r].at \in {"reading", "replayed"} /\ flight[q].at \in {"reading", "replayed"}
      => r = q

IInv == Files /\ Folders /\ Stored /\ Requests /\ OneReads
-----------------------------------------------------------------------------
\* The sizes grow with every line that is written.
LEMMA ResultsIs ==
  ASSUME NEW s \in Seq(Line) PROVE Results(s) \in Nat
  <1> DEFINE D == {i \in DOMAIN s : s[i].says # "nothing"}
  <1>1. D \in SUBSET (1 .. Len(s)) /\ Len(s) \in Nat  OBVIOUS
  <1>2. IsFiniteSet(1 .. Len(s))  BY <1>1, FS_Interval
  <1>3. Results(s) = Cardinality(D)  BY DEF Results
  <1> HIDE DEF D
  <1>4. IsFiniteSet(D)  BY ONLY <1>1, <1>2, FS_Subset
  <1> QED  BY <1>3, <1>4, FS_CardinalityType

LEMMA DoneFinite ==
  ASSUME Files PROVE IsFiniteSet(done) /\ Cardinality(done) \in Nat
  <1>1. done \in SUBSET (1 .. MaxRecords) /\ MaxRecords \in Int /\ 1 \in Int
    BY LiveEstimateAssumption DEF Files
  <1>2. IsFiniteSet(1 .. MaxRecords)  BY ONLY <1>1, FS_Interval
  <1>3. IsFiniteSet(done)  BY ONLY <1>1, <1>2, FS_Subset
  <1> QED  BY <1>3, FS_CardinalityType

LEMMA SizesIs ==
  ASSUME Files
  PROVE  /\ Signature \in Nat \X Nat /\ Lines(Signature) \in Nat
         /\ Lines(Signature) = Len(parent) + Results(parent) + Cardinality(done)
                                 + (Len(child) + Results(child))
  <1>1. parent \in Seq(Line) /\ child \in Seq(Line)  BY DEF Files, Script
  <1>2. Len(parent) \in Nat /\ Len(child) \in Nat  BY <1>1
  <1>3. Results(parent) \in Nat /\ Results(child) \in Nat  BY <1>1, ResultsIs
  <1>4. Cardinality(done) \in Nat  BY DoneFinite
  <1> QED  BY <1>2, <1>3, <1>4 DEF Signature, Lines

LEMMA SizesPrime ==
  ASSUME Files'
  PROVE  /\ Signature' \in Nat \X Nat /\ Lines(Signature)' \in Nat
         /\ Lines(Signature)' = Len(parent') + Results(parent') + Cardinality(done')
                                 + (Len(child') + Results(child'))
  <1>1. parent' \in Seq(Line) /\ child' \in Seq(Line)  BY DEF Files, Script
  <1>2. Len(parent') \in Nat /\ Len(child') \in Nat  BY <1>1
  <1>3. Results(parent') \in Nat /\ Results(child') \in Nat  BY <1>1, ResultsIs
  <1>4. Cardinality(done') \in Nat
    <2>1. done' \in SUBSET (1 .. MaxRecords) /\ MaxRecords \in Int /\ 1 \in Int
      BY LiveEstimateAssumption DEF Files
    <2>2. IsFiniteSet(1 .. MaxRecords)  BY ONLY <2>1, FS_Interval
    <2>3. IsFiniteSet(done')  BY ONLY <2>1, <2>2, FS_Subset
    <2> QED  BY <2>3, FS_CardinalityType
  <1> QED  BY <1>2, <1>3, <1>4 DEF Signature, Lines

LEMMA ResultsAppend ==
  ASSUME NEW s \in Seq(Line), NEW x \in Line, x.says = "nothing"
  PROVE  /\ Append(s, x) \in Seq(Line) /\ Len(Append(s, x)) = Len(s) + 1
         /\ Results(Append(s, x)) = Results(s)
         /\ \A i \in DOMAIN Append(s, x) : Append(s, x)[i] = x
                                           \/ (i \in DOMAIN s /\ Append(s, x)[i] = s[i])
  <1>1. /\ Append(s, x) \in Seq(Line) /\ Len(Append(s, x)) = Len(s) + 1
        /\ DOMAIN Append(s, x) = 1 .. Len(s) + 1 /\ DOMAIN s = 1 .. Len(s) /\ Len(s) \in Nat
        /\ \A i \in 1 .. Len(s) : Append(s, x)[i] = s[i]
        /\ Append(s, x)[Len(s) + 1] = x
    OBVIOUS
  <1>2. {i \in DOMAIN Append(s, x) : Append(s, x)[i].says # "nothing"}
          = {i \in DOMAIN s : s[i].says # "nothing"}
    BY <1>1
  <1>3. Results(Append(s, x)) = Results(s)  BY <1>2 DEF Results
  <1> QED  BY <1>1, <1>3

Told(s, i, says, time) == [s EXCEPT ![i].says = says, ![i].told = time]

LEMMA ResultsEnd ==
  ASSUME NEW s \in Seq(Line), NEW i \in DOMAIN s, s[i].says = "nothing",
         NEW says \in Says \ {"nothing"}, NEW time \in Nat, NEW t,
         t = Told(s, i, says, time)
  PROVE  /\ t \in Seq(Line) /\ Len(t) = Len(s) /\ Results(t) = Results(s) + 1
         /\ DOMAIN t = DOMAIN s
         /\ \A j \in DOMAIN s : t[j].at = s[j].at /\ t[j].id = s[j].id
         /\ \A j \in DOMAIN s : t[j].told \in {s[j].told, time}
  <1> DEFINE x == [s[i] EXCEPT !.says = says, !.told = time]
             D == {j \in DOMAIN s : s[j].says # "nothing"}
  <1>1. Len(s) \in Nat /\ DOMAIN s = 1 .. Len(s) /\ \A j \in DOMAIN s : s[j] \in Line
    OBVIOUS
  <1>2. s[i] \in Line  BY <1>1
  <1>3. /\ x \in Line /\ x.at = s[i].at /\ x.id = s[i].id /\ x.told = time
        /\ x.says = says
    BY <1>2 DEF Line, Entry, Tests
  <1>4. t = [s EXCEPT ![i] = x]  BY DEF Told
  <1>5. /\ t \in Seq(Line) /\ Len(t) = Len(s) /\ DOMAIN t = DOMAIN s /\ t[i] = x
        /\ \A j \in DOMAIN s : j # i => t[j] = s[j]
    <2>1. DOMAIN t = DOMAIN s /\ t[i] = x /\ \A j \in DOMAIN s : j # i => t[j] = s[j]
      <3> HIDE DEF x
      <3> QED  BY ONLY <1>4, i \in DOMAIN s
    <2>2. t = [j \in 1 .. Len(s) |-> t[j]]
      <3> HIDE DEF x
      <3> QED  BY ONLY <1>1, <1>4
    <2>3. \A j \in 1 .. Len(s) : t[j] \in Line
      <3> HIDE DEF x
      <3> QED  BY ONLY <1>1, <1>3, <2>1
    <2>4. t \in Seq(Line) /\ Len(t) = Len(s)
      BY ONLY <1>1, <2>2, <2>3
    <2> QED  BY <2>1, <2>4
  <1>6. {j \in DOMAIN t : t[j].says # "nothing"} = D \cup {i} /\ i \notin D
    <2> HIDE DEF x
    <2> QED  BY <1>3, <1>5
  <1>7. IsFiniteSet(D)
    <2>1. D \in SUBSET (1 .. Len(s))  OBVIOUS
    <2>2. IsFiniteSet(1 .. Len(s))  BY <1>1, FS_Interval
    <2> HIDE DEF D
    <2> QED  BY ONLY <2>1, <2>2, FS_Subset
  <1>8. Results(s) = Cardinality(D)  BY DEF Results
  <1>9. Results(t) = Cardinality(D \cup {i})  BY <1>6 DEF Results
  <1> HIDE DEF D
  <1>10. Cardinality(D \cup {i}) = Cardinality(D) + 1  BY ONLY <1>6, <1>7, FS_AddElement
  <1> HIDE DEF x
  <1> QED  BY <1>3, <1>5, <1>8, <1>9, <1>10

\* What was read before a line was written is of other sizes than those after it.
LEMMA Outdated ==
  ASSUME Files, Files', Lines(Signature)' > Lines(Signature)
  PROVE  \A s : Past(s) => Past(s)' /\ s # Signature'
  <1>1. /\ Signature \in Nat \X Nat /\ Lines(Signature) \in Nat
        /\ Signature' \in Nat \X Nat /\ Lines(Signature)' \in Nat
    BY SizesIs, SizesPrime
  <1>2. ASSUME NEW s, Past(s)
        PROVE  s \in Nat \X Nat /\ Lines(s) <= Lines(Signature)' /\ s # Signature'
    <2>1. s \in Nat \X Nat /\ Lines(s) <= Lines(Signature)  BY <1>2 DEF Past
    <2>2. Lines(s) \in Nat  BY <2>1 DEF Lines
    <2>3. Lines(s) < Lines(Signature)'  BY <1>1, <2>1, <2>2
    <2>4. Lines(Signature)' = Lines(Signature')  BY DEF Lines
    <2> QED  BY ONLY <1>1, <2>1, <2>2, <2>3, <2>4
  <1> QED  BY <1>2 DEF Past

LEMMA ScriptLater ==
  ASSUME NEW time \in Nat, NEW then \in Nat, time <= then, NEW s, Script(s, time)
  PROVE  Script(s, then)
  BY DEF Script

LEMMA GrowsKeeps ==
  ASSUME IInv, Grows, Files', Lines(Signature)' > Lines(Signature)
  PROVE  IInv'
  <1>1. /\ cache' = cache
        /\ flight' = [r \in Readers |-> IF flight[r].at \in UnderWay THEN flight[r] ELSE Idle]
    BY DEF Grows
  <1>2. now \in Nat /\ now' \in Nat /\ now <= now'  BY DEF IInv, Files, Grows
  <1>3. \A s : Past(s) => Past(s)' /\ s # Signature'  BY Outdated DEF IInv
  <1>5. Stored'
    <2>1. CASE cache = Nothing  BY <1>1, <2>1 DEF Stored
    <2>2. CASE cache # Nothing
      <3>1. Whole(cache) /\ Past(cache.signature)  BY <2>2 DEF IInv, Stored
      <3>2. Past(cache.signature)' /\ cache.signature # Signature'
        <4>1. Past(cache'.signature)  BY <1>1, <3>1
        <4>2. Past(cache.signature)'  BY <1>1, <1>3, <3>1 DEF Past
        <4> QED  BY <1>3, <3>1, <4>2
      <3> QED  BY <1>1, <3>1, <3>2 DEF Stored
    <2> QED  BY <2>1, <2>2
  <1>6. ASSUME NEW r \in Readers PROVE Request(flight[r])'
    <2>1. flight'[r] = IF flight[r].at \in UnderWay THEN flight[r] ELSE Idle  BY <1>1
    <2>2. CASE flight[r].at \notin UnderWay
      <3>1. flight'[r].at = "idle"  BY <2>1, <2>2 DEF Idle
      <3> QED  BY <3>1 DEF Request
    <2>3. CASE flight[r].at \in UnderWay
      <3>1. flight'[r] = flight[r]  BY <2>1, <2>3
      <3>2. Request(flight[r])  BY DEF IInv, Requests
      <3>3. Past(flight[r].signature)  BY <2>3, <3>2 DEF Request, Begun, Read, UnderWay
      <3>4. Past(flight[r].signature)' /\ flight'[r].signature # Signature'
        BY <1>3, <3>1, <3>3 DEF Past
      <3>5. CASE flight[r].at = "asked"  BY <3>1, <3>4, <3>5 DEF Request, UnderWay
      <3>6. CASE flight[r].at = "reading"
        <4>1. Script(flight[r].parent, now) /\ flight[r].done \subseteq 1 .. MaxRecords
          BY <3>2, <3>6 DEF Request, Begun
        <4>2. Script(flight[r].parent, now')  BY ONLY <1>2, <4>1, ScriptLater
        <4>4. Script(flight[r].parent, now)'  BY <3>1, <4>2
        <4>3. Begun(flight[r])'  BY <3>1, <3>4, <4>1, <4>4 DEF Begun
        <4> QED  BY <3>1, <3>6, <4>3 DEF Request, UnderWay
      <3>7. CASE flight[r].at = "replayed"
        <4>1. Whole(flight[r].entry)  BY <3>2, <3>7 DEF Request, Read
        <4>2. Whole(flight[r].entry)'  BY <3>1, <4>1
        <4>3. Read(flight[r])'  BY <3>4, <4>2 DEF Read
        <4> QED  BY <3>1, <3>7, <4>3 DEF Request, UnderWay
      <3> QED  BY <2>3, <3>5, <3>6, <3>7 DEF UnderWay
    <2> QED  BY <2>2, <2>3
  <1>7. DOMAIN flight' = Readers  BY <1>1
  <1>8. OneReads'
    <2>1. ASSUME NEW r \in Readers, flight'[r].at \in {"reading", "replayed"}
          PROVE  flight[r].at \in {"reading", "replayed"}
      BY <1>1, <2>1 DEF Idle
    <2> QED  BY <2>1 DEF IInv, OneReads
  <1>9. Folders'  BY DEF IInv, Folders, Grows
  <1> QED  BY <1>5, <1>6, <1>7, <1>8, <1>9 DEF IInv, Requests

\* Each line that is written leaves the files typed, and larger.
Larger == Files' /\ Lines(Signature)' > Lines(Signature)

LEMMA RecordTyped ==
  ASSUME Files, now' \in Nat, NEW entry \in Menu \cup ChildMenu \cup {Person},
         NEW at \in 1 .. now', Len(parent) + Len(child) < MaxRecords
  PROVE  /\ Record(entry, at) \in Line /\ Record(entry, at).says = "nothing"
         /\ Record(entry, at).at = at /\ Record(entry, at).told = 0
         /\ Record(entry, at).id \in 1 .. MaxRecords
  <1> DEFINE x == Record(entry, at)
  <1>1. /\ x = [at |-> at, id |-> Len(parent) + Len(child) + 1, does |-> entry.does,
                of |-> entry.of, says |-> "nothing", told |-> None]
    BY DEF Record
  <1>2. /\ entry.does \in Deeds \cup {"person"} /\ entry.of \in Things
        /\ Tests(entry) => entry.of \in Checks
    <2>1. CASE entry \in Menu \cup ChildMenu
      BY <2>1, LiveEstimateAssumption DEF Things
    <2>2. CASE entry = Person
      <3>1. entry.does = "person" /\ entry.of = ""  BY <2>2 DEF Person
      <3> QED  BY <3>1 DEF Things, Tests
    <2> QED  BY <2>1, <2>2
  <1>3. entry.does \in {"check", "fix-then-check", "check-then-fix", "background-check"}
          => entry.of \in Checks
    BY <1>2 DEF Tests
  <1>4. Len(parent) + Len(child) + 1 \in 1 .. MaxRecords
    <2>1. Len(parent) \in Nat /\ Len(child) \in Nat  BY DEF Files, Script
    <2> QED  BY <2>1, LiveEstimateAssumption
  <1> HIDE DEF x
  <1> QED  BY <1>1, <1>2, <1>3, <1>4 DEF x, Line, Entry, Tests, None, Says

LEMMA ScriptAppend ==
  ASSUME NEW time \in Nat, NEW s, Script(s, time), NEW x \in Line, x.says = "nothing",
         x.at \in 1 .. time, x.told = 0, x.id \in 1 .. MaxRecords
  PROVE  Script(Append(s, x), time)
  <1>1. /\ s \in Seq(Line)
        /\ \A i \in DOMAIN s : /\ s[i].at \in 1 .. time /\ s[i].told \in 0 .. time
                               /\ s[i].id \in 1 .. MaxRecords
    BY DEF Script
  <1>2. /\ Append(s, x) \in Seq(Line)
        /\ \A i \in DOMAIN Append(s, x) : Append(s, x)[i] = x
                                          \/ (i \in DOMAIN s /\ Append(s, x)[i] = s[i])
    BY <1>1, ResultsAppend
  <1>3. 0 \in 0 .. time  OBVIOUS
  <1> QED  BY <1>1, <1>2, <1>3 DEF Script

Counts == Len(parent) + Results(parent) + Cardinality(done) + (Len(child) + Results(child))

LEMMA CountsLarger == ASSUME Files, Files', Counts' = Counts + 1 PROVE Larger
  <1>1. Lines(Signature) \in Nat /\ Lines(Signature) = Counts  BY SizesIs DEF Counts
  <1>2. Lines(Signature)' = Counts'  BY SizesPrime DEF Counts
  <1>3. Lines(Signature)' > Lines(Signature)
    <2> DEFINE a == Lines(Signature)
               b == Lines(Signature)'
    <2>1. a \in Nat /\ b = a + 1  BY <1>1, <1>2
    <2> HIDE DEF a, b
    <2>2. b > a  BY <2>1
    <2> QED  BY <2>2 DEF a, b
  <1> QED  BY <1>3 DEF Larger

LEMMA SessionWritesLarger == ASSUME IInv, SessionWrites PROVE Larger
  <1>1. PICK entry \in Menu \cup {Person} : parent' = Append(parent, Record(entry, now'))
    BY DEF SessionWrites
  <1> DEFINE x == Record(entry, now')
  <1>2. /\ Files /\ Len(parent) + Len(child) < MaxRecords
        /\ child' = child /\ touched' = touched /\ done' = done
        /\ now' \in {now, now + 1} \cap (1 .. MaxTime)
    BY DEF IInv, SessionWrites, Grows
  <1>3. now \in Nat /\ now' \in Nat /\ now <= now' /\ now' \in 1 .. now'
    BY <1>2 DEF Files
  <1>4. /\ x \in Line /\ x.says = "nothing" /\ x.at \in 1 .. now' /\ x.told = 0
        /\ x.id \in 1 .. MaxRecords
    <2>1. entry \in Menu \cup ChildMenu \cup {Person}  OBVIOUS
    <2> QED  BY ONLY <1>2, <1>3, <2>1, RecordTyped
  <1> HIDE DEF x
  <1>5. Script(parent, now)' /\ Script(child, now)'
    <2>1. Script(parent, now) /\ Script(child, now)  BY <1>2 DEF Files
    <2>2. Script(parent, now') /\ Script(child, now')  BY ONLY <1>3, <2>1, ScriptLater
    <2>3. Script(Append(parent, x), now')  BY ONLY <1>3, <1>4, <2>2, ScriptAppend
    <2> QED  BY <1>1, <1>2, <2>2, <2>3 DEF x
  <1>6. /\ Len(parent') = Len(parent) + 1 /\ Results(parent') = Results(parent)
    <2>1. parent \in Seq(Line)  BY <1>2 DEF Files, Script
    <2>2. parent' = Append(parent, x)  BY <1>1 DEF x
    <2> QED  BY <1>4, <2>1, <2>2, ResultsAppend
  <1>7. Files'
    <2>1. Len(parent) \in Nat /\ Len(child) \in Nat  BY <1>2 DEF Files, Script
    <2>2. Len(parent') + Len(child') <= MaxRecords
      BY ONLY <1>2, <1>6, <2>1, LiveEstimateAssumption
    <2>3. touched' \in 0 .. now' /\ now' \in 1 .. MaxTime /\ done' \subseteq 1 .. MaxRecords
      BY <1>2, <1>3 DEF Files
    <2> QED  BY <1>5, <2>2, <2>3 DEF Files
  <1>8. Counts' = Counts + 1
    <2>1. /\ Len(parent) \in Nat /\ Len(child) \in Nat
          /\ parent \in Seq(Line) /\ child \in Seq(Line)
      BY <1>2 DEF Files, Script
    <2>2. Results(parent) \in Nat /\ Results(child) \in Nat  BY <2>1, ResultsIs
    <2>3. Results(child') = Results(child) /\ Cardinality(done') = Cardinality(done)
      BY <1>2
    <2>4. Cardinality(done) \in Nat  BY <1>2, DoneFinite
    <2>5. Len(child') = Len(child)  BY <1>2
    <2> QED  BY ONLY <1>6, <2>1, <2>2, <2>3, <2>4, <2>5 DEF Counts
  <1> QED  BY <1>2, <1>7, <1>8, CountsLarger

LEMMA SubagentWritesLarger == ASSUME IInv, SubagentWrites PROVE Larger
  <1>1. PICK entry \in ChildMenu, at \in 1 .. now' : child' = Append(child, Record(entry, at))
    BY DEF SubagentWrites
  <1> DEFINE x == Record(entry, at)
  <1>2. /\ Files /\ Len(parent) + Len(child) < MaxRecords
        /\ parent' = parent /\ touched' = now' /\ done' = done
        /\ now' \in {now, now + 1} \cap (1 .. MaxTime)
    BY DEF IInv, SubagentWrites, Grows
  <1>3. now \in Nat /\ now' \in Nat /\ now <= now'  BY <1>2 DEF Files
  <1>4. /\ x \in Line /\ x.says = "nothing" /\ x.at \in 1 .. now' /\ x.told = 0
        /\ x.id \in 1 .. MaxRecords
    <2>1. entry \in Menu \cup ChildMenu \cup {Person}  OBVIOUS
    <2> QED  BY ONLY <1>2, <1>3, <2>1, RecordTyped
  <1> HIDE DEF x
  <1>5. Script(parent, now)' /\ Script(child, now)'
    <2>1. Script(parent, now) /\ Script(child, now)  BY <1>2 DEF Files
    <2>2. Script(parent, now') /\ Script(child, now')  BY ONLY <1>3, <2>1, ScriptLater
    <2>3. Script(Append(child, x), now')  BY ONLY <1>3, <1>4, <2>2, ScriptAppend
    <2> QED  BY <1>1, <1>2, <2>2, <2>3 DEF x
  <1>6. /\ Len(child') = Len(child) + 1 /\ Results(child') = Results(child)
    <2>1. child \in Seq(Line)  BY <1>2 DEF Files, Script
    <2>2. child' = Append(child, x)  BY <1>1 DEF x
    <2> QED  BY <1>4, <2>1, <2>2, ResultsAppend
  <1>7. Files'
    <2>1. Len(parent) \in Nat /\ Len(child) \in Nat  BY <1>2 DEF Files, Script
    <2>2. Len(parent') + Len(child') <= MaxRecords
      BY ONLY <1>2, <1>6, <2>1, LiveEstimateAssumption
    <2>3. touched' \in 0 .. now' /\ now' \in 1 .. MaxTime /\ done' \subseteq 1 .. MaxRecords
      BY <1>2, <1>3 DEF Files
    <2> QED  BY <1>5, <2>2, <2>3 DEF Files
  <1>8. Counts' = Counts + 1
    <2>1. /\ Len(parent) \in Nat /\ Len(child) \in Nat
          /\ parent \in Seq(Line) /\ child \in Seq(Line)
      BY <1>2 DEF Files, Script
    <2>2. Results(parent) \in Nat /\ Results(child) \in Nat  BY <2>1, ResultsIs
    <2>3. Results(parent') = Results(parent) /\ Cardinality(done') = Cardinality(done)
      BY <1>2
    <2>4. Cardinality(done) \in Nat  BY <1>2, DoneFinite
    <2>5. Len(parent') = Len(parent)  BY <1>2
    <2> QED  BY ONLY <1>6, <2>1, <2>2, <2>3, <2>4, <2>5 DEF Counts
  <1> QED  BY <1>2, <1>7, <1>8, CountsLarger

LEMMA ScriptEnd ==
  ASSUME NEW time \in Nat, NEW s, Script(s, time), NEW i \in DOMAIN s,
         s[i].says = "nothing", NEW says \in Says \ {"nothing"}, NEW t,
         t = Told(s, i, says, time)
  PROVE  Script(t, time) /\ Len(t) = Len(s) /\ Results(t) = Results(s) + 1
  <1>1. /\ s \in Seq(Line)
        /\ \A j \in DOMAIN s : /\ s[j].at \in 1 .. time /\ s[j].told \in 0 .. time
                               /\ s[j].id \in 1 .. MaxRecords
    BY DEF Script
  <1>2. /\ t \in Seq(Line) /\ Len(t) = Len(s) /\ Results(t) = Results(s) + 1
        /\ DOMAIN t = DOMAIN s
        /\ \A j \in DOMAIN s : t[j].at = s[j].at /\ t[j].id = s[j].id
        /\ \A j \in DOMAIN s : t[j].told \in {s[j].told, time}
    BY <1>1, ResultsEnd
  <1>3. time \in 0 .. time  OBVIOUS
  <1> QED  BY ONLY <1>1, <1>2, <1>3 DEF Script

LEMMA ResultInSessionLarger == ASSUME IInv, ResultInSession PROVE Larger
  <1>1. PICK i \in DOMAIN parent, says \in Says \ {"nothing"} :
          /\ parent[i].says = "nothing"
          /\ parent' = Told(parent, i, says, now')
    BY DEF Told, ResultInSession
  <1>2. /\ Files /\ child' = child /\ touched' = touched /\ done' = done
        /\ now' \in {now, now + 1} \cap (1 .. MaxTime)
    BY DEF IInv, ResultInSession, Grows
  <1>3. now \in Nat /\ now' \in Nat /\ now <= now'  BY <1>2 DEF Files
  <1>4. Script(parent, now') /\ Script(child, now')
    <2>1. Script(parent, now) /\ Script(child, now)  BY <1>2 DEF Files
    <2> QED  BY ONLY <1>3, <2>1, ScriptLater
  <1>5. /\ Script(parent', now') /\ Len(parent') = Len(parent)
        /\ Results(parent') = Results(parent) + 1
    BY ONLY <1>1, <1>3, <1>4, ScriptEnd
  <1>7. Files'
    <2>1. Len(parent') + Len(child') <= MaxRecords  BY <1>2, <1>5 DEF Files
    <2>2. touched' \in 0 .. now' /\ now' \in 1 .. MaxTime /\ done' \subseteq 1 .. MaxRecords
      BY <1>2, <1>3 DEF Files
    <2> QED  BY <1>2, <1>4, <1>5, <2>1, <2>2 DEF Files
  <1>8. Counts' = Counts + 1
    <2>1. /\ Len(parent) \in Nat /\ Len(child) \in Nat
          /\ parent \in Seq(Line) /\ child \in Seq(Line)
      BY <1>2 DEF Files, Script
    <2>2. Results(parent) \in Nat /\ Results(child) \in Nat  BY <2>1, ResultsIs
    <2>3. Results(child') = Results(child) /\ Cardinality(done') = Cardinality(done)
      BY <1>2
    <2>4. Cardinality(done) \in Nat  BY <1>2, DoneFinite
    <2>5. Len(child') = Len(child)  BY <1>2
    <2> QED  BY ONLY <1>5, <2>1, <2>2, <2>3, <2>4, <2>5 DEF Counts
  <1> QED  BY <1>2, <1>7, <1>8, CountsLarger

LEMMA ResultInSubagentLarger == ASSUME IInv, ResultInSubagent PROVE Larger
  <1>1. PICK i \in DOMAIN child, says \in Says \ {"nothing"} :
          /\ child[i].says = "nothing"
          /\ child' = Told(child, i, says, now')
    BY DEF Told, ResultInSubagent
  <1>2. /\ Files /\ parent' = parent /\ touched' = now' /\ done' = done
        /\ now' \in {now, now + 1} \cap (1 .. MaxTime)
    BY DEF IInv, ResultInSubagent, Grows
  <1>3. now \in Nat /\ now' \in Nat /\ now <= now'  BY <1>2 DEF Files
  <1>4. Script(parent, now') /\ Script(child, now')
    <2>1. Script(parent, now) /\ Script(child, now)  BY <1>2 DEF Files
    <2> QED  BY ONLY <1>3, <2>1, ScriptLater
  <1>5. /\ Script(child', now') /\ Len(child') = Len(child)
        /\ Results(child') = Results(child) + 1
    BY ONLY <1>1, <1>3, <1>4, ScriptEnd
  <1>7. Files'
    <2>1. Len(parent') + Len(child') <= MaxRecords  BY <1>2, <1>5 DEF Files
    <2>2. touched' \in 0 .. now' /\ now' \in 1 .. MaxTime /\ done' \subseteq 1 .. MaxRecords
      BY <1>2, <1>3 DEF Files
    <2> QED  BY <1>2, <1>4, <1>5, <2>1, <2>2 DEF Files
  <1>8. Counts' = Counts + 1
    <2>1. /\ Len(parent) \in Nat /\ Len(child) \in Nat
          /\ parent \in Seq(Line) /\ child \in Seq(Line)
      BY <1>2 DEF Files, Script
    <2>2. Results(parent) \in Nat /\ Results(child) \in Nat  BY <2>1, ResultsIs
    <2>3. Results(parent') = Results(parent) /\ Cardinality(done') = Cardinality(done)
      BY <1>2
    <2>4. Cardinality(done) \in Nat  BY <1>2, DoneFinite
    <2>5. Len(parent') = Len(parent)  BY <1>2
    <2> QED  BY ONLY <1>5, <2>1, <2>2, <2>3, <2>4, <2>5 DEF Counts
  <1> QED  BY <1>2, <1>7, <1>8, CountsLarger

LEMMA CompletesLarger == ASSUME IInv, Completes PROVE Larger
  <1>1. PICK c \in ToSet(parent) \cup ToSet(child) :
          /\ c.does \in {"launch", "background-check"} /\ ~Refused(c) /\ c.id \notin done
          /\ done' = done \cup {c.id}
    BY DEF Completes
  <1>2. /\ Files /\ parent' = parent /\ child' = child /\ touched' = touched
        /\ now' \in {now, now + 1} \cap (1 .. MaxTime)
    BY DEF IInv, Completes, Grows
  <1>3. now \in Nat /\ now' \in Nat /\ now <= now'  BY <1>2 DEF Files
  <1>4. Script(parent, now') /\ Script(child, now')
    <2>1. Script(parent, now) /\ Script(child, now)  BY <1>2 DEF Files
    <2> QED  BY ONLY <1>3, <2>1, ScriptLater
  <1>5. c.id \in 1 .. MaxRecords  BY <1>4 DEF Script, ToSet
  <1>7. Files'
    <2>1. done' \subseteq 1 .. MaxRecords  BY <1>1, <1>2, <1>5 DEF Files
    <2>2. touched' \in 0 .. now' /\ now' \in 1 .. MaxTime /\ done' \subseteq 1 .. MaxRecords
      BY <1>2, <1>3, <2>1 DEF Files
    <2> QED  BY <1>2, <1>4, <2>2 DEF Files
  <1>8. Counts' = Counts + 1
    <2>1. /\ Len(parent) \in Nat /\ Len(child) \in Nat
          /\ parent \in Seq(Line) /\ child \in Seq(Line)
      BY <1>2 DEF Files, Script
    <2>2. Results(parent) \in Nat /\ Results(child) \in Nat  BY <2>1, ResultsIs
    <2>3. /\ Results(parent') = Results(parent) /\ Results(child') = Results(child)
          /\ Len(parent') = Len(parent) /\ Len(child') = Len(child)
      BY <1>2
    <2>4. IsFiniteSet(done) /\ Cardinality(done) \in Nat  BY <1>2, DoneFinite
    <2>5. Cardinality(done') = Cardinality(done) + 1  BY <1>1, <2>4, FS_AddElement
    <2> QED  BY ONLY <2>1, <2>2, <2>3, <2>4, <2>5 DEF Counts
  <1> QED  BY <1>2, <1>7, <1>8, CountsLarger
-----------------------------------------------------------------------------
\* What a request does.
LEMMA FileContext ==
  ASSUME Files, NEW p, Script(p, now), NEW completed, completed \subseteq 1 .. MaxRecords,
         NEW moving \in BOOLEAN
  PROVE  /\ Calls(p, child) \in Seq(Called)
         /\ Context(p, child, touched, completed, moving) \in Contexts
  <1>1. /\ p \in Seq(Line) /\ child \in Seq(Line) /\ now \in Nat /\ touched \in 0 .. now
        /\ completed \in SUBSET Nat
    BY LiveEstimateAssumption DEF Files, Script
  <1>2. Until(p, now) /\ Until(child, now)
    <2>1. \A s : Script(s, now) => Until(s, now)  BY <1>1 DEF Script, Until
    <2> QED  BY <2>1 DEF Files
  <1>3. Calls(p, child) \in Seq(Called)  BY <1>1, ReadIs
  <1> QED  BY ONLY <1>1, <1>2, <1>3, ContextIs, moving \in BOOLEAN

\* A step that leaves the files and the kept replay as they are, and one request moves.
LEMMA RequestMoves ==
  ASSUME IInv, UNCHANGED files, NEW r \in Readers, NEW f,
         flight' = [flight EXCEPT ![r] = f], Request(f), Stored',
         f.at \in {"reading", "replayed"} =>
           (Reading => flight[r].at \in {"reading", "replayed"})
  PROVE  IInv'
  <1>1. Files' /\ Folders'  BY DEF IInv, Files, Folders, files, records
  <1>2. DOMAIN flight = Readers  BY DEF IInv, Requests
  <1>3. flight'[r] = f /\ \A q \in Readers \ {r} : flight'[q] = flight[q]  BY <1>2
  <1>4. \A g : Request(g) => Request(g)'
    <2>1. /\ \A s : Past(s) => Past(s)' /\ (s = Signature' <=> s = Signature)
          /\ \A e : OfTheFiles(e) => OfTheFiles(e)'
      BY DEF files, records, Past, OfTheFiles, Signature, Lines, Results
    <2> QED  BY <2>1 DEF Request, Begun, Read, files, records
  <1>5. Requests'
    <2>1. DOMAIN flight' = Readers  BY <1>2
    <2>2. ASSUME NEW q \in Readers PROVE Request(flight[q])'
      <3>1. Request(flight'[q])  BY <1>3 DEF IInv, Requests
      <3> QED  BY <1>4, <3>1 DEF Request, Begun, Read
    <2> QED  BY <2>1, <2>2 DEF Requests
  <1>6. OneReads'
    <2>1. ASSUME NEW q \in Readers \ {r}, f.at \in {"reading", "replayed"},
                 flight[q].at \in {"reading", "replayed"}
          PROVE  FALSE
      BY <2>1 DEF IInv, OneReads, Reading
    <2> QED  BY <1>3, <2>1 DEF IInv, OneReads
  <1> QED  BY <1>1, <1>5, <1>6 DEF IInv

LEMMA AskKeeps == ASSUME IInv, NEW r \in Readers, Ask(r) PROVE IInv'
  <1> DEFINE f == [at |-> "asked", signature |-> Signature]
  <1>1. Past(Signature)
    <2>1. Signature \in Nat \X Nat /\ Lines(Signature) \in Nat  BY SizesIs DEF IInv
    <2> QED  BY <2>1 DEF Past
  <1>2. f.at = "asked" /\ f.signature = Signature  OBVIOUS
  <1>3. flight' = [flight EXCEPT ![r] = f] /\ UNCHANGED <<files, cache>>  BY DEF Ask
  <1>4. Stored'  BY <1>3 DEF IInv, Stored, files, records, Past, OfTheFiles, Signature, Lines,
              Results
  <1> HIDE DEF f
  <1>5. Request(f)  BY <1>1, <1>2 DEF Request, UnderWay
  <1> QED  BY <1>2, <1>3, <1>4, <1>5, RequestMoves

LEMMA HitKeeps == ASSUME IInv, NEW r \in Readers, Hit(r) PROVE IInv'
  <1> DEFINE f == Answered(cache)
  <1>1. cache # Nothing
    <2>1. flight[r].at = "asked" /\ cache.signature = flight[r].signature  BY DEF Hit
    <2>2. flight[r].signature \in Nat \X Nat  BY <2>1 DEF IInv, Requests, Request, Past
    <2>3. <<>> \notin Nat \X Nat  OBVIOUS
    <2>4. Nothing.signature = <<>>  BY DEF Nothing, Moved
    <2> QED  BY ONLY <2>1, <2>2, <2>3, <2>4
  <1>2. cache.level \in Levels  BY <1>1, WholeLevel DEF IInv, Stored
  <1>3. f.at = "answered" /\ f.level = cache.level  BY DEF Answered
  <1>4. flight' = [flight EXCEPT ![r] = f] /\ UNCHANGED <<files, cache>>  BY DEF Hit
  <1>5. Stored'  BY <1>4 DEF IInv, Stored, files, records, Past, OfTheFiles, Signature, Lines,
              Results
  <1> HIDE DEF f
  <1>6. Request(f)  BY <1>2, <1>3 DEF Request
  <1> QED  BY <1>3, <1>4, <1>5, <1>6, RequestMoves

LEMMA LeadKeeps == ASSUME IInv, NEW r \in Readers, Lead(r) PROVE IInv'
  <1>1. UNCHANGED <<files, cache>> /\ flight[r].at = "asked"  BY DEF Lead
  <1>2. Stored'  BY <1>1 DEF IInv, Stored, files, records, Past, OfTheFiles, Signature, Lines,
              Results
  <1>3. CASE Reading
    <2>1. flight' = [flight EXCEPT ![r] = Idle] /\ Idle.at = "idle"
      BY <1>3 DEF Lead, Idle
    <2>2. Request(Idle)  BY <2>1 DEF Request
    <2> QED  BY <1>1, <1>2, <2>1, <2>2, RequestMoves
  <1>4. CASE ~Reading
    <2> DEFINE f == [at |-> "reading", signature |-> flight[r].signature, parent |-> parent,
                     done |-> done]
    <2>1. /\ f.at = "reading" /\ f.signature = flight[r].signature /\ f.parent = parent
          /\ f.done = done
      OBVIOUS
    <2>2. flight' = [flight EXCEPT ![r] = f]  BY <1>4 DEF Lead, IInv, Requests
    <2> HIDE DEF f
    <2>3. Past(f.signature)  BY <1>1, <2>1 DEF IInv, Requests, Request
    <2>4. Begun(f)  BY <2>1, <2>3 DEF Begun, IInv, Files
    <2>5. Request(f)  BY <2>1, <2>4 DEF Request, UnderWay
    <2> QED  BY <1>1, <1>2, <1>4, <2>1, <2>2, <2>5, RequestMoves
  <1> QED  BY <1>3, <1>4

LEMMA ReadChildKeeps == ASSUME IInv, NEW r \in Readers, ReadChild(r) PROVE IInv'
  <1> DEFINE g == flight[r]
             calls == Calls(g.parent, child)
             ctx == Context(g.parent, child, touched, g.done, FALSE)
             e == Replayed(cache, calls, ctx, there)
             f == [at |-> "replayed", signature |-> g.signature, entry |-> e]
  <1>1. g.at = "reading" /\ UNCHANGED <<files, cache>>  BY DEF ReadChild
  <1>2. flight' = [flight EXCEPT ![r] = f]  BY DEF ReadChild
  <1>3. Stored'  BY <1>1 DEF IInv, Stored, files, records, Past, OfTheFiles, Signature, Lines,
              Results
  <1>4. f.at = "replayed" /\ f.signature = g.signature /\ f.entry = e  OBVIOUS
  <1>5. Begun(g)  BY <1>1 DEF IInv, Requests, Request
  <1>6. calls \in Seq(Called) /\ ctx \in Contexts
    BY <1>5, FileContext DEF IInv, Begun
  <1>7. cache = Nothing \/ Whole(cache)  BY DEF IInv, Stored
  <1>8. Whole(e) /\ e.marks = calls /\ e.context = ctx
    <2>1. there \in SUBSET DOMAIN Inside  BY DEF IInv, Folders
    <2> HIDE DEF calls, ctx
    <2> QED  BY <1>6, <1>7, <2>1, ReplayedWhole
  <1>9. g.signature = Signature
          => calls = Calls(parent, child) /\ ctx = Context(parent, child, touched, done, FALSE)
    BY <1>5 DEF Begun
  <1> HIDE DEF f, e, calls, ctx
  <1>10. Read(f)  BY <1>4, <1>5, <1>8, <1>9 DEF Read, Begun, OfTheFiles
  <1>11. Request(f)  BY <1>4, <1>10 DEF Request, UnderWay
  <1> QED  BY <1>1, <1>2, <1>3, <1>11, RequestMoves

LEMMA FinishKeeps == ASSUME IInv, NEW r \in Readers, Finish(r) PROVE IInv'
  <1>1. flight[r].at = "replayed" /\ UNCHANGED files  BY DEF Finish
  <1>2. Read(flight[r])  BY <1>1 DEF IInv, Requests, Request
  <1>3. CASE Signature = flight[r].signature
    <2> DEFINE e == flight[r].entry
               kept == [e EXCEPT !.signature = Signature]
               f == Answered(kept)
    <2>1. cache' = kept /\ flight' = [flight EXCEPT ![r] = f]  BY <1>3 DEF Finish
    <2>2. Whole(e) /\ OfTheFiles(e)  BY <1>2, <1>3 DEF Read
    <2>3. /\ Whole(kept) /\ kept.signature = Signature
          /\ kept.marks = e.marks /\ kept.context = e.context
      BY <2>2, Resigned
    <2>4. f.at = "answered" /\ f.level = kept.level  BY DEF Answered
    <2> HIDE DEF kept, f, e
    <2>5. Request(f)  BY <2>3, <2>4, WholeLevel DEF Request
    <2>6. Past(Signature)'
      <3>1. Signature \in Nat \X Nat /\ Lines(Signature) \in Nat  BY SizesIs DEF IInv
      <3> QED  BY <1>1, <3>1 DEF Past, files, records, Signature, Lines, Results
    <2>7. OfTheFiles(cache)'  BY <1>1, <2>1, <2>2, <2>3 DEF OfTheFiles, files, records
    <2>8. cache'.signature = Signature'
      BY <1>1, <2>1, <2>3 DEF files, records, Signature, Results
    <2>9. Stored'  BY <2>1, <2>3, <2>6, <2>7, <2>8 DEF Stored
    <2> QED  BY <1>1, <2>1, <2>4, <2>5, <2>9, RequestMoves
  <1>4. CASE Signature # flight[r].signature
    <2> DEFINE calls == Calls(parent, child)
               ctx == Context(parent, child, touched, done, TRUE)
               f == Answered(Uncertain)
    <2>1. cache' = cache /\ flight' = [flight EXCEPT ![r] = f]  BY <1>4 DEF Finish
    <2>2. calls \in Seq(Called) /\ ctx \in Contexts
      <3>1. Files /\ Script(parent, now) /\ done \subseteq 1 .. MaxRecords  BY DEF IInv, Files
      <3>2. TRUE \in BOOLEAN  OBVIOUS
      <3> QED  BY ONLY <3>1, <3>2, FileContext
    <2>3. Uncertain = Replayed(Nothing, calls, ctx, there)  BY DEF Uncertain
    <2>8. there \in SUBSET DOMAIN Inside  BY DEF IInv, Folders
    <2> HIDE DEF calls, ctx
    <2>4. Whole(Uncertain)  BY <2>2, <2>3, <2>8, ReplayedWhole
    <2>5. f.at = "answered" /\ f.level = Uncertain.level  BY DEF Answered
    <2> HIDE DEF f
    <2>6. Request(f)  BY <2>4, <2>5, WholeLevel DEF Request
    <2>7. Stored'
      BY <1>1, <2>1 DEF IInv, Stored, files, records, Past, OfTheFiles, Signature, Lines,
              Results
    <2> QED  BY <1>1, <2>1, <2>5, <2>6, <2>7, RequestMoves
  <1> QED  BY <1>3, <1>4

LEMMA EvictKeeps == ASSUME IInv, Evict PROVE IInv'
  <1>1. UNCHANGED <<files, flight>> /\ cache' = Nothing  BY DEF Evict
  <1>2. Stored'  BY <1>1 DEF Stored
  <1>3. Files' /\ Folders' /\ OneReads'
    BY <1>1 DEF IInv, Files, Folders, files, records, OneReads
  <1>4. Requests'
    BY <1>1 DEF IInv, Requests, Request, Begun, Read, files, records, Past, OfTheFiles, Signature,
                Lines, Results
  <1> QED  BY <1>2, <1>3, <1>4 DEF IInv

\* Nothing that was kept or is under way is of the folders on the disk.
LEMMA FolderMovesKeeps == ASSUME IInv, FolderMoves PROVE IInv'
  <1>1. /\ UNCHANGED <<records, cache>> /\ there' \subseteq DOMAIN Inside
        /\ flight' = [r \in Readers |-> IF flight[r].at \in UnderWay THEN flight[r] ELSE Idle]
    BY DEF FolderMoves
  <1>2. Files' /\ Folders'  BY <1>1 DEF IInv, Files, Folders, records
  <1>3. /\ \A s : Past(s) => Past(s)' /\ (s = Signature' <=> s = Signature)
        /\ \A e : OfTheFiles(e) => OfTheFiles(e)'
    BY <1>1 DEF records, Past, OfTheFiles, Signature, Lines, Results
  <1>4. Stored'  BY <1>1, <1>3 DEF IInv, Stored
  <1>5. Requests'
    <2>1. \A g : Request(g) => Request(g)'
      BY <1>1, <1>3 DEF Request, Begun, Read, records
    <2>2. ASSUME NEW r \in Readers PROVE Request(flight'[r])
      <3>1. Request(flight[r])  BY DEF IInv, Requests
      <3>2. Idle.at = "idle"  BY DEF Idle
      <3>3. Request(Idle)  BY <3>2 DEF Request, UnderWay
      <3> QED  BY <1>1, <3>1, <3>3
    <2>3. \A r \in Readers : Request(flight[r])'
      <3> SUFFICES ASSUME NEW r \in Readers PROVE Request(flight[r])'  OBVIOUS
      <3>1. Request(flight'[r])  BY <2>2
      <3> QED  BY <2>1, <3>1 DEF Request, Begun, Read
    <2>4. DOMAIN flight' = Readers  BY <1>1
    <2> QED  BY <2>3, <2>4 DEF Requests
  <1>6. OneReads'
    <2>1. ASSUME NEW r \in Readers, flight'[r].at \in {"reading", "replayed"}
          PROVE  flight[r].at \in {"reading", "replayed"}
      BY <1>1, <2>1 DEF Idle
    <2> QED  BY <2>1 DEF IInv, OneReads
  <1> QED  BY <1>2, <1>4, <1>5, <1>6 DEF IInv

LEMMA InitIInv == ASSUME Init PROVE IInv
  <1>1. Files
    <2>1. Script(<<>>, now)  BY DEF Script
    <2>2. now = 1 /\ touched = 0 /\ done = {} /\ parent = <<>> /\ child = <<>>
      BY DEF Init, None
    <2>3. Len(<<>>) = 0  OBVIOUS
    <2> QED  BY <2>1, <2>2, <2>3, LiveEstimateAssumption DEF Files
  <1>2. Stored  BY DEF Init, Stored
  <1>3. flight = [r \in Readers |-> Idle] /\ Idle.at = "idle"  BY DEF Init, Idle
  <1>4. Requests /\ OneReads  BY <1>3 DEF Requests, Request, OneReads
  <1>5. Folders  BY DEF Init, Folders
  <1> QED  BY <1>1, <1>2, <1>4, <1>5 DEF IInv

LEMMA NextIInv == ASSUME IInv, [Next]_vars PROVE IInv'
  <1>1. CASE SessionWrites
    BY <1>1, SessionWritesLarger, GrowsKeeps DEF SessionWrites, Larger
  <1>2. CASE SubagentWrites
    BY <1>2, SubagentWritesLarger, GrowsKeeps DEF SubagentWrites, Larger
  <1>3. CASE ResultInSession
    BY <1>3, ResultInSessionLarger, GrowsKeeps DEF ResultInSession, Larger
  <1>4. CASE ResultInSubagent
    BY <1>4, ResultInSubagentLarger, GrowsKeeps DEF ResultInSubagent, Larger
  <1>5. CASE Completes
    BY <1>5, CompletesLarger, GrowsKeeps DEF Completes, Larger
  <1>6. CASE \E r \in Readers : Ask(r) \/ Hit(r) \/ Lead(r) \/ ReadChild(r) \/ Finish(r)
    BY <1>6, AskKeeps, HitKeeps, LeadKeeps, ReadChildKeeps, FinishKeeps
  <1>7. CASE Evict  BY <1>7, EvictKeeps
  <1>8. CASE UNCHANGED vars
    <2> USE DEF vars, files, records
    <2>1. Files' /\ Folders' /\ OneReads'  BY <1>8 DEF IInv, Files, Folders, OneReads
    <2>2. Stored'
      BY <1>8 DEF IInv, Stored, Past, OfTheFiles, Signature, Lines, Results
    <2>3. Requests'
      BY <1>8 DEF IInv, Requests, Request, Begun, Read, Past, OfTheFiles, Signature, Lines,
                  Results
    <2> QED  BY <2>1, <2>2, <2>3 DEF IInv
  <1>9. CASE FolderMoves  BY <1>9, FolderMovesKeeps
  <1> QED  BY <1>1, <1>2, <1>3, <1>4, <1>5, <1>6, <1>7, <1>8, <1>9 DEF Next

\* In every state reached, the files are as the program's steps leave them, one request
\* reads at a time, and a replay kept or under way is what a replay from nothing of the
\* same calls would find, its base and its tally those that replay would have there.
THEOREM LiveEstimateInv == Spec => []IInv
  <1> QED  BY InitIInv, NextIInv, PTL DEF Spec

\* Every variable has its type, one request reads at a time, and a replay is kept with a
\* level for each call of its window (live_estimate.py's _found_from_steps).
THEOREM LiveEstimateTypeOK == Spec => []TypeOK
  <1>1. ASSUME IInv PROVE TypeOK
    <2>1. /\ now \in 1 .. MaxTime /\ touched \in 0 .. now
          /\ Len(parent) + Len(child) <= MaxRecords /\ done \subseteq 1 .. MaxRecords
          /\ there \subseteq DOMAIN Inside
      BY <1>1 DEF IInv, Files, Folders
    <2>2. \A c \in ToSet(parent) \cup ToSet(child) :
            c.at \in 1 .. now /\ c.says \in Says /\ c.told \in 0 .. now
      <3>1. ASSUME NEW s, Script(s, now), NEW c \in ToSet(s)
            PROVE  c.at \in 1 .. now /\ c.says \in Says /\ c.told \in 0 .. now
        <4>1. PICK i \in DOMAIN s : c = s[i]  BY DEF ToSet
        <4>2. s \in Seq(Line) /\ s[i].at \in 1 .. now /\ s[i].told \in 0 .. now
          BY <3>1 DEF Script
        <4>3. s[i] \in Line  BY <4>2
        <4> QED  BY <4>1, <4>2, <4>3 DEF Line, Entry
      <3>2. Script(parent, now) /\ Script(child, now)  BY <1>1 DEF IInv, Files
      <3> QED  BY <3>1, <3>2
    <2>3. \A r \in Readers :
            /\ flight[r].at \in UnderWay \cup {"idle", "answered"}
            /\ flight[r].at = "answered" => flight[r].level \in Levels
      BY <1>1 DEF IInv, Requests, Request
    <2>4. Cardinality({r \in Readers : flight[r].at \in {"reading", "replayed"}}) <= 1
      <3> DEFINE S == {r \in Readers : flight[r].at \in {"reading", "replayed"}}
      <3>1. \A r, q \in S : r = q  BY <1>1 DEF IInv, OneReads
      <3> HIDE DEF S
      <3>2. CASE S = {}
        <4>1. Cardinality(S) = 0  BY ONLY <3>2, FS_EmptySet
        <4> QED  BY <4>1 DEF S
      <3>3. CASE S # {}
        <4>1. PICK r : S = {r}  BY <3>1, <3>3
        <4>2. Cardinality(S) = 1  BY ONLY <4>1, FS_Singleton
        <4> QED  BY <4>2 DEF S
      <3> QED  BY <3>2, <3>3
    <2>5. cache # Nothing => /\ First(cache.marks) .. Len(cache.marks) \subseteq DOMAIN cache.steps
                             /\ Len(cache.safe) = First(cache.marks)
      BY <1>1, WholeWindow DEF IInv, Stored
    <2> QED  BY <2>1, <2>2, <2>3, <2>4, <2>5 DEF TypeOK
  <1> QED  BY <1>1, LiveEstimateInv, PTL

\* What is kept for the files as they are is what a replay from nothing finds in them,
\* level and rise, by whichever path it was come to: gone on with from its end, from its
\* base with calls taken out of its head, or from nothing with levels kept
\* (live_estimate.py's prefix, shifted head and kept steps). The folders on the disk are
\* no part of the files: each level kept is that of the folders it was judged by.
THEOREM LiveEstimateIsFresh == Spec => []ReplayIsFresh
  <1>1. ASSUME IInv PROVE ReplayIsFresh
    <2> DEFINE calls == Calls(parent, child)
               ctx == Context(parent, child, touched, done, FALSE)
    <2> SUFFICES ASSUME cache.signature = Signature, NEW step \in Range(cache.steps), NEW found,
                        found = Replayed(Nothing, calls, ctx, step.on)
        PROVE  LET judged == {i \in DOMAIN found.steps :
                                cache.steps[i].on = found.steps[i].on}
               IN /\ \A i \in judged : cache.steps[i].level = found.steps[i].level
                  /\ Len(found.marks) \in judged => cache.level = found.level
                  /\ judged = DOMAIN found.steps => cache.rose = found.rose
      BY DEF ReplayIsFresh
    <2>1. cache # Nothing
      <3>1. Signature \in Nat \X Nat  BY <1>1, SizesIs DEF IInv
      <3>2. <<>> \notin Nat \X Nat  OBVIOUS
      <3>3. Nothing.signature = <<>>  BY DEF Nothing, Moved
      <3> QED  BY ONLY <3>1, <3>2, <3>3, cache.signature = Signature
    <2>2. Whole(cache) /\ cache.marks = calls /\ cache.context = ctx
      BY <1>1, <2>1 DEF IInv, Stored, OfTheFiles
    <2>3. calls \in Seq(Called) /\ ctx \in Contexts
      <3>1. Files /\ Script(parent, now) /\ done \subseteq 1 .. MaxRecords
        BY <1>1 DEF IInv, Files
      <3>2. FALSE \in BOOLEAN  OBVIOUS
      <3> QED  BY ONLY <3>1, <3>2, FileContext
    <2> HIDE DEF calls, ctx
    <2>4. step.on \in SUBSET DOMAIN Inside
      <3>1. PICK i \in DOMAIN cache.steps : step = cache.steps[i]  BY DEF Range
      <3>2. Judged(cache.steps[i], Pure(cache.marks, cache.context)[i])
        BY <2>2 DEF Whole, Coherent
      <3> QED  BY <3>1, <3>2 DEF Judged
    <2>5. Whole(found) /\ found.marks = calls /\ found.context = ctx
      BY <2>3, <2>4, ReplayedWhole
    <2>6. /\ DOMAIN cache.steps = DOMAIN found.steps /\ Len(calls) \in DOMAIN cache.steps
          /\ \A i \in DOMAIN cache.steps : cache.steps[i].on = found.steps[i].on
               => cache.steps[i] = found.steps[i]
          /\ (\A i \in DOMAIN cache.steps : cache.steps[i].on = found.steps[i].on)
               => cache.rose = found.rose
      BY <2>2, <2>5, CoherentSame DEF Whole
    <2>7. /\ cache.level = cache.steps[Len(calls)].level
          /\ found.level = found.steps[Len(calls)].level
      BY <2>2, <2>5 DEF Whole, Coherent
    <2> QED  BY <2>5, <2>6, <2>7
  <1> QED  BY <1>1, LiveEstimateInv, PTL
-----------------------------------------------------------------------------
\* What a tally knows of the calls that were added to it.
OfCall(run, k, c) == Ran(c) /\ c.of = k /\ run = RunOf(c, run.seq)
RunsKnown(t, calls, n) ==
  /\ \A k \in Checks : \A m \in DOMAIN t.runs[k] : \E j \in 1 .. n : OfCall(t.runs[k][m], k, calls[j])
  /\ \A j \in 1 .. n : Ran(calls[j]) =>
       \E m \in DOMAIN t.runs[calls[j].of] : OfCall(t.runs[calls[j].of][m], calls[j].of, calls[j])
  /\ \A k \in Checks : \A l, m \in DOMAIN t.runs[k] : \A i, j \in 1 .. n :
       l < m /\ OfCall(t.runs[k][l], k, calls[i]) /\ OfCall(t.runs[k][m], k, calls[j]) => i < j
WriteList(w) ==
  /\ w = [i \in 1 .. Len(w) |-> w[i]] /\ Len(w) \in Nat
  /\ \A i \in 1 .. Len(w) : w[i].subject = "write"
HasPath(w, path) == \E i \in 1 .. Len(w) : w[i].path = path
WritesKnown(t, calls, n) ==
  /\ WriteList(t.writes)
  /\ \A j \in 1 .. n : Wrote(calls[j]) =>
       /\ Call(calls[j]) \in t.writeCalls
       /\ \/ calls[j].of = Stray /\ t.outside > 0
          \/ HasPath(t.writes, calls[j].of)
LaunchesKnown(t, calls, n) ==
  /\ \A i \in 1 .. Len(t.launches) : t.launches[i].subject = "launch"
  /\ \A j \in 1 .. n : Launched(calls[j]) =>
       \E i \in 1 .. Len(t.launches) : t.launches[i].id = calls[j].id
ChangesKnown(t, calls, n) ==
  /\ t.lastChange \in Nat
  /\ \A j \in 1 .. n : Alters(calls[j]) => calls[j].at <= t.lastChange
Knows(t, calls, n) ==
  RunsKnown(t, calls, n) /\ WritesKnown(t, calls, n) /\ LaunchesKnown(t, calls, n)
    /\ ChangesKnown(t, calls, n)

\* Calls in the order of their times, each under an id of its own.
InOrderOfTime(calls) ==
  \A i, j \in 1 .. Len(calls) : i < j => calls[i].at <= calls[j].at /\ calls[i].id # calls[j].id

\* A run is of one call.
LEMMA CallOf ==
  ASSUME NEW calls \in Seq(Called), InOrderOfTime(calls), NEW i \in 1 .. Len(calls), NEW j \in 1 .. Len(calls),
         NEW run, NEW k, OfCall(run, k, calls[i]), OfCall(run, k, calls[j])
  PROVE  i = j
  <1>1. run.id = calls[i].id /\ run.id = calls[j].id  BY DEF OfCall, RunOf
  <1>2. i < j \/ j < i \/ i = j  OBVIOUS
  <1> QED  BY <1>1, <1>2 DEF InOrderOfTime

LEMMA RunsLearnt ==
  ASSUME NEW calls \in Seq(Called), InOrderOfTime(calls), NEW n \in Nat, n + 1 <= Len(calls),
         NEW t, Tally(t), RunsKnown(t, calls, n), NEW u, Adds(t, calls[n + 1], u)
  PROVE  RunsKnown(u, calls, n + 1)
  <1> DEFINE c == calls[n + 1]
             run == RunOf(c, t.seq + 1)
  <1>1. n + 1 \in 1 .. Len(calls) /\ 1 .. n \subseteq 1 .. Len(calls) /\ Len(calls) \in Nat
    OBVIOUS
  <1>2. IsCall(c)  BY <1>1, CalledIs
  <1>3. \A i \in 1 .. n + 1 : i \in 1 .. n \/ i = n + 1  OBVIOUS
  <1>4. u.runs = IF Ran(c) THEN [t.runs EXCEPT ![c.of] = Append(@, run)] ELSE t.runs
    BY DEF Adds
  <1>5. t.runs \in [Checks -> Seq(Run)]  BY DEF Tally
  <1>6. CASE ~Ran(c)
    <2>1. u.runs = t.runs  BY <1>4, <1>6
    <2>2. \A r, k : ~OfCall(r, k, c)  BY <1>6 DEF OfCall
    <2> HIDE DEF c
    <2>3. \A k \in Checks : \A m \in DOMAIN u.runs[k] :
            \E j \in 1 .. n + 1 : OfCall(u.runs[k][m], k, calls[j])
      <3>1. 1 .. n \subseteq 1 .. n + 1  OBVIOUS
      <3> QED  BY <2>1, <3>1 DEF RunsKnown
    <2>4. \A j \in 1 .. n + 1 : Ran(calls[j]) =>
            \E m \in DOMAIN u.runs[calls[j].of] : OfCall(u.runs[calls[j].of][m], calls[j].of, calls[j])
      BY <1>3, <1>6, <2>1 DEF RunsKnown, c
    <2>5. \A k \in Checks : \A l, m \in DOMAIN u.runs[k] : \A i, j \in 1 .. n + 1 :
       l < m /\ OfCall(u.runs[k][l], k, calls[i]) /\ OfCall(u.runs[k][m], k, calls[j]) => i < j
      BY <1>3, <2>1, <2>2 DEF RunsKnown, c
    <2> QED  BY <2>3, <2>4, <2>5 DEF RunsKnown
  <1>7. CASE Ran(c)
    <2> DEFINE h == t.runs[c.of]
    <2>1. c.of \in Checks  BY <1>2, <1>7 DEF Ran, IsCall
    <2>2. h \in Seq(Run)  BY <1>5, <2>1
    <2>3. /\ u.runs[c.of] = Append(h, run)
          /\ \A k \in Checks \ {c.of} : u.runs[k] = t.runs[k]
      BY <1>4, <1>5, <1>7, <2>1
    <2>4. /\ DOMAIN Append(h, run) = 1 .. Len(h) + 1 /\ DOMAIN h = 1 .. Len(h) /\ Len(h) \in Nat
          /\ \A m \in 1 .. Len(h) : Append(h, run)[m] = h[m]
          /\ Append(h, run)[Len(h) + 1] = run
      <3> HIDE DEF h, run
      <3> QED  BY ONLY <2>2
    <2>5. OfCall(run, c.of, c)
      <3>1. run.seq = t.seq + 1  BY DEF RunOf
      <3> QED  BY <1>7, <3>1 DEF OfCall
    <2>6. \A k \in Checks : \A m \in DOMAIN t.runs[k] : ~OfCall(t.runs[k][m], k, c)
      <3> SUFFICES ASSUME NEW k \in Checks, NEW m \in DOMAIN t.runs[k], OfCall(t.runs[k][m], k, c)
                   PROVE  FALSE
        OBVIOUS
      <3>1. PICK j \in 1 .. n : OfCall(t.runs[k][m], k, calls[j])  BY DEF RunsKnown
      <3>2. j = n + 1  BY <1>1, <3>1, CallOf
      <3> QED  BY <3>2
    <2>7. \A j \in 1 .. n : ~OfCall(run, c.of, calls[j])
      <3> SUFFICES ASSUME NEW j \in 1 .. n, OfCall(run, c.of, calls[j]) PROVE FALSE  OBVIOUS
      <3>1. j = n + 1  BY <1>1, <2>5, CallOf
      <3> QED  BY <3>1
    <2> HIDE DEF c, run, h
    <2>8. ASSUME NEW k \in Checks, NEW m \in DOMAIN u.runs[k]
          PROVE  \/ m \in DOMAIN t.runs[k] /\ u.runs[k][m] = t.runs[k][m]
                 \/ k = c.of /\ m = Len(h) + 1 /\ u.runs[k][m] = run
      <3>1. CASE k # c.of  BY <2>3, <3>1
      <3>2. CASE k = c.of
        <4>1. u.runs[k] = Append(h, run) /\ t.runs[k] = h  BY <2>3, <3>2 DEF h
        <4>2. m \in 1 .. Len(h) + 1  BY <2>4, <4>1
        <4>3. CASE m \in 1 .. Len(h)  BY <2>4, <4>1, <4>3
        <4>4. CASE m = Len(h) + 1  BY <2>4, <3>2, <4>1, <4>4
        <4> QED  BY <2>4, <4>2, <4>3, <4>4
      <3> QED  BY <3>1, <3>2
    <2>9. ASSUME NEW k \in Checks, NEW m \in DOMAIN u.runs[k]
          PROVE  \E j \in 1 .. n + 1 : OfCall(u.runs[k][m], k, calls[j])
      <3>1. CASE m \in DOMAIN t.runs[k] /\ u.runs[k][m] = t.runs[k][m]
        <4>1. PICK j \in 1 .. n : OfCall(t.runs[k][m], k, calls[j])  BY <3>1 DEF RunsKnown
        <4>2. j \in 1 .. n + 1  OBVIOUS
        <4> QED  BY <3>1, <4>1, <4>2
      <3>2. CASE k = c.of /\ u.runs[k][m] = run
        <4>1. n + 1 \in 1 .. n + 1  OBVIOUS
        <4> QED  BY <2>5, <3>2, <4>1 DEF c
      <3> QED  BY <2>8, <3>1, <3>2
    <2>12. \A j \in 1 .. n : Ran(calls[j]) =>
             \E m \in DOMAIN t.runs[calls[j].of] :
               OfCall(t.runs[calls[j].of][m], calls[j].of, calls[j])
      BY DEF RunsKnown
    <2>10. ASSUME NEW j \in 1 .. n + 1, Ran(calls[j])
           PROVE  \E m \in DOMAIN u.runs[calls[j].of] :
                    OfCall(u.runs[calls[j].of][m], calls[j].of, calls[j])
      <3>1. CASE j = n + 1
        <4>1. Len(h) + 1 \in 1 .. Len(h) + 1  BY <2>4
        <4> QED  BY <2>3, <2>4, <2>5, <3>1, <4>1 DEF c
      <3>2. CASE j \in 1 .. n
        <4> DEFINE k == calls[j].of
        <4>1. PICK m \in DOMAIN t.runs[k] : OfCall(t.runs[k][m], k, calls[j])
          BY ONLY <2>10, <2>12, <3>2
        <4>2. k \in Checks
          <5>1. IsCall(calls[j])  BY <1>1, <3>2, CalledIs
          <5> QED  BY <5>1, <2>10 DEF Ran, IsCall
        <4>3. m \in DOMAIN u.runs[k] /\ u.runs[k][m] = t.runs[k][m]
          <5> HIDE DEF k
          <5>1. CASE k # c.of  BY <2>3, <4>2, <5>1
          <5>2. CASE k = c.of
            <6>1. u.runs[k] = Append(h, run) /\ t.runs[k] = h  BY <2>3, <5>2 DEF h
            <6>2. m \in 1 .. Len(h) /\ m \in 1 .. Len(h) + 1  BY <2>4, <4>1, <6>1
            <6> QED  BY <2>4, <6>1, <6>2
          <5> QED  BY <5>1, <5>2
        <4> QED  BY <4>1, <4>3
      <3> QED  BY <1>3, <3>1, <3>2
    <2>11. ASSUME NEW k \in Checks, NEW l \in DOMAIN u.runs[k], NEW m \in DOMAIN u.runs[k],
                  NEW i \in 1 .. n + 1, NEW j \in 1 .. n + 1, l < m,
                  OfCall(u.runs[k][l], k, calls[i]), OfCall(u.runs[k][m], k, calls[j])
           PROVE  i < j
      <3>1. l \in DOMAIN t.runs[k] /\ u.runs[k][l] = t.runs[k][l]
        <4> SUFFICES ASSUME k = c.of, l = Len(h) + 1 PROVE FALSE  BY <2>8
        <4>1. m \in 1 .. Len(h) + 1  BY <2>3, <2>4
        <4> QED  BY <2>4, <2>11, <4>1
      <3>2. i \in 1 .. n
        <4>1. i # n + 1  BY <2>6, <2>11, <3>1 DEF c
        <4> QED  BY <1>3, <4>1
      <3>3. CASE m \in DOMAIN t.runs[k] /\ u.runs[k][m] = t.runs[k][m]
        <4>1. j \in 1 .. n
          <5>1. j # n + 1  BY <2>6, <2>11, <3>3 DEF c
          <5> QED  BY <1>3, <5>1
        <4> QED  BY <2>11, <3>1, <3>2, <3>3, <4>1 DEF RunsKnown
      <3>4. CASE k = c.of /\ u.runs[k][m] = run
        <4>1. j \notin 1 .. n  BY <2>7, <2>11, <3>4
        <4> QED  BY <1>3, <3>2, <4>1
      <3> QED  BY <2>8, <3>3, <3>4
    <2> QED  BY <2>9, <2>10, <2>11 DEF RunsKnown
  <1> QED  BY <1>6, <1>7

LEMMA WrittenKnown ==
  ASSUME NEW w, WriteList(w), NEW c
  PROVE  /\ WriteList(Written(w, c)) /\ (c.of = Stray \/ HasPath(Written(w, c), c.of))
         /\ \A path : HasPath(w, path) => HasPath(Written(w, c), path)
  <1> SUFFICES ASSUME NEW v, v = Written(w, c)
               PROVE  /\ WriteList(v) /\ (c.of = Stray \/ HasPath(v, c.of))
                      /\ \A path : HasPath(w, path) => HasPath(v, path)
    OBVIOUS
  <1> DEFINE n == Len(w)
  <1>7. n \in Nat /\ w = [i \in 1 .. n |-> w[i]] /\ \A i \in 1 .. n : w[i].subject = "write"
    BY DEF WriteList
  <1> HIDE DEF n
  <1> DEFINE at == [subject |-> "write", rank |-> 2, path |-> c.of, at |-> c.at, id |-> c.id]
             again == {i \in DOMAIN w : w[i].path = c.of}
             place == CHOOSE i \in again : TRUE
  <1>1. v = IF c.of = Stray THEN w ELSE IF again = {} THEN Append(w, at)
            ELSE [w EXCEPT ![place] = at]
    BY DEF Written
  <1>2. at.subject = "write" /\ at.path = c.of  OBVIOUS
  <1>3. DOMAIN w = 1 .. n  BY <1>7
  <1> HIDE DEF at
  <1>4. CASE c.of = Stray  BY <1>1, <1>4
  <1>5. CASE c.of # Stray /\ again = {}
    <2>1. v = Append(w, at)  BY <1>1, <1>5
    <2>2. v = [i \in 1 .. n + 1 |-> IF i = n + 1 THEN at ELSE w[i]]
      BY ONLY <1>7, <2>1, AppendIs
    <2>3. /\ Len(v) = n + 1 /\ v[n + 1] = at /\ n + 1 \in 1 .. n + 1
          /\ \A i \in 1 .. n : v[i] = w[i] /\ i \in 1 .. n + 1
          /\ \A i \in 1 .. n + 1 : i \in 1 .. n \/ i = n + 1
      BY ONLY <1>7, <2>2
    <2>4. WriteList(v)
      <3>1. v = [i \in 1 .. Len(v) |-> v[i]] /\ Len(v) \in Nat  BY ONLY <1>7, <2>2, <2>3
      <3>2. \A i \in 1 .. n + 1 : v[i].subject = "write"  BY <1>2, <1>7, <2>3
      <3> QED  BY <2>3, <3>1, <3>2 DEF WriteList
    <2> QED  BY <1>2, <2>3, <2>4 DEF HasPath, n
  <1>6. CASE c.of # Stray /\ again # {}
    <2>1. place \in 1 .. n /\ w[place].path = c.of  BY <1>3, <1>6
    <2>2. v = [w EXCEPT ![place] = at]  BY <1>1, <1>6
    <2> HIDE DEF place, again
    <2>3. v = [i \in 1 .. n |-> v[i]]  BY ONLY <1>7, <2>2
    <2>4. v[place] = at /\ \A i \in 1 .. n : i # place => v[i] = w[i]
      BY ONLY <1>3, <2>1, <2>2
    <2>5. Len(v) = n  BY ONLY <1>7, <2>3
    <2>6. \A i \in 1 .. n : v[i].subject = "write" /\ v[i].path = w[i].path
      BY <1>2, <1>7, <2>1, <2>4
    <2>7. WriteList(v)  BY <1>7, <2>3, <2>5, <2>6 DEF WriteList
    <2> QED  BY <2>1, <2>5, <2>6, <2>7 DEF HasPath, n
  <1> QED  BY <1>4, <1>5, <1>6

LEMMA WritesLearnt ==
  ASSUME NEW calls \in Seq(Called), NEW n \in Nat, n + 1 <= Len(calls),
         NEW t, Tally(t), WritesKnown(t, calls, n), NEW u, Adds(t, calls[n + 1], u)
  PROVE  WritesKnown(u, calls, n + 1)
  <1> DEFINE c == calls[n + 1]
  <1>1. \A i \in 1 .. n + 1 : i \in 1 .. n \/ i = n + 1  OBVIOUS
  <1>2. t.outside \in Nat  BY DEF Tally
  <1>3. /\ u.writes = IF Wrote(c) THEN Written(t.writes, c) ELSE t.writes
        /\ u.outside = IF Wrote(c) /\ c.of = Stray THEN t.outside + 1 ELSE t.outside
        /\ t.writeCalls \subseteq u.writeCalls
        /\ Wrote(c) => Call(c) \in u.writeCalls
    BY DEF Adds
  <1> HIDE DEF c
  <1>4. CASE ~Wrote(c)
    <2>1. u.writes = t.writes /\ u.outside = t.outside  BY <1>3, <1>4
    <2> QED  BY <1>1, <1>3, <1>4, <2>1 DEF WritesKnown, c
  <1>5. CASE Wrote(c)
    <2> DEFINE v == Written(t.writes, c)
    <2>1. /\ WriteList(v) /\ (c.of = Stray \/ HasPath(v, c.of))
          /\ \A path : HasPath(t.writes, path) => HasPath(v, path)
      BY WrittenKnown DEF WritesKnown
    <2>2. u.writes = v /\ (t.outside > 0 => u.outside > 0) /\ (c.of = Stray => u.outside > 0)
      BY <1>2, <1>3, <1>5
    <2> HIDE DEF v
    <2>3. ASSUME NEW j \in 1 .. n + 1, Wrote(calls[j])
          PROVE  /\ Call(calls[j]) \in u.writeCalls
                 /\ \/ calls[j].of = Stray /\ u.outside > 0
                    \/ HasPath(u.writes, calls[j].of)
      <3>1. CASE j = n + 1  BY <1>3, <1>5, <2>1, <2>2, <3>1 DEF c
      <3>2. CASE j \in 1 .. n
        <4>1. /\ Call(calls[j]) \in t.writeCalls
              /\ \/ calls[j].of = Stray /\ t.outside > 0
                 \/ HasPath(t.writes, calls[j].of)
          BY <2>3, <3>2 DEF WritesKnown
        <4> QED  BY <1>3, <2>1, <2>2, <4>1
      <3> QED  BY <1>1, <3>1, <3>2
    <2> QED  BY <2>1, <2>2, <2>3 DEF WritesKnown
  <1> QED  BY <1>4, <1>5

LEMMA LaunchesLearnt ==
  ASSUME NEW calls \in Seq(Called), NEW n \in Nat, n + 1 <= Len(calls),
         NEW t, Tally(t), LaunchesKnown(t, calls, n), NEW u, Adds(t, calls[n + 1], u)
  PROVE  LaunchesKnown(u, calls, n + 1)
  <1> DEFINE c == calls[n + 1]
             h == t.launches
             x == [subject |-> "launch", rank |-> 4, at |-> c.at, id |-> c.id]
  <1>1. \A i \in 1 .. n + 1 : i \in 1 .. n \/ i = n + 1  OBVIOUS
  <1>2. h = [i \in 1 .. Len(h) |-> h[i]] /\ Len(h) \in Nat  BY DEF Tally
  <1>3. u.launches = IF Launched(c) THEN Append(h, x) ELSE h  BY DEF Adds
  <1>4. x.subject = "launch" /\ x.id = c.id  OBVIOUS
  <1> HIDE DEF c, x
  <1>7. /\ \A i \in 1 .. Len(h) : h[i].subject = "launch"
        /\ \A j \in 1 .. n : Launched(calls[j]) => \E i \in 1 .. Len(h) : h[i].id = calls[j].id
    BY DEF LaunchesKnown
  <1> DEFINE v == u.launches
  <1>8. v = IF Launched(c) THEN Append(h, x) ELSE h  BY <1>3
  <1> HIDE DEF h, v
  <1>5. CASE ~Launched(c)
    <2>1. v = h  BY <1>5, <1>8
    <2>2. ASSUME NEW j \in 1 .. n + 1, Launched(calls[j])
          PROVE  \E i \in 1 .. Len(v) : v[i].id = calls[j].id
      <3>1. j \in 1 .. n  BY <1>1, <1>5, <2>2 DEF c
      <3> QED  BY <1>7, <2>1, <2>2, <3>1
    <2> QED  BY <1>7, <2>1, <2>2 DEF LaunchesKnown, v
  <1>6. CASE Launched(c)
    <2> DEFINE m == Len(h)
    <2>1. m \in Nat /\ h = [i \in 1 .. m |-> h[i]]  BY <1>2
    <2>2. v = Append(h, x)  BY <1>6, <1>8
    <2> HIDE DEF m
    <2>3. v = [i \in 1 .. m + 1 |-> IF i = m + 1 THEN x ELSE h[i]]
      BY ONLY <2>1, <2>2, AppendIs
    <2>4. /\ Len(v) = m + 1 /\ v[m + 1] = x /\ m + 1 \in 1 .. m + 1
          /\ \A i \in 1 .. m : v[i] = h[i] /\ i \in 1 .. m + 1
          /\ \A i \in 1 .. m + 1 : i \in 1 .. m \/ i = m + 1
      BY ONLY <2>1, <2>3
    <2>5. \A i \in 1 .. m + 1 : v[i].subject = "launch"  BY <1>4, <1>7, <2>4 DEF m
    <2>6. ASSUME NEW j \in 1 .. n + 1, Launched(calls[j])
          PROVE  \E i \in 1 .. m + 1 : v[i].id = calls[j].id
      <3>1. CASE j = n + 1  BY <1>4, <2>4, <3>1 DEF c
      <3>2. CASE j \in 1 .. n
        <4>1. PICK i \in 1 .. m : h[i].id = calls[j].id  BY <1>7, <2>6, <3>2 DEF m
        <4> QED  BY <2>4, <4>1
      <3> QED  BY <1>1, <3>1, <3>2
    <2> QED  BY <2>4, <2>5, <2>6 DEF LaunchesKnown, v
  <1> QED  BY <1>5, <1>6

LEMMA ChangesLearnt ==
  ASSUME NEW calls \in Seq(Called), InOrderOfTime(calls), NEW n \in Nat, n + 1 <= Len(calls),
         NEW t, ChangesKnown(t, calls, n), NEW u, Adds(t, calls[n + 1], u)
  PROVE  ChangesKnown(u, calls, n + 1)
  <1> DEFINE c == calls[n + 1]
  <1>1. \A i \in 1 .. n + 1 : i \in 1 .. n \/ i = n + 1  OBVIOUS
  <1>2. n + 1 \in 1 .. Len(calls) /\ 1 .. n \subseteq 1 .. Len(calls)  OBVIOUS
  <1>3. c.at \in Nat  BY <1>2, CalledIs DEF IsCall
  <1>4. \A i \in 1 .. n : calls[i].at <= c.at  BY <1>2 DEF InOrderOfTime
  <1>5. u.lastChange = IF Alters(c) THEN c.at ELSE t.lastChange  BY DEF Adds
  <1> HIDE DEF c
  <1>6. c.at <= c.at  BY <1>3
  <1> QED  BY <1>1, <1>3, <1>4, <1>5, <1>6 DEF ChangesKnown, c

LEMMA PureKnows ==
  ASSUME NEW calls \in Seq(Called), InOrderOfTime(calls), NEW ctx
  PROVE  Knows(Pure(calls, ctx)[Len(calls)], calls, Len(calls))
  <1> DEFINE p == Pure(calls, ctx)
             last == Len(calls)
             A == {n \in Nat : Knows(p[n], calls, n)}
  <1>1. /\ p[0] = Blank(ctx) /\ \A i \in 1 .. last : p[i] = Add(p[i - 1], calls[i])
        /\ \A i \in 0 .. last : Tally(p[i])
    BY PureIs
  <1> HIDE DEF p
  <1>2. 0 \in A
    <2>1. Knows(Blank(ctx), calls, 0)
      BY DEF Knows, RunsKnown, WritesKnown, WriteList, LaunchesKnown, ChangesKnown, Blank, None
    <2> QED  BY <1>1, <2>1
  <1>3. ASSUME NEW n \in 0 .. last - 1, n \in A PROVE n + 1 \in A
    <2>1. n \in Nat /\ n + 1 <= last /\ n + 1 \in 1 .. last /\ n \in 0 .. last /\ (n + 1) - 1 = n
      BY <1>3
    <2>2. IsCall(calls[n + 1])  BY <2>1, CalledIs
    <2>3. Tally(p[n]) /\ p[n + 1] = Add(p[n], calls[n + 1])  BY <1>1, <2>1
    <2>4. Adds(p[n], calls[n + 1], p[n + 1])  BY <2>2, <2>3, AddIs
    <2>5. Knows(p[n], calls, n)  BY <1>3
    <2>6. RunsKnown(p[n + 1], calls, n + 1)  BY <2>1, <2>3, <2>4, <2>5, RunsLearnt DEF Knows
    <2>7. WritesKnown(p[n + 1], calls, n + 1)  BY <2>1, <2>3, <2>4, <2>5, WritesLearnt DEF Knows
    <2>8. LaunchesKnown(p[n + 1], calls, n + 1)
      BY <2>1, <2>3, <2>4, <2>5, LaunchesLearnt DEF Knows
    <2>9. ChangesKnown(p[n + 1], calls, n + 1)  BY <2>1, <2>4, <2>5, ChangesLearnt DEF Knows
    <2> QED  BY <2>1, <2>6, <2>7, <2>8, <2>9 DEF Knows
  <1> HIDE DEF A
  <1>4. last \in Nat  OBVIOUS
  <1> HIDE DEF last
  <1>5. 0 .. last \subseteq A
    <2>1. 0 \in Nat  OBVIOUS
    <2> QED  BY ONLY <1>2, <1>3, <1>4, <2>1, Onward
  <1>6. last \in A  BY <1>4, <1>5
  <1> QED  BY <1>6 DEF A, p, last

\* A smaller set of a finite one has fewer members.
LEMMA Fewer ==
  ASSUME NEW S, NEW T, IsFiniteSet(T), S \subseteq T, S # T
  PROVE  Cardinality(S) # Cardinality(T)
  BY FS_Subset

\* What is among the members of a sequence is of it, and of the set.
LEMMA AmongIn ==
  ASSUME NEW X, NEW s \in Seq(X), NEW S, NEW n \in DOMAIN Among(s, S)
  PROVE  Among(s, S)[n] \in S
  <1> DEFINE P == {i \in DOMAIN s : s[i] \in S}
             below == [i \in P |-> {j \in P : j < i}]
             place == CHOOSE i \in P : Cardinality({j \in P : j < i}) = n - 1
  <1>1. n \in 1 .. Cardinality(P) /\ Among(s, S)[n] = s[place]  BY DEF Among
  <1>2. P \in SUBSET (1 .. Len(s)) /\ Len(s) \in Nat /\ \A i \in P : s[i] \in S  OBVIOUS
  <1> HIDE DEF P
  <1>3. IsFiniteSet(P)
    <2>1. IsFiniteSet(1 .. Len(s))  BY <1>2, FS_Interval
    <2> QED  BY ONLY <1>2, <2>1, FS_Subset
  <1>4. below \in [P -> SUBSET P] /\ \A i \in P : below[i] = {j \in P : j < i}  OBVIOUS
  <1>5. ASSUME NEW i \in P, NEW j \in P, i < j PROVE Cardinality(below[i]) # Cardinality(below[j])
    <2>3. i \in Nat /\ j \in Nat /\ \A k \in P : k \in Nat  BY <1>2
    <2>4. below[i] = {k \in P : k < i} /\ below[j] = {k \in P : k < j}  BY <1>4
    <2>6. i \in P /\ j \in P /\ i < j  BY <1>5
    <2>2. below[j] \in SUBSET P  BY <1>4
    <2> HIDE DEF below
    <2>7. below[i] \subseteq below[j]
      <3>1. \A k \in P : k < i => k < j  BY ONLY <2>3, <2>6
      <3> QED  BY ONLY <2>4, <3>1
    <2>8. i \in below[j] /\ i \notin below[i]  BY ONLY <2>3, <2>4, <2>6
    <2>1. below[i] \subseteq below[j] /\ below[i] # below[j]  BY ONLY <2>7, <2>8
    <2>5. IsFiniteSet(below[j])  BY ONLY <1>3, <2>2, FS_Subset
    <2> QED  BY ONLY <2>1, <2>5, Fewer
  <1>6. \A i \in P : i \notin below[i]  BY <1>2, <1>4
  <1>7. \A i, j \in P : i # j => i < j \/ j < i  BY <1>2
  <1>8. \A i, j \in P : i # j => Cardinality(below[i]) # Cardinality(below[j])  BY <1>5, <1>7
  <1> HIDE DEF below
  <1>9. \E i \in P : Cardinality(below[i]) = n - 1
    BY ONLY <1>1, <1>3, <1>4, <1>6, <1>8, RankTaken
  <1>10. place \in P  BY <1>4, <1>9
  <1> QED  BY <1>1, <1>2, <1>10

\* What is listed is an entry, a write or a launch.
LEMMA ListedIs ==
  ASSUME NEW x, Tally(x), WriteList(x.writes)
  PROVE  \A e \in Listed(x) : \/ \E k \in DOMAIN x.entries : e = x.entries[k]
                              \/ \E i \in 1 .. Len(x.writes) : e = x.writes[i]
                              \/ \E i \in 1 .. Len(x.launches) : e = x.launches[i]
  <1> DEFINE checks == Among(x.order, DOMAIN x.entries)
             N == Cardinality({i \in DOMAIN x.order : x.order[i] \in DOMAIN x.entries})
             g == [i \in DOMAIN checks |-> x.entries[checks[i]]]
             w == x.writes
             l == x.launches
             row == Candidates(x)
  <1>1. x.order \in Seq(Checks)  BY DEF Tally
  <1>2. \A n \in DOMAIN checks : checks[n] \in DOMAIN x.entries  BY <1>1, AmongIn
  <1>3. N \in Nat
    <2> DEFINE D == {i \in DOMAIN x.order : x.order[i] \in DOMAIN x.entries}
    <2>1. D \in SUBSET (1 .. Len(x.order)) /\ Len(x.order) \in Nat  BY <1>1
    <2> HIDE DEF D
    <2>2. IsFiniteSet(1 .. Len(x.order))  BY <2>1, FS_Interval
    <2>3. IsFiniteSet(D)  BY ONLY <2>1, <2>2, FS_Subset
    <2>4. Cardinality(D) \in Nat  BY <2>3, FS_CardinalityType
    <2> QED  BY <2>4 DEF D
  <1>4. DOMAIN checks = 1 .. N  BY DEF Among
  <1> HIDE DEF checks, N
  <1>5. g = [i \in 1 .. N |-> g[i]] /\ \A i \in 1 .. N : \E k \in DOMAIN x.entries : g[i] = x.entries[k]
    BY <1>2, <1>4
  <1>6. /\ w = [i \in 1 .. Len(w) |-> w[i]] /\ Len(w) \in Nat
        /\ l = [i \in 1 .. Len(l) |-> l[i]] /\ Len(l) \in Nat
    BY DEF WriteList, Tally
  <1>7. row = g \o w \o l  BY DEF Candidates, checks
  <1> HIDE DEF g, w, l, row
  <1>8. row = [i \in 1 .. N + Len(w) + Len(l) |->
                 IF i <= N + Len(w) THEN IF i <= N THEN g[i] ELSE w[i - N]
                 ELSE l[i - (N + Len(w))]]
    <2> DEFINE a == Len(w)
               b == Len(l)
               h == g \o w
    <2>1. a \in Nat /\ b \in Nat /\ N + a \in Nat  BY <1>3, <1>6
    <2>2. w = [i \in 1 .. a |-> w[i]] /\ l = [i \in 1 .. b |-> l[i]]  BY <1>6
    <2> HIDE DEF a, b
    <2>3. h = [i \in 1 .. N + a |-> IF i <= N THEN g[i] ELSE w[i - N]]
      BY ONLY <1>3, <1>5, <2>1, <2>2, ConcatIs
    <2> HIDE DEF h
    <2>4. h = [i \in 1 .. N + a |-> h[i]]  BY <2>3
    <2>5. h \o l = [i \in 1 .. N + a + b |-> IF i <= N + a THEN h[i] ELSE l[i - (N + a)]]
      BY ONLY <2>1, <2>2, <2>4, ConcatIs
    <2>6. \A i \in 1 .. N + a + b : i <= N + a => h[i] = IF i <= N THEN g[i] ELSE w[i - N]
      BY <1>3, <2>1, <2>3
    <2>7. row = h \o l  BY <1>7 DEF h
    <2> QED  BY <2>5, <2>6, <2>7 DEF a, b
  <1>9. ASSUME NEW e \in Listed(x) PROVE \E i \in DOMAIN row : e = row[i]
    BY DEF Listed, NewestOf, row
  <1>10. ASSUME NEW i \in DOMAIN row
         PROVE  \/ \E k \in DOMAIN x.entries : row[i] = x.entries[k]
                \/ \E j \in 1 .. Len(w) : row[i] = w[j]
                \/ \E j \in 1 .. Len(l) : row[i] = l[j]
    <2>1. i \in 1 .. N + Len(w) + Len(l)  BY <1>8
    <2>2. CASE i <= N
      <3>1. i \in 1 .. N /\ i <= N + Len(w)  BY <1>3, <1>6, <2>1, <2>2
      <3>2. row[i] = g[i]  BY <1>8, <2>1, <2>2, <3>1
      <3> QED  BY <1>5, <3>1, <3>2
    <2>3. CASE ~(i <= N) /\ i <= N + Len(w)
      <3>1. i - N \in 1 .. Len(w)  BY <1>3, <1>6, <2>1, <2>3
      <3>2. row[i] = w[i - N]  BY <1>8, <2>1, <2>3
      <3> QED  BY <3>1, <3>2
    <2>4. CASE ~(i <= N + Len(w))
      <3>1. i - (N + Len(w)) \in 1 .. Len(l)  BY <1>3, <1>6, <2>1, <2>4
      <3>2. row[i] = l[i - (N + Len(w))]  BY <1>8, <2>1, <2>4
      <3> QED  BY <3>1, <3>2
    <2> QED  BY <2>2, <2>3, <2>4
  <1> QED  BY <1>9, <1>10 DEF w, l

\* The level is none or low only when nothing blocks it.
PassesOf(rows) == {e \in rows : e.subject = "check" /\ e.result = "passed"}
WritesOf(rows) == {e \in rows : e.subject = "write"}

LEMMA LowIs ==
  ASSUME NEW x, NEW rows, NEW on, LiveLevel(x, rows, on) = "none-or-low"
  PROVE  /\ FloorHolds(x, PassesOf(rows)) /\ \A e \in PassesOf(rows) : ~e.aged
         /\ ~(WrittenOutside(x, WritesOf(rows), on) > 0)
  <1>1. ASSUME NEW passes, NEW anchored, NEW writes, NEW outside,
               LevelOf(x, passes, anchored, writes, outside) = "none-or-low"
        PROVE  FloorHolds(x, passes) /\ (\A e \in passes : ~e.aged) /\ ~(outside > 0)
    BY <1>1 DEF LevelOf, NotEnough
  <1>2. {e \in {f \in rows : f.subject = "check"} : e.result = "passed"} = PassesOf(rows)
    BY DEF PassesOf
  <1> DEFINE checks == {f \in rows : f.subject = "check"}
             passes == {e \in checks : e.result = "passed"}
             anchored == {e \in checks : Anchored(x, e)}
             writes == WritesOf(rows)
             outside == WrittenOutside(x, writes, on)
  <1>3. LevelOf(x, passes, anchored, writes, outside) = "none-or-low"
    BY DEF LiveLevel, LevelOver, WritesOf
  <1> HIDE DEF passes, anchored, writes, outside
  <1>4. FloorHolds(x, passes) /\ (\A e \in passes : ~e.aged) /\ ~(outside > 0)
    BY ONLY <1>1, <1>3
  <1> QED  BY <1>2, <1>4 DEF passes, writes, outside

LEMMA OnlyThese ==
  ASSUME NEW S, IsFiniteSet(S), NEW f, NEW T, T \subseteq {f[s] : s \in S},
         Cardinality(S) <= Cardinality(T)
  PROVE  IsFiniteSet(T) /\ T = {f[s] : s \in S}
  <1> DEFINE U == {f[s] : s \in S}
             g == [s \in S |-> f[s]]
  <1>1. g \in Surjection(S, U)  BY DEF Surjection
  <1> HIDE DEF g, U
  <1>2. IsFiniteSet(U) /\ Cardinality(U) <= Cardinality(S)
    BY ONLY <1>1, FS_Surjection, IsFiniteSet(S)
  <1>3. T \in SUBSET U  BY DEF U
  <1>4. /\ IsFiniteSet(T) /\ Cardinality(T) <= Cardinality(U)
        /\ Cardinality(U) = Cardinality(T) => U = T
    BY ONLY <1>2, <1>3, FS_Subset
  <1>5. Cardinality(S) \in Nat /\ Cardinality(T) \in Nat /\ Cardinality(U) \in Nat
    BY ONLY <1>2, <1>4, FS_CardinalityType, IsFiniteSet(S)
  <1>6. T = U  BY ONLY <1>2, <1>4, <1>5, Cardinality(S) <= Cardinality(T)
  <1> QED  BY <1>4, <1>6 DEF U

\* Finitely many checks have run.
LEMMA StandingFinite ==
  ASSUME NEW t, Tally(t) PROVE IsFiniteSet(Standing(t)) /\ Standing(t) \subseteq DOMAIN Lasts(t)
  <1> DEFINE o == t.order
             g == [i \in 1 .. Len(o) |-> o[i]]
             S == {o[i] : i \in 1 .. Len(o)}
  <1>1. o \in Seq(Checks) /\ Len(o) \in Nat  BY DEF Tally
  <1>2. IsFiniteSet(1 .. Len(o))  BY <1>1, FS_Interval
  <1>3. g \in Surjection(1 .. Len(o), S)  BY DEF Surjection
  <1>4. Standing(t) \subseteq DOMAIN Lasts(t)  BY DEF Standing
  <1>5. ASSUME NEW k \in Standing(t) PROVE k \in S
    <2>1. k \in DOMAIN Lasts(t)  BY <1>4
    <2>2. k \in Checks /\ t.runs[k] # <<>>  BY <2>1, LastsIs
    <2>3. Contains(t.order, k)  BY <2>2 DEF Tally
    <2> QED  BY <1>1, <2>3 DEF Contains
  <1> HIDE DEF g, S
  <1>6. IsFiniteSet(S)
    <2> DEFINE D == 1 .. Len(o)
    <2> HIDE DEF D
    <2> QED  BY ONLY <1>2, <1>3, FS_Surjection DEF D
  <1>7. Standing(t) \in SUBSET S  BY <1>5
  <1>8. IsFiniteSet(Standing(t))  BY ONLY <1>6, <1>7, FS_Subset
  <1> QED  BY <1>4, <1>8

\* Of a tally whose level is none or low: what stands, what was launched and what was
\* written, when a named folder was on the disk.
InNamed(path) == \E f \in DOMAIN Inside : path \in Inside[f]
LowChecks(t) ==
  /\ Standing(t) # {}
  /\ \A k \in Standing(t) :
       /\ EntryOf(t, k).result \notin {"failed", "not-recorded"}
       /\ EntryOf(t, k).result = "passed" =>
            ~EntryOf(t, k).aged /\ ~EntryOf(t, k).incomplete /\ t.lastChange < EntryOf(t, k).at
LowLaunches(t) == \A i \in 1 .. Len(t.launches) : t.launches[i].id \in t.ctx.done
LowWrites(t, on) ==
  on # {} => t.outside = 0 /\ \A i \in 1 .. Len(t.writes) : InNamed(t.writes[i].path)

LEMMA LowStands ==
  ASSUME NEW t, Tally(t), Current(t), WriteList(t.writes),
         \A i \in 1 .. Len(t.launches) : t.launches[i].subject = "launch",
         NEW on \in SUBSET DOMAIN Inside, LevelAt(t, on) = "none-or-low"
  PROVE  LowChecks(t) /\ LowLaunches(t) /\ LowWrites(t, on) /\ Unsettled = 0
  <1> DEFINE x == Asked(t)
             rows == Listed(x)
             S == Standing(t)
  <1>1. /\ Tally(x) /\ x.writes = t.writes /\ x.outside = t.outside
        /\ x.launches = t.launches /\ x.lastChange = t.lastChange /\ x.ctx = t.ctx
        /\ DOMAIN x.entries = S /\ \A k \in S : x.entries[k] = EntryOf(t, k)
    BY AskedIs, AskedFresh
  <1>2. LiveLevel(x, rows, on) = "none-or-low"  BY DEF LevelAt, ListOf
  <1> HIDE DEF x, S
  <1>3. WriteList(x.writes)  BY <1>1
  <1> HIDE DEF rows
  <1>4. /\ FloorHolds(x, PassesOf(rows)) /\ \A e \in PassesOf(rows) : ~e.aged
        /\ ~(WrittenOutside(x, WritesOf(rows), on) > 0)
    BY <1>2, LowIs
  <1>5. \A e \in rows : \/ \E k \in S : e = x.entries[k]
                        \/ \E i \in 1 .. Len(x.writes) : e = x.writes[i]
                        \/ \E i \in 1 .. Len(x.launches) : e = x.launches[i]
    BY <1>1, <1>3, ListedIs DEF rows
  <1>6. IsFiniteSet(S)  BY StandingFinite DEF S
  <1>7. \A k \in S : x.entries[k].subject = "check"
    <2>1. \A k : EntryOf(t, k).subject = "check"  BY DEF EntryOf, CheckEntry
    <2> QED  BY <1>1, <2>1
  <1>8. /\ \A i \in 1 .. Len(x.writes) : x.writes[i].subject = "write"
        /\ \A i \in 1 .. Len(x.launches) : x.launches[i].subject = "launch"
    BY <1>1 DEF WriteList
  <1>9. \A r : Counted(x, r) = Cardinality({k \in S : x.entries[k].result = r})
    BY <1>1 DEF Counted
  <1>10. ASSUME NEW r, Counted(x, r) = 0 PROVE \A k \in S : x.entries[k].result # r
    <2> DEFINE D == {k \in S : x.entries[k].result = r}
    <2>1. D \in SUBSET S  OBVIOUS
    <2>2. Cardinality(D) = 0  BY <1>9, <1>10
    <2> HIDE DEF D
    <2>3. IsFiniteSet(D)  BY ONLY <1>6, <2>1, FS_Subset
    <2>4. D = {}  BY ONLY <2>2, <2>3, FS_EmptySet
    <2> QED  BY <2>4 DEF D
  <1>11. \A k \in S : x.entries[k].result \notin {"failed", "not-recorded"}
    BY <1>4, <1>10 DEF FloorHolds
  <1> DEFINE P == {k \in S : x.entries[k].result = "passed"}
             Q == PassesOf(rows)
  <1>12. IsFiniteSet(P)
    <2>1. P \in SUBSET S  OBVIOUS
    <2> HIDE DEF P
    <2> QED  BY ONLY <1>6, <2>1, FS_Subset
  <1>13. Q \subseteq {x.entries[k] : k \in P}
    <2> SUFFICES ASSUME NEW e \in Q PROVE \E k \in P : e = x.entries[k]  OBVIOUS
    <2>1. e \in rows /\ e.subject = "check" /\ e.result = "passed"  BY DEF PassesOf
    <2> HIDE DEF Q
    <2>2. PICK k \in S : e = x.entries[k]
      BY <1>5, <1>8, <2>1
    <2> QED  BY <2>1, <2>2
  <1>14. Cardinality(P) > 0 /\ Cardinality(P) <= Cardinality(Q)
    BY <1>4, <1>9 DEF FloorHolds
  <1>15. P # {}
    <2> HIDE DEF P
    <2> SUFFICES ASSUME P = {} PROVE FALSE  OBVIOUS
    <2>1. Cardinality(P) = 0  BY FS_EmptySet
    <2> QED  BY <1>14, <2>1
  <1> DEFINE ent == x.entries
  <1>16. Q = {ent[k] : k \in P}
    <2>1. Q \subseteq {ent[k] : k \in P}  BY <1>13
    <2> HIDE DEF P, Q, ent
    <2> QED  BY ONLY <1>12, <1>14, <2>1, OnlyThese
  <1>17. \A k \in P : x.entries[k] \in Q  BY <1>16
  <1>18. \A e \in Q : ~e.aged /\ ~e.incomplete /\ x.lastChange < e.at  BY <1>4 DEF FloorHolds
  <1> HIDE DEF Q
  <1>19. LowChecks(t)
    BY <1>1, <1>11, <1>15, <1>17, <1>18 DEF LowChecks, S
  <1>20. LowLaunches(t)
    <2>1. \A l \in ToSet(x.launches) : l.id \in x.ctx.done  BY <1>4 DEF FloorHolds
    <2>2. ASSUME NEW i \in 1 .. Len(x.launches) PROVE x.launches[i] \in ToSet(x.launches)
      <3>1. DOMAIN x.launches = 1 .. Len(x.launches)  BY <1>1 DEF Tally
      <3> QED  BY <3>1 DEF ToSet
    <2> QED  BY <1>1, <2>1, <2>2 DEF LowLaunches
  <1>21. LowWrites(t, on)
    <2> SUFFICES ASSUME on # {}
                 PROVE  t.outside = 0 /\ \A i \in 1 .. Len(t.writes) : InNamed(t.writes[i].path)
      BY DEF LowWrites
    <2> DEFINE w == t.writes
               n == Len(w)
               W == WritesOf(rows)
               weighed == Weighed(W, on)
               O == {e \in W : \A f \in weighed : e.path \notin Inside[f]}
               D == 1 .. n
    <2>1. n \in Nat  BY DEF WriteList
    <2>2. W \subseteq {w[i] : i \in D}
      <3> SUFFICES ASSUME NEW e \in W PROVE \E i \in D : e = w[i]  OBVIOUS
      <3>1. e \in rows /\ e.subject = "write"  BY DEF WritesOf
      <3> QED  BY <1>1, <1>5, <1>7, <1>8, <3>1
    <2>16. weighed # {} /\ weighed \subseteq DOMAIN Inside  BY DEF Weighed
    <2>3. ~(Cardinality(O) + t.outside + n - Cardinality(W) > 0)
      <3> HIDE DEF weighed
      <3>1. WrittenOutside(x, W, on) = Cardinality(O) + x.outside + Len(x.writes) - Cardinality(W)
        BY <2>16 DEF WrittenOutside, weighed
      <3> QED  BY <1>1, <1>4, <3>1
    <2>4. IsFiniteSet(D) /\ Cardinality(D) = n
      <3>1. 1 \in Int /\ n \in Int  BY <2>1
      <3>2. IsFiniteSet(1 .. n) /\ Cardinality(1 .. n) = IF 1 > n THEN 0 ELSE n - 1 + 1
        BY ONLY <3>1, FS_Interval
      <3> QED  BY <2>1, <3>2
    <2>5. O \in SUBSET W  OBVIOUS
    <2>6. \A e \in W : e \notin O => InNamed(e.path)
      <3> HIDE DEF weighed
      <3> QED  BY <2>16 DEF InNamed
    <2> HIDE DEF w, n, W, O, D, weighed
    <2>7. IsFiniteSet(W)
      <3> DEFINE U == {w[i] : i \in D}
                 g == [i \in D |-> w[i]]
      <3>1. g \in Surjection(D, U)  BY DEF Surjection
      <3>2. W \in SUBSET U  BY <2>2
      <3> HIDE DEF g, U
      <3>3. IsFiniteSet(U)  BY ONLY <2>4, <3>1, FS_Surjection
      <3> QED  BY ONLY <3>2, <3>3, FS_Subset
    <2>8. IsFiniteSet(O)  BY ONLY <2>5, <2>7, FS_Subset
    <2>9. Cardinality(O) \in Nat /\ Cardinality(W) \in Nat  BY <2>7, <2>8, FS_CardinalityType
    <2>10. t.outside \in Nat  BY DEF Tally
    <2>11. Cardinality(W) <= n
      <3> DEFINE U == {w[i] : i \in D}
                 g == [i \in D |-> w[i]]
      <3>1. g \in Surjection(D, U)  BY DEF Surjection
      <3>2. W \in SUBSET U  BY <2>2
      <3> HIDE DEF g, U
      <3>3. IsFiniteSet(U) /\ Cardinality(U) <= Cardinality(D)
        BY ONLY <2>4, <3>1, FS_Surjection
      <3>4. Cardinality(W) <= Cardinality(U)  BY ONLY <3>2, <3>3, FS_Subset
      <3>5. Cardinality(U) \in Nat  BY <3>3, FS_CardinalityType
      <3> QED  BY ONLY <2>1, <2>4, <2>9, <3>3, <3>4, <3>5
    <2>12. Cardinality(O) = 0 /\ t.outside = 0 /\ n <= Cardinality(W)
      BY ONLY <2>1, <2>3, <2>9, <2>10, <2>11
    <2>13. O = {}  BY ONLY <2>8, <2>12, FS_EmptySet
    <2>14. W = {w[i] : i \in D}
      BY ONLY <2>2, <2>4, <2>12, OnlyThese
    <2>15. \A i \in D : InNamed(w[i].path)  BY <2>6, <2>13, <2>14
    <2> QED  BY <2>12, <2>15 DEF D, n, w
  <1>22. Unsettled = 0  BY <1>4 DEF FloorHolds
  <1> QED  BY <1>19, <1>20, <1>21, <1>22

\* A transcript is written in turn: times do not fall, and ids rise.
InTurn(s) ==
  \A i, j \in 1 .. Len(s) : i < j => s[i].at <= s[j].at /\ s[i].id < s[j].id
Apart(p, c) == \A i \in 1 .. Len(p), j \in 1 .. Len(c) : p[i].id # c[j].id

LEMMA KeyedAt ==
  ASSUME NEW s \in Seq(Line), NEW n \in Nat
  PROVE  /\ \A x \in Keyed(s, n) : /\ x[3] \in 1 .. Len(s) /\ x[2] = n
                                   /\ x[1] = s[x[3]].at /\ x[4] = s[x[3]]
         /\ \A i \in 1 .. Len(s) : s[i].does # "person" => <<s[i].at, n, i, s[i]>> \in Keyed(s, n)
  BY DEF Keyed

\* What follows in the merged order: no earlier, and after what was before it in the
\* transcript.
Follows(p, c, x, y) ==
  /\ x.at <= y.at /\ x.id # y.id
  /\ \A s \in {p, c} : x \in ToSet(s) /\ y \in ToSet(s) => x.id < y.id

LEMMA MergedIs ==
  ASSUME NEW p \in Seq(Line), NEW c \in Seq(Line), InTurn(p), InTurn(c), Apart(p, c),
         NEW m, m = Merged(p, c)
  PROVE  /\ \A i \in 1 .. Len(m) : m[i] \in ToSet(p) \cup ToSet(c)
         /\ \A x \in ToSet(p) \cup ToSet(c) :
              x.does # "person" => \E i \in 1 .. Len(m) : m[i] = x
         /\ \A i, j \in 1 .. Len(m) : i < j => Follows(p, c, m[i], m[j])
  <1> DEFINE A == Keyed(p, 1)
             B == Keyed(c, 2)
             K == A \cup B
             order == InOrder(K)
             N == Cardinality(K)
  <1>1. IsFiniteSet(A) /\ IsFiniteSet(B)  BY KeyedIs
  <1>2. IsFiniteSet(K)  BY <1>1, FS_Union
  <1>3. /\ \A x \in A : /\ x[1] \in Nat /\ x[2] = 1 /\ x[3] \in Nat
                        /\ x[4] \in Called /\ x[1] = p[x[3]].at /\ x[4] = p[x[3]]
                        /\ x = <<x[1], x[2], x[3], x[4]>>
        /\ \A x \in B : /\ x[1] \in Nat /\ x[2] = 2 /\ x[3] \in Nat
                        /\ x[4] \in Called /\ x[1] = c[x[3]].at /\ x[4] = c[x[3]]
                        /\ x = <<x[1], x[2], x[3], x[4]>>
    BY KeyedIs
  <1>4. /\ \A x \in A : x[3] \in 1 .. Len(p)
        /\ \A x \in B : x[3] \in 1 .. Len(c)
        /\ \A i \in 1 .. Len(p) : p[i].does # "person" => <<p[i].at, 1, i, p[i]>> \in A
        /\ \A i \in 1 .. Len(c) : c[i].does # "person" => <<c[i].at, 2, i, c[i]>> \in B
    BY KeyedAt
  <1> HIDE DEF A, B
  <1>5. KeyedAlone(K)
    <2>1. \A x \in K : x[1] \in Nat /\ x[2] \in Nat /\ x[3] \in Nat  BY <1>3
    <2>2. ASSUME NEW x \in K, NEW y \in K, x[1] = y[1], x[2] = y[2], x[3] = y[3]
          PROVE  x = y
      <3>1. (x \in A /\ y \in A) \/ (x \in B /\ y \in B)  BY <1>3, <2>2
      <3>2. x[4] = y[4] /\ x = <<x[1], x[2], x[3], x[4]>> /\ y = <<y[1], y[2], y[3], y[4]>>
        BY <1>3, <2>2, <3>1
      <3> QED  BY ONLY <2>2, <3>2
    <2> QED  BY <2>1, <2>2 DEF KeyedAlone
  <1>6. N \in Nat  BY <1>2, FS_CardinalityType
  <1>7. DOMAIN order = 1 .. N  BY DEF InOrder
  <1>8. /\ \A n \in 1 .. N : order[n] \in K
        /\ \A x \in K : \E n \in 1 .. N : order[n] = x
        /\ \A i, j \in 1 .. N : i < j => Before(order[i], order[j])
    <2> HIDE DEF K
    <2> QED  BY ONLY <1>2, <1>5, PlaceIs
  <1>9. m = [n \in DOMAIN order |-> order[n][4]]  BY DEF Merged, A, B
  <1> HIDE DEF order, N
  <1>10. Len(m) = N /\ \A n \in 1 .. N : m[n] = order[n][4]  BY <1>6, <1>7, <1>9
  <1>11. \A x \in K : x[4] \in ToSet(p) \cup ToSet(c)
    <2>1. \A i \in 1 .. Len(p) : p[i] \in ToSet(p)  BY DEF ToSet
    <2>2. \A i \in 1 .. Len(c) : c[i] \in ToSet(c)  BY DEF ToSet
    <2> QED  BY <1>3, <1>4, <2>1, <2>2
  <1>12. ASSUME NEW x \in ToSet(p) \cup ToSet(c), x.does # "person"
         PROVE  \E i \in 1 .. N : m[i] = x
    <2>1. \E k \in K : k[4] = x
      <3>1. CASE x \in ToSet(p)
        <4>1. PICK i \in 1 .. Len(p) : p[i] = x  BY <3>1 DEF ToSet
        <4>2. <<p[i].at, 1, i, p[i]>> \in K  BY <1>4, <1>12, <4>1
        <4> QED  BY <4>1, <4>2
      <3>2. CASE x \in ToSet(c)
        <4>1. PICK i \in 1 .. Len(c) : c[i] = x  BY <3>2 DEF ToSet
        <4>2. <<c[i].at, 2, i, c[i]>> \in K  BY <1>4, <1>12, <4>1
        <4> QED  BY <4>1, <4>2
      <3> QED  BY <3>1, <3>2
    <2> HIDE DEF K
    <2> QED  BY <1>8, <1>10, <2>1
  <1>13. \A x \in ToSet(p), y \in ToSet(c) : x.id # y.id
    BY DEF ToSet, Apart
  <1>14. ASSUME NEW s \in Seq(Line), InTurn(s), NEW i \in 1 .. Len(s), NEW j \in 1 .. Len(s),
                s[i].at < s[j].at \/ (s[i].at = s[j].at /\ i < j)
         PROVE  s[i].id < s[j].id
    <2>1. s[i].at \in Nat /\ s[j].at \in Nat  BY DEF Line, Entry
    <2>2. i < j
      <3>1. j < i => s[j].at <= s[i].at  BY <1>14 DEF InTurn
      <3>2. i = j => s[i].at = s[j].at  OBVIOUS
      <3> QED  BY <1>14, <2>1, <3>1, <3>2
    <2> QED  BY <1>14, <2>2 DEF InTurn
  <1>15. ASSUME NEW x \in K, NEW y \in K, Before(x, y) PROVE Follows(p, c, x[4], y[4])
    <2>1. x[4].at <= y[4].at
      <3>1. x[1] = x[4].at /\ y[1] = y[4].at /\ x[1] \in Nat /\ y[1] \in Nat  BY <1>3
      <3> QED  BY <1>15, <3>1 DEF Before
    <2>5. x[4].id \in Nat /\ y[4].id \in Nat  BY <1>3 DEF Called, Entry
    <2>2. CASE (x \in A /\ y \in A) \/ (x \in B /\ y \in B)
      <3>1. x[4].id < y[4].id
        <4>3. x[2] = y[2] /\ x[2] \in Nat /\ x[1] \in Nat /\ y[1] \in Nat  BY <1>3, <2>2
        <4>4. x[1] < y[1] \/ (x[1] = y[1] /\ x[3] < y[3])  BY <1>15, <4>3 DEF Before
        <4>1. CASE x \in A /\ y \in A
          <5>1. /\ x[3] \in 1 .. Len(p) /\ x[4] = p[x[3]] /\ x[1] = p[x[3]].at
                /\ y[3] \in 1 .. Len(p) /\ y[4] = p[y[3]] /\ y[1] = p[y[3]].at
            BY <1>3, <1>4, <4>1
          <5> QED  BY ONLY <1>14, <4>4, <5>1, p \in Seq(Line), InTurn(p)
        <4>2. CASE x \in B /\ y \in B
          <5>1. /\ x[3] \in 1 .. Len(c) /\ x[4] = c[x[3]] /\ x[1] = c[x[3]].at
                /\ y[3] \in 1 .. Len(c) /\ y[4] = c[y[3]] /\ y[1] = c[y[3]].at
            BY <1>3, <1>4, <4>2
          <5> QED  BY ONLY <1>14, <4>4, <5>1, c \in Seq(Line), InTurn(c)
        <4> QED  BY <2>2, <4>1, <4>2
      <3> QED  BY <2>1, <2>5, <3>1 DEF Follows
    <2>3. CASE (x \in A /\ y \in B) \/ (x \in B /\ y \in A)
      <3>1. \/ x[4] \in ToSet(p) /\ y[4] \in ToSet(c)
            \/ x[4] \in ToSet(c) /\ y[4] \in ToSet(p)
        <4>1. \A i \in 1 .. Len(p) : p[i] \in ToSet(p)  BY DEF ToSet
        <4>2. \A i \in 1 .. Len(c) : c[i] \in ToSet(c)  BY DEF ToSet
        <4> QED  BY <1>3, <1>4, <2>3, <4>1, <4>2
      <3>2. x[4].id # y[4].id  BY <1>13, <3>1
      <3>3. \A s \in {p, c} : ~(x[4] \in ToSet(s) /\ y[4] \in ToSet(s))  BY <1>13, <3>1
      <3> QED  BY <2>1, <3>2, <3>3 DEF Follows
    <2> QED  BY <2>2, <2>3
  <1>16. \A i, j \in 1 .. N : i < j => Follows(p, c, m[i], m[j])
    <2> HIDE DEF K
    <2> QED  BY <1>8, <1>10, <1>15
  <1>17. \A i \in 1 .. N : m[i] \in ToSet(p) \cup ToSet(c)
    <2> HIDE DEF K
    <2> QED  BY <1>8, <1>10, <1>11
  <1> QED  BY <1>10, <1>12, <1>16, <1>17

\* What is read of a transcript is its end.
LEMMA NewestAt ==
  ASSUME NEW S, NEW s \in Seq(S), NEW n \in Nat
  PROVE  \E a \in 0 .. Len(s) :
           /\ Newest(s, n) = [i \in 1 .. Len(s) - a |-> s[a + i]]
           /\ Len(Newest(s, n)) = Len(s) - a
           /\ a > 0 => Len(s) > n
  <1> DEFINE b == Len(s)
             m == Min({n, b})
             a == b - m
             h == SubSeq(s, a + 1, b)
  <1>1. b \in Nat /\ s = [i \in 1 .. b |-> s[i]]  OBVIOUS
  <1>2. m = IF n <= b THEN n ELSE b  BY <1>1, MinIs
  <1>3. b + 1 - m = a + 1 /\ a \in Nat /\ a <= b /\ b - a = m /\ (a > 0 => b > n)
    <2>1. b \in Nat  BY <1>1
    <2> HIDE DEF m, b
    <2>2. m \in Nat /\ m <= b /\ (b > m => b > n)  BY ONLY <1>2, <2>1, n \in Nat
    <2> QED  BY ONLY <2>1, <2>2
  <1>4. Newest(s, n) = h  BY <1>3 DEF Newest
  <1> HIDE DEF a, m
  <1>5. Part(s, a, b)
    <2> HIDE DEF b
    <2>1. b \in Nat  BY <1>1
    <2> QED  BY ONLY <1>1, <1>3, <2>1, SubSeqIs
  <1>6. h = [i \in 1 .. b - a |-> s[a + i]] /\ Len(h) = b - a  BY <1>5 DEF Part
  <1>7. a \in 0 .. b  BY <1>1, <1>3
  <1> HIDE DEF h, b
  <1>8. /\ Newest(s, n) = [i \in 1 .. b - a |-> s[a + i]] /\ Len(Newest(s, n)) = b - a
        /\ a > 0 => b > n
    BY <1>3, <1>4, <1>6
  <1> QED  BY <1>7, <1>8 DEF b

\* A line that was not read is before those that were.
LEMMA UnreadOf ==
  ASSUME NEW s \in Seq(Line), InTurn(s), NEW n \in Nat, NEW h, h = Newest(s, n),
         NEW d \in ToSet(s), d \notin ToSet(h)
  PROVE  /\ Len(s) > n /\ h # s
         /\ h # <<>> => d.at <= Head(h).at
         /\ \A c \in ToSet(h) : d.id < c.id
  <1>1. PICK a \in 0 .. Len(s) : /\ h = [i \in 1 .. Len(s) - a |-> s[a + i]]
                                 /\ Len(h) = Len(s) - a /\ (a > 0 => Len(s) > n)
    BY NewestAt
  <1>2. PICK j \in 1 .. Len(s) : d = s[j]  BY DEF ToSet
  <1> DEFINE b == Len(s)
             m == b - a
  <1>3. b \in Nat /\ a \in Nat /\ m \in Nat /\ a <= b /\ m + a = b  BY <1>1
  <1>4. DOMAIN h = 1 .. m /\ \A i \in 1 .. m : h[i] = s[a + i]  BY <1>1
  <1>5. j <= a
    <2> SUFFICES ASSUME j > a PROVE FALSE  BY <1>3
    <2>1. j - a \in 1 .. m /\ a + (j - a) = j  BY <1>3
    <2>2. h[j - a] = d  BY <1>2, <1>4, <2>1
    <2> QED  BY <1>4, <2>1, <2>2 DEF ToSet
  <1> HIDE DEF b, m
  <1>6. \A i \in 1 .. m : a + i \in 1 .. b /\ j < a + i  BY <1>3, <1>5
  <1>7. \A i \in 1 .. m : d.at <= h[i].at /\ d.id < h[i].id
    BY <1>2, <1>4, <1>6 DEF InTurn, b
  <1>8. \A c \in ToSet(h) : d.id < c.id  BY <1>4, <1>7 DEF ToSet
  <1>9. h # <<>> => d.at <= Head(h).at
    <2> SUFFICES ASSUME h # <<>> PROVE d.at <= Head(h).at  OBVIOUS
    <2>1. Newest(s, n) \in Seq(Line)  BY NewestIs
    <2>2. 1 \in 1 .. m /\ Head(h) = h[1]
      <3>1. h \in Seq(Line) /\ h # <<>>  BY <2>1
      <3>2. 1 \in DOMAIN h /\ Head(h) = h[1]  BY ONLY <3>1
      <3> QED  BY ONLY <1>4, <3>2
    <2> QED  BY <1>7, <2>2
  <1> QED  BY <1>1, <1>3, <1>5, <1>8, <1>9

\* The two transcripts are written in turn, each line under an id of its own; and a
\* subagent's is not older than its last line.
All == ToSet(parent) \cup ToSet(child)
UpTo(s, n) == \A i \in 1 .. Len(s) : s[i].id <= n
NoneAfter(s, time) == \A i \in 1 .. Len(s) : s[i].at <= time
Ordered ==
  /\ InTurn(parent) /\ InTurn(child) /\ Apart(parent, child)
  /\ UpTo(parent, Len(parent) + Len(child)) /\ UpTo(child, Len(parent) + Len(child))
  /\ NoneAfter(child, touched)

LEMMA LineOf ==
  ASSUME NEW s \in Seq(Line), NEW x \in ToSet(s)
  PROVE  x \in Line /\ x.at \in Nat /\ x.id \in Nat /\ x.told \in Nat
         /\ \E i \in 1 .. Len(s) : x = s[i]
  <1>1. PICK i \in 1 .. Len(s) : x = s[i]  BY DEF ToSet
  <1>2. x \in Line  BY <1>1
  <1> QED  BY <1>1, <1>2 DEF Line, Entry

LEMMA InFiles ==
  ASSUME Files, NEW x \in All
  PROVE  x \in Line /\ x.at \in Nat /\ x.id \in Nat /\ x.told \in Nat
  <1>1. parent \in Seq(Line) /\ child \in Seq(Line)  BY DEF Files, Script
  <1> QED  BY <1>1, LineOf DEF All

LEMMA OneId ==
  ASSUME Files, Ordered, NEW x \in All, NEW y \in All, x.id = y.id
  PROVE  x = y
  <1>1. parent \in Seq(Line) /\ child \in Seq(Line)  BY DEF Files, Script
  <1>2. ASSUME NEW s \in Seq(Line), InTurn(s), x \in ToSet(s), y \in ToSet(s) PROVE x = y
    <2>1. PICK i \in 1 .. Len(s) : x = s[i]  BY <1>2, LineOf
    <2>2. PICK j \in 1 .. Len(s) : y = s[j]  BY <1>2, LineOf
    <2>3. s[i].id \in Nat /\ s[j].id \in Nat  BY <1>2, <2>1, <2>2, LineOf
    <2>4. ~(i < j) /\ ~(j < i)  BY <1>2, <2>1, <2>2, <2>3 DEF InTurn
    <2>5. i = j  BY <2>4
    <2> QED  BY <2>1, <2>2, <2>5
  <1>3. ASSUME NEW u \in ToSet(parent), NEW v \in ToSet(child) PROVE u.id # v.id
    BY DEF Ordered, Apart, ToSet
  <1> QED  BY <1>1, <1>2, <1>3 DEF Ordered, All

LEMMA TimeOrders ==
  ASSUME Files, Ordered, NEW c \in All, NEW d \in All, d.at < c.at
  PROVE  ~Later(d, c)
  <1>1. parent \in Seq(Line) /\ child \in Seq(Line)  BY DEF Files, Script
  <1>2. c.at \in Nat /\ d.at \in Nat /\ c.id \in Nat /\ d.id \in Nat  BY InFiles
  <1>3. ASSUME NEW s \in Seq(Line), InTurn(s), c \in ToSet(s), d \in ToSet(s)
        PROVE  ~(d.id > c.id)
    <2>1. PICK i \in 1 .. Len(s) : c = s[i]  BY <1>3, LineOf
    <2>2. PICK j \in 1 .. Len(s) : d = s[j]  BY <1>3, LineOf
    <2>3. ~(i < j)
      <3>1. i < j => c.at <= d.at  BY <1>3, <2>1, <2>2 DEF InTurn
      <3> QED  BY <1>2, <3>1
    <2>4. CASE j < i
      <3>1. d.id < c.id  BY <1>3, <2>1, <2>2, <2>4 DEF InTurn
      <3> QED  BY <1>2, <3>1
    <2>5. CASE i = j  BY <1>2, <2>1, <2>2, <2>5
    <2> QED  BY <2>3, <2>4, <2>5
  <1>4. \A s \in {parent, child} : {d, c} \subseteq ToSet(s) => ~(d.id > c.id)
    BY <1>1, <1>3 DEF Ordered
  <1>5. ~(d.at > c.at)  BY <1>2
  <1> QED  BY <1>4, <1>5 DEF Later

LEMMA SeenIs ==
  ASSUME Files, Ordered, NEW calls, calls = Calls(parent, child)
  PROVE  /\ calls \in Seq(Called) /\ Seen = {calls[i] : i \in 1 .. Len(calls)}
         /\ Seen \subseteq All /\ Seen \subseteq ToSet(ReadOf(parent)) \cup ToSet(ReadAfter(parent, child))
         /\ \A x \in ToSet(ReadOf(parent)) \cup ToSet(ReadAfter(parent, child)) :
              x.does # "person" => x \in Seen
         /\ InOrderOfTime(calls)
         /\ \A i, j \in 1 .. Len(calls) : i < j => ~Later(calls[i], calls[j])
  <1> DEFINE p == ReadOf(parent)
             c == ReadAfter(parent, child)
  <1>1. parent \in Seq(Line) /\ child \in Seq(Line)  BY DEF Files, Script
  <1>2. p \in Seq(Line) /\ c \in Seq(Line) /\ calls \in Seq(Called) /\ Budget - Len(p) \in Nat
    <2>1. p \in Seq(Line) /\ c \in Seq(Line) /\ calls \in Seq(Called)
          /\ ReadPart(p, parent, Budget)
      BY <1>1, ReadIs
    <2>2. Budget \in Nat  BY LiveEstimateAssumption
    <2> QED  BY <2>1, <2>2 DEF ReadPart
  <1>3. ASSUME NEW s \in Seq(Line), InTurn(s), NEW n \in Nat, NEW h, h = Newest(s, n)
        PROVE  InTurn(h) /\ ToSet(h) \subseteq ToSet(s)
               /\ \A i \in 1 .. Len(h) : \E j \in 1 .. Len(s) : h[i] = s[j]
    <2>1. PICK a \in 0 .. Len(s) : /\ h = [i \in 1 .. Len(s) - a |-> s[a + i]]
                                   /\ Len(h) = Len(s) - a
      BY <1>3, NewestAt
    <2>2. /\ \A i \in 1 .. Len(h) : h[i] = s[a + i] /\ a + i \in 1 .. Len(s)
          /\ DOMAIN h = 1 .. Len(h)
      BY <2>1
    <2>3. InTurn(h)
      <3>1. \A i, j \in 1 .. Len(h) : i < j => a + i < a + j  BY <2>1
      <3> QED  BY <1>3, <2>2, <3>1 DEF InTurn
    <2>4. ToSet(h) \subseteq ToSet(s)  BY <2>2 DEF ToSet
    <2> QED  BY <2>2, <2>3, <2>4
  <1>4. /\ InTurn(p) /\ ToSet(p) \subseteq ToSet(parent)
        /\ \A i \in 1 .. Len(p) : \E j \in 1 .. Len(parent) : p[i] = parent[j]
    <2>1. p = Newest(parent, Budget)  BY DEF ReadOf
    <2>2. Budget \in Nat  BY LiveEstimateAssumption
    <2> HIDE DEF p
    <2> QED  BY <1>1, <1>3, <2>1, <2>2 DEF Ordered
  <1>5. /\ InTurn(c) /\ ToSet(c) \subseteq ToSet(child)
        /\ \A i \in 1 .. Len(c) : \E j \in 1 .. Len(child) : c[i] = child[j]
    <2> DEFINE n == Budget - Len(p)
    <2>1. c = Newest(child, n)  BY DEF ReadAfter
    <2>2. n \in Nat /\ InTurn(child)  BY <1>2 DEF Ordered
    <2> HIDE DEF p, c, n
    <2> QED  BY ONLY <1>1, <1>3, <2>1, <2>2
  <1>6. Apart(p, c)
    <2> HIDE DEF p, c
    <2> SUFFICES ASSUME NEW i \in 1 .. Len(p), NEW j \in 1 .. Len(c) PROVE p[i].id # c[j].id
      BY DEF Apart
    <2>1. PICK k \in 1 .. Len(parent) : p[i] = parent[k]  BY <1>4
    <2>2. PICK l \in 1 .. Len(child) : c[j] = child[l]  BY <1>5
    <2> QED  BY ONLY Ordered, <2>1, <2>2 DEF Ordered, Apart
  <1>7. calls = Merged(p, c)  BY DEF Calls
  <1>15. \A u \in ToSet(parent), v \in ToSet(child) : u.id # v.id
    BY DEF Ordered, Apart, ToSet
  <1> HIDE DEF p, c
  <1>8. /\ \A i \in 1 .. Len(calls) : calls[i] \in ToSet(p) \cup ToSet(c)
        /\ \A x \in ToSet(p) \cup ToSet(c) :
             x.does # "person" => \E i \in 1 .. Len(calls) : calls[i] = x
        /\ \A i, j \in 1 .. Len(calls) : i < j => Follows(p, c, calls[i], calls[j])
    BY <1>2, <1>4, <1>5, <1>6, <1>7, MergedIs
  <1>9. Seen = {calls[i] : i \in 1 .. Len(calls)}
    <2>1. DOMAIN calls = 1 .. Len(calls)  BY <1>2
    <2> QED  BY <2>1 DEF Seen, ToSet
  <1>10. Seen \subseteq All /\ Seen \subseteq ToSet(p) \cup ToSet(c)
    BY <1>4, <1>5, <1>8, <1>9 DEF All
  <1>11. \A x \in ToSet(p) \cup ToSet(c) : x.does # "person" => x \in Seen
    BY <1>8, <1>9
  <1>12. InOrderOfTime(calls)  BY <1>8 DEF InOrderOfTime, Follows
  <1>13. ASSUME NEW i \in 1 .. Len(calls), NEW j \in 1 .. Len(calls), i < j
         PROVE  ~Later(calls[i], calls[j])
    <2> DEFINE x == calls[i]
               y == calls[j]
    <2>1. x \in Seen /\ y \in Seen  BY <1>9
    <2>2. x \in All /\ y \in All /\ x \in ToSet(p) \cup ToSet(c) /\ y \in ToSet(p) \cup ToSet(c)
      BY <1>10, <2>1
    <2>3. x.at \in Nat /\ y.at \in Nat /\ x.id \in Nat /\ y.id \in Nat  BY <2>2, InFiles
    <2>4. Follows(p, c, x, y)  BY <1>8, <1>13
    <2> HIDE DEF x, y
    <2>5. x \in ToSet(parent) => x \in ToSet(p)  BY <1>5, <1>15, <2>2
    <2>6. y \in ToSet(parent) => y \in ToSet(p)  BY <1>5, <1>15, <2>2
    <2>7. x \in ToSet(child) => x \in ToSet(c)  BY <1>4, <1>15, <2>2
    <2>8. y \in ToSet(child) => y \in ToSet(c)  BY <1>4, <1>15, <2>2
    <2>9. \A s \in {parent, child} : {x, y} \subseteq ToSet(s) => x.id < y.id
      BY <2>4, <2>5, <2>6, <2>7, <2>8 DEF Follows
    <2>10. x.at <= y.at  BY <2>4 DEF Follows
    <2>11. ~Later(x, y)  BY <2>3, <2>9, <2>10 DEF Later
    <2> QED  BY <2>11 DEF x, y
  <1> QED  BY <1>2, <1>9, <1>10, <1>11, <1>12, <1>13 DEF p, c

\* What was not read is not after a call from the horizon on.
LEMMA UnreadIs ==
  ASSUME Files, Ordered, NEW d \in All, d.does # "person", d \notin Seen,
         NEW ctx, ctx = Context(parent, child, touched, done, FALSE),
         NEW x \in Seen, ctx.from <= x.at
  PROVE  ~Later(d, x)
  <1> DEFINE p == ReadOf(parent)
             c == ReadAfter(parent, child)
             n == Budget - Len(p)
  <1>12. ctx.from <= x.at  OBVIOUS
  <1>1. parent \in Seq(Line) /\ child \in Seq(Line) /\ now \in Nat /\ touched \in 0 .. now
    BY LiveEstimateAssumption DEF Files, Script
  <1>2. Until(parent, now) /\ Until(child, now)
    <2>1. \A s : Script(s, now) => Until(s, now)  BY <1>1 DEF Script, Until
    <2> QED  BY <2>1 DEF Files
  <1>3. done \in SUBSET Nat /\ FALSE \in BOOLEAN  BY LiveEstimateAssumption DEF Files
  <1>4. /\ ctx.from \in Nat
        /\ Len(parent) > Budget => Head(p).at <= ctx.from
        /\ child # <<>> /\ c = <<>> => touched <= ctx.from
        /\ c # <<>> /\ c # child => Head(c).at <= ctx.from
    <2> HIDE DEF p, c
    <2>1. ctx = Context(parent, child, touched, done, FALSE)  OBVIOUS
    <2>2. /\ parent \in Seq(Line) /\ child \in Seq(Line) /\ now \in Nat
          /\ Until(parent, now) /\ Until(child, now) /\ touched \in 0 .. now
          /\ done \in SUBSET Nat /\ FALSE \in BOOLEAN
      BY ONLY <1>1, <1>2, <1>3
    <2>3. /\ ctx \in Contexts
          /\ Len(parent) > Budget => Head(ReadOf(parent)).at <= ctx.from
          /\ child # <<>> /\ ReadAfter(parent, child) = <<>> => touched <= ctx.from
          /\ ReadAfter(parent, child) # <<>> /\ ReadAfter(parent, child) # child
               => Head(ReadAfter(parent, child)).at <= ctx.from
      BY ONLY <2>1, <2>2, ContextIs, ZenonT(30)
    <2> QED  BY ONLY <2>3 DEF Contexts, p, c
  <1>5. /\ Seen \subseteq All /\ Seen \subseteq ToSet(p) \cup ToSet(c)
        /\ d \notin ToSet(p) /\ d \notin ToSet(c)
    BY SeenIs
  <1>6. /\ d.at \in Nat /\ d.id \in Nat /\ x.at \in Nat /\ x.id \in Nat /\ x \in All
    BY <1>5, InFiles
  <1>7. \A u \in ToSet(parent), v \in ToSet(child) : u.id # v.id
    BY DEF Ordered, Apart, ToSet
  <1>8. /\ p \in Seq(Line) /\ c \in Seq(Line) /\ (parent # <<>> => p # <<>>)
        /\ n \in Nat /\ p = Newest(parent, Budget) /\ c = Newest(child, n)
        /\ Budget \in Nat
    <2>1. p \in Seq(Line) /\ c \in Seq(Line) /\ (parent # <<>> => p # <<>>)
          /\ ReadPart(p, parent, Budget)
      BY <1>1, ReadIs
    <2>2. Budget \in Nat  BY LiveEstimateAssumption
    <2> QED  BY <2>1, <2>2 DEF ReadPart, ReadOf, ReadAfter
  <1>9. ToSet(p) \subseteq ToSet(parent) /\ ToSet(c) \subseteq ToSet(child)
    <2>1. ReadPart(p, parent, Budget) /\ ReadPart(c, child, n)  BY <1>1, ReadIs
    <2> HIDE DEF p, c, n
    <2>2. \A h, s, k : h \in Seq(Line) /\ s \in Seq(Line) /\ ReadPart(h, s, k)
                          => ToSet(h) \subseteq ToSet(s)
      <3> SUFFICES ASSUME NEW h \in Seq(Line), NEW s \in Seq(Line), NEW k, ReadPart(h, s, k),
                          NEW y \in ToSet(h)
                   PROVE  y \in ToSet(s)
        OBVIOUS
      <3>1. PICK i \in 1 .. Len(h) : y = h[i]  BY LineOf
      <3>2. PICK j \in 1 .. Len(s) : h[i] = s[j]  BY <3>1 DEF ReadPart
      <3> QED  BY <3>1, <3>2 DEF ToSet
    <2> QED  BY <1>1, <1>8, <2>1, <2>2
  <1> HIDE DEF p, c, n
  <1>10. CASE d \in ToSet(parent)
    <2>1. /\ Len(parent) > Budget
          /\ p # <<>> => d.at <= Head(p).at
          /\ \A y \in ToSet(p) : d.id < y.id
      BY <1>1, <1>5, <1>8, <1>10, UnreadOf DEF Ordered
    <2>2. parent # <<>>  BY <1>8, <2>1
    <2>3. Head(p).at \in Nat
      <3>1. p \in Seq(Line) /\ p # <<>>  BY <1>8, <2>2
      <3>2. Head(p) \in Line  BY ONLY <3>1
      <3> QED  BY ONLY <3>2 DEF Line, Entry
    <2>4. d.at <= x.at  BY ONLY <1>4, <1>6, <1>8, <1>12, <2>1, <2>2, <2>3
    <2>5. ASSUME NEW s \in {parent, child}, {d, x} \subseteq ToSet(s) PROVE ~(d.id > x.id)
      <3>1. s = parent  BY <1>7, <1>10, <2>5
      <3>2. x \in ToSet(p)  BY <1>5, <1>7, <1>9, <2>5, <3>1
      <3> QED  BY <1>6, <2>1, <3>2
    <2> QED  BY <1>6, <2>4, <2>5 DEF Later
  <1>11. CASE d \in ToSet(child)
    <2>1. /\ c # child
          /\ c # <<>> => d.at <= Head(c).at
          /\ \A y \in ToSet(c) : d.id < y.id
      BY <1>1, <1>5, <1>8, <1>11, UnreadOf DEF Ordered
    <2>2. d.at <= x.at
      <3>1. CASE c = <<>>
        <4>1. child # <<>>  BY <2>1, <3>1
        <4>2. d.at <= touched /\ touched \in Nat
          <5>1. PICK j \in 1 .. Len(child) : d = child[j]  BY <1>1, <1>11, LineOf
          <5> QED  BY <1>1, <5>1 DEF Ordered, NoneAfter
        <4> QED  BY ONLY <1>4, <1>6, <1>12, <3>1, <4>1, <4>2
      <3>2. CASE c # <<>>
        <4>1. Head(c).at \in Nat
          <5>1. Head(c) \in Line  BY ONLY <1>8, <3>2
          <5> QED  BY ONLY <5>1 DEF Line, Entry
        <4> QED  BY ONLY <1>4, <1>6, <1>12, <2>1, <3>2, <4>1
      <3> QED  BY <3>1, <3>2
    <2>5. ASSUME NEW s \in {parent, child}, {d, x} \subseteq ToSet(s) PROVE ~(d.id > x.id)
      <3>1. s = child  BY <1>7, <1>11, <2>5
      <3>2. x \in ToSet(c)  BY <1>5, <1>7, <1>9, <2>5, <3>1
      <3> QED  BY <1>6, <2>1, <3>2
    <2> QED  BY <1>6, <2>2, <2>5 DEF Later
  <1> QED  BY <1>10, <1>11 DEF All

\* The check that stands under "none or low" passed, with nothing against it.
Clear(t, ctx, run) ==
  /\ run.result = "passed" /\ ~run.fixes /\ ~ctx.unread /\ ~(run.at < ctx.from)
  /\ t.lastChange < run.at
  /\ \A w \in t.writeCalls : ~(w.at >= run.at /\ w.id # run.id)

LEMMA LowPasses ==
  ASSUME NEW calls \in Seq(Called), InOrderOfTime(calls), NEW ctx, NEW t,
         NEW on \in SUBSET DOMAIN Inside, t = Pure(calls, ctx)[Len(calls)],
         LevelAt(t, on) = "none-or-low"
  PROVE  /\ Tally(t) /\ t.ctx = ctx /\ Knows(t, calls, Len(calls))
         /\ LowLaunches(t) /\ LowWrites(t, on) /\ Unsettled = 0 /\ Standing(t) # {}
         /\ \A k \in Standing(t) : Clear(t, ctx, Lasts(t)[k])
  <1> DEFINE n == Len(calls)
  <1>1. n \in Nat /\ n \in 0 .. n  OBVIOUS
  <1>2. Tally(t) /\ Current(t)  BY <1>1, PureIs
  <1>3. t.ctx = ctx  BY <1>1, PureCtx
  <1>4. Knows(t, calls, n)  BY PureKnows
  <1>5. LowChecks(t) /\ LowLaunches(t) /\ LowWrites(t, on) /\ Unsettled = 0
    BY <1>2, <1>4, LowStands DEF Knows, WritesKnown, LaunchesKnown
  <1> HIDE DEF n
  <1>6. ASSUME NEW k \in Standing(t) PROVE Clear(t, ctx, Lasts(t)[k])
    <2> DEFINE run == Lasts(t)[k]
               e == EntryOf(t, k)
    <2>1. k \in DOMAIN Lasts(t)  BY DEF Standing
    <2>2. k \in Checks /\ t.runs[k] \in Seq(Run) /\ t.runs[k] # <<>> /\ run = Latest(t.runs[k])
      BY <1>2, <2>1, LastsIs
    <2>3. \E i \in DOMAIN t.runs[k] : run = t.runs[k][i]  BY <2>2, LatestIs
    <2>4. PICK j \in 1 .. n : OfCall(run, k, calls[j])
      BY <1>4, <2>2, <2>3 DEF Knows, RunsKnown
    <2>5. IsCall(calls[j])  BY <2>4, CalledIs DEF n
    <2>6. run.result \in {"passed", "failed", "not-recorded"}
      <3>1. run.result = Outcome(calls[j])  BY <2>4 DEF OfCall, RunOf
      <3>2. calls[j].says \in {"nothing", "passed", "failed"}
        BY <2>4, <2>5 DEF OfCall, Ran, Refused, IsCall, Says
      <3> QED  BY <3>1, <3>2 DEF Outcome
    <2>7. /\ e.result = run.result /\ e.at = run.at
          /\ e.aged = (run.fixes \/ \E w \in t.writeCalls : w.at >= run.at /\ w.id # run.id)
          /\ e.incomplete = (run.result = "passed" /\ (t.ctx.unread \/ run.at < t.ctx.from))
      BY DEF EntryOf, CheckEntry
    <2>8. /\ e.result \notin {"failed", "not-recorded"}
          /\ e.result = "passed" => ~e.aged /\ ~e.incomplete /\ t.lastChange < e.at
      BY <1>5 DEF LowChecks
    <2> HIDE DEF run, e
    <2>9. run.result = "passed"  BY <2>6, <2>7, <2>8
    <2>10. Clear(t, ctx, run)  BY <1>3, <2>7, <2>8, <2>9 DEF Clear
    <2> QED  BY <2>10 DEF run
  <1>7. Standing(t) # {}  BY <1>5 DEF LowChecks
  <1> QED  BY <1>2, <1>3, <1>4, <1>5, <1>6, <1>7 DEF n

\* The run a check's entry is of is the latest of its calls.
LEMMA LastCall ==
  ASSUME Files, Ordered, NEW calls, calls = Calls(parent, child),
         NEW t, Tally(t), RunsKnown(t, calls, Len(calls)), NEW k \in DOMAIN Lasts(t)
  PROVE  \E c \in LatestOf(k) : c \in Seen /\ OfCall(Lasts(t)[k], k, c)
  <1> DEFINE n == Len(calls)
             h == t.runs[k]
  <1>1. k \in Checks /\ h \in Seq(Run) /\ h # <<>> /\ Lasts(t)[k] = Latest(h)
    BY LastsIs
  <1>2. PICK i \in DOMAIN h : Latest(h) = h[i] /\ \A j \in DOMAIN h : AsNew(h[i], i, h[j], j)
    BY <1>1, LatestIs
  <1>3. PICK a \in 1 .. n : OfCall(h[i], k, calls[a])  BY <1>1, <1>2 DEF RunsKnown
  <1>4. /\ calls \in Seq(Called) /\ Seen = {calls[j] : j \in 1 .. n} /\ Seen \subseteq All
        /\ InOrderOfTime(calls)
        /\ \A j, l \in 1 .. n : j < l => ~Later(calls[j], calls[l])
    BY SeenIs
  <1> DEFINE c == calls[a]
             runs == {d \in Seen : Ran(d) /\ d.of = k}
  <1>5. c \in runs  BY <1>3, <1>4 DEF OfCall
  <1>6. \A j \in DOMAIN h : h[j].evidence \in Nat /\ j \in Nat
    <2>1. \A j \in DOMAIN h : h[j] \in Run /\ j \in Nat  BY <1>1
    <2> QED  BY <2>1 DEF Run
  <1>7. \A r, d : OfCall(r, k, d) => r.evidence = Evidence(d)
    BY DEF OfCall, RunOf, Evidence
  <1>8. ASSUME NEW d \in runs PROVE ~Newer(d, c) /\ (Newer(c, d) \/ ~Later(d, c))
    <2>1. PICK b \in 1 .. n : d = calls[b]  BY <1>4
    <2>2. PICK m \in DOMAIN h : OfCall(h[m], k, calls[b])  BY <2>1 DEF RunsKnown
    <2>3. Evidence(d) = h[m].evidence /\ Evidence(c) = h[i].evidence
      BY <1>3, <1>7, <2>1, <2>2
    <2>4. AsNew(h[i], i, h[m], m)  BY <1>2
    <2> HIDE DEF c, runs, h, n
    <2>5. CASE h[m].evidence < h[i].evidence
      BY <1>6, <2>3, <2>5 DEF Newer
    <2>6. CASE h[m].evidence = h[i].evidence /\ m <= i
      <3>1. ~Newer(d, c)  BY <1>6, <2>3, <2>6 DEF Newer
      <3>2. CASE m < i
        <4>2. m \in DOMAIN t.runs[k] /\ i \in DOMAIN t.runs[k]  BY DEF h
        <4>3. OfCall(t.runs[k][m], k, calls[b]) /\ OfCall(t.runs[k][i], k, calls[a])
          BY <1>3, <2>2 DEF h
        <4>4. b \in 1 .. Len(calls) /\ a \in 1 .. Len(calls)  BY DEF n
        <4>1. b < a  BY <1>1, <3>2, <4>2, <4>3, <4>4 DEF RunsKnown
        <4> QED  BY <1>4, <2>1, <3>1, <4>1 DEF c
      <3>3. CASE m = i
        <4>1. a = b  BY <1>3, <1>4, <2>2, <3>3, CallOf DEF n
        <4>2. d.at \in Nat /\ d.id \in Nat /\ d = c
          <5>1. d \in Seen  BY DEF runs
          <5> QED  BY <1>4, <2>1, <4>1, <5>1, InFiles DEF c
        <4> QED  BY <3>1, <4>2 DEF Later
      <3> QED  BY <1>6, <2>6, <3>2, <3>3
    <2> QED  BY <2>4, <2>5, <2>6 DEF AsNew
  <1>9. c \in LatestOf(k)  BY <1>5, <1>8 DEF LatestOf
  <1>10. OfCall(Lasts(t)[k], k, c)  BY <1>1, <1>2, <1>3
  <1>11. c \in Seen  BY <1>5
  <1> QED  BY <1>9, <1>10, <1>11

\* Nothing was written or may have changed after the pass of a clear run.
LEMMA ClearStands ==
  ASSUME Files, Ordered, NEW calls, calls = Calls(parent, child),
         NEW ctx, ctx = Context(parent, child, touched, done, FALSE),
         NEW t, WritesKnown(t, calls, Len(calls)), ChangesKnown(t, calls, Len(calls)),
         NEW run, NEW k, NEW c \in Seen, OfCall(run, k, c), Clear(t, ctx, run)
  PROVE  Stands(c)
  <1> DEFINE n == Len(calls)
  <1>1. run.at = c.at /\ run.id = c.id /\ run.result = Outcome(c)
        /\ run.fixes = (c.does = "check-then-fix")
    BY DEF OfCall, RunOf
  <1>2. /\ calls \in Seq(Called) /\ Seen = {calls[j] : j \in 1 .. n} /\ Seen \subseteq All
    BY SeenIs
  <1>3. c \in All /\ c.at \in Nat /\ c.id \in Nat  BY <1>2, InFiles
  <1>4. ~Later(c, c)  BY <1>3 DEF Later
  <1>5. Outcome(c) = "passed" /\ c.does # "check-then-fix"  BY <1>1 DEF Clear
  <1>6. ASSUME NEW d \in All, Wrote(d) \/ Alters(d) PROVE ~Later(d, c)
    <2>1. d.at \in Nat /\ d.id \in Nat  BY InFiles
    <2>2. CASE d \notin Seen
      <3>1. d.does # "person"
        BY <1>6 DEF Wrote, Alters, Changes, Fixes
      <3>2. ctx.from <= c.at
        <4>1. ctx.from \in Nat
          <5>1. parent \in Seq(Line) /\ child \in Seq(Line) /\ now \in Nat /\ touched \in 0 .. now
            BY LiveEstimateAssumption DEF Files, Script
          <5>2. Until(parent, now) /\ Until(child, now)
            <6>1. \A s : Script(s, now) => Until(s, now)  BY <5>1 DEF Script, Until
            <6> QED  BY <6>1 DEF Files
          <5>3. done \in SUBSET Nat /\ FALSE \in BOOLEAN  BY LiveEstimateAssumption DEF Files
          <5>4. ctx \in Contexts
            BY ONLY <5>1, <5>2, <5>3, ContextIs, ctx = Context(parent, child, touched, done, FALSE)
          <5> QED  BY <5>4 DEF Contexts
        <4>2. ~(c.at < ctx.from)  BY <1>1 DEF Clear
        <4> QED  BY ONLY <1>3, <4>1, <4>2
      <3> QED  BY <2>2, <3>1, <3>2, UnreadIs
    <2>3. CASE d \in Seen
      <3>1. PICK b \in 1 .. n : d = calls[b]  BY <1>2, <2>3
      <3>2. CASE Alters(d)
        <4>1. d.at <= t.lastChange /\ t.lastChange \in Nat  BY <3>1, <3>2 DEF ChangesKnown
        <4>2. t.lastChange < c.at  BY <1>1 DEF Clear
        <4>3. d.at < c.at  BY ONLY <1>3, <2>1, <4>1, <4>2
        <4> QED  BY <1>3, <4>3, TimeOrders
      <3>3. CASE Wrote(d)
        <4>1. Call(d) \in t.writeCalls /\ Call(d).at = d.at /\ Call(d).id = d.id
          BY <3>1, <3>3 DEF WritesKnown, Call
        <4>2. ~(d.at >= c.at /\ d.id # c.id)  BY <1>1, <4>1 DEF Clear
        <4>3. CASE d.at < c.at  BY <1>3, <4>3, TimeOrders
        <4>4. CASE d.id = c.id
          <5>1. d = c  BY <1>3, <4>4, OneId
          <5> QED  BY <1>4, <5>1
        <4> QED  BY <1>3, <2>1, <4>2, <4>3, <4>4
      <3> QED  BY <1>6, <3>2, <3>3
    <2> QED  BY <2>2, <2>3
  <1>7. \A d \in ToSet(parent) \cup ToSet(child) :
          (d.does = "write" /\ d.says = "passed") \/ (Changes(d) /\ ~Refused(d)) => ~Later(d, c)
    BY <1>6 DEF All, Wrote, Alters
  <1> QED  BY <1>5, <1>7 DEF Stands

LEMMA RunOfCall ==
  ASSUME NEW run, NEW k, NEW c, OfCall(run, k, c)
  PROVE  /\ Ran(c) /\ c.of = k
         /\ run.at = c.at /\ run.id = c.id /\ run.result = Outcome(c)
         /\ run.evidence = Evidence(c) /\ run.fixes = (c.does = "check-then-fix")
         /\ run.background <=> c.does = "background-check"
  <1> DEFINE n == run.seq
  <1>1. run = RunOf(c, n) /\ Ran(c) /\ c.of = k  BY DEF OfCall
  <1> HIDE DEF n
  <1> QED  BY <1>1 DEF RunOf, Evidence

\* Of the files as they are, "none or low" is earned.
LEMMA LowEarned ==
  ASSUME Files, Ordered, NEW calls, calls = Calls(parent, child),
         NEW ctx, ctx = Context(parent, child, touched, done, FALSE),
         NEW on \in SUBSET DOMAIN Inside,
         LevelAt(Pure(calls, ctx)[Len(calls)], on) = "none-or-low"
  PROVE  Earned(on)
  <1> DEFINE n == Len(calls)
             t == Pure(calls, ctx)[n]
             last == Lasts(t)
             checked == {c.of : c \in {d \in Seen : Ran(d) /\ d.does # "background-check"}}
  <1>1. /\ calls \in Seq(Called) /\ InOrderOfTime(calls)
        /\ Seen = {calls[j] : j \in 1 .. n} /\ Seen \subseteq All
    BY SeenIs
  <1>2. /\ Tally(t) /\ t.ctx = ctx /\ Knows(t, calls, n)
        /\ LowLaunches(t) /\ LowWrites(t, on) /\ Unsettled = 0 /\ Standing(t) # {}
        /\ \A k \in Standing(t) : Clear(t, ctx, last[k])
    BY <1>1, LowPasses
  <1>3. /\ RunsKnown(t, calls, n) /\ WritesKnown(t, calls, n) /\ LaunchesKnown(t, calls, n)
        /\ ChangesKnown(t, calls, n)
    BY <1>2 DEF Knows
  <1>4. ctx.done = done  BY DEF Context
  <1> HIDE DEF t
  <1>5. \A k \in DOMAIN last : \E c \in LatestOf(k) : c \in Seen /\ OfCall(last[k], k, c)
    BY <1>2, <1>3, LastCall
  <1> HIDE DEF last
  <1>6. ASSUME NEW k \in Standing(t), NEW c \in Seen, OfCall(last[k], k, c) PROVE Stands(c)
    BY <1>2, <1>3, <1>6, ClearStands
  <1>7. Standing(t) \subseteq DOMAIN last  BY DEF Standing, last
  <1>8. checked # {}
    <2>1. PICK k \in Standing(t) : TRUE  BY <1>2
    <2>2. k \in DOMAIN Lasts(t)  BY <1>7, <2>1 DEF last
    <2>3. k \in Checks  BY <1>2, <2>2, LastsIs
    <2>4. PICK i \in DOMAIN t.runs[k] : ~t.runs[k][i].background
      BY <1>2, <2>2, <2>3, LastsIs
    <2>5. PICK j \in 1 .. n : OfCall(t.runs[k][i], k, calls[j])
      BY <1>3, <2>3 DEF RunsKnown
    <2> DEFINE c == calls[j]
    <2>6. c \in Seen /\ Ran(c) /\ c.does # "background-check"
      <3> DEFINE r == t.runs[k][i]
      <3>1. OfCall(r, k, c) /\ ~r.background /\ c \in Seen  BY <1>1, <2>4, <2>5
      <3> HIDE DEF r, c
      <3> QED  BY ONLY <3>1, RunOfCall
    <2> HIDE DEF c
    <2> QED  BY <2>6
  <1>9. ASSUME NEW k \in checked PROVE k \in DOMAIN last
    <2>1. PICK d \in Seen : Ran(d) /\ d.does # "background-check" /\ d.of = k  OBVIOUS
    <2>2. PICK j \in 1 .. n : d = calls[j]  BY <1>1
    <2>3. IsCall(calls[j])  BY <1>1, CalledIs
    <2>4. k \in Checks  BY <2>1, <2>2, <2>3 DEF IsCall, Ran
    <2>5. PICK m \in DOMAIN t.runs[k] : OfCall(t.runs[k][m], k, d)
      BY <1>3, <2>1, <2>2 DEF RunsKnown
    <2>6. ~t.runs[k][m].background
      <3> DEFINE r == t.runs[k][m]
      <3>1. OfCall(r, k, d) /\ d.does # "background-check"  BY <2>1, <2>5
      <3> HIDE DEF r
      <3>2. ~r.background  BY ONLY <3>1, RunOfCall
      <3> QED  BY <3>2 DEF r
    <2>7. k \in DOMAIN Lasts(t)  BY <1>2, <2>4, <2>6, LastsIs
    <2> QED  BY <2>7 DEF last
  <1>10. ASSUME NEW k \in DOMAIN last PROVE \E c \in LatestOf(k) : Stands(c) \/ Covered(c)
    <2>1. PICK c \in LatestOf(k) : c \in Seen /\ OfCall(last[k], k, c)  BY <1>5
    <2>2. CASE k \in Standing(t)
      <3>1. Stands(c)  BY <1>6, <2>1, <2>2
      <3> QED  BY <2>1, <3>1
    <2>3. CASE k \notin Standing(t)
      <3>1. PICK q : q \in CoveredBy(last, k)  BY <2>3 DEF Standing, last
      <3>2. /\ q \in DOMAIN last /\ <<q, k>> \in Covers /\ last[q].result = "passed"
            /\ last[k].result = "failed" /\ last[q].evidence > last[k].evidence
        BY <3>1 DEF CoveredBy
      <3>3. CoveredBy(last, q) = {}  BY <3>2 DEF CoveredBy
      <3>4. q \in Standing(t)  BY <3>2, <3>3 DEF Standing, last
      <3>5. PICK p \in LatestOf(q) : p \in Seen /\ OfCall(last[q], q, p)  BY <1>5, <3>2
      <3>6. Stands(p)  BY <1>6, <3>4, <3>5
      <3>7. q \in Checks
        <4>1. q \in DOMAIN Lasts(t)  BY <3>2 DEF last
        <4> QED  BY <1>2, <4>1, LastsIs
      <3>8. /\ Outcome(c) = "failed" /\ c.of = k
            /\ last[k].evidence = Evidence(c) /\ last[q].evidence = Evidence(p)
        <4>1. \A r, l, d : OfCall(r, l, d) => /\ r.evidence = Evidence(d)
                                              /\ r.result = Outcome(d) /\ d.of = l
          BY DEF OfCall, RunOf, Evidence
        <4> QED  BY <2>1, <3>2, <3>5, <4>1
      <3>9. Newer(p, c)  BY <3>2, <3>8 DEF Newer
      <3>10. Covered(c)  BY <3>2, <3>5, <3>6, <3>7, <3>8, <3>9 DEF Covered
      <3> QED  BY <2>1, <3>10
    <2> QED  BY <2>2, <2>3
  <1>11. ASSUME NEW c \in Seen, c.does = "write", c.says = "passed", on # {}
         PROVE  InNamed(c.of)
    <2>1. PICK j \in 1 .. n : c = calls[j]  BY <1>1
    <2>2. Wrote(calls[j])  BY <1>11, <2>1 DEF Wrote
    <2>3. (c.of = Stray /\ t.outside > 0) \/ HasPath(t.writes, c.of)
      BY <1>3, <2>1, <2>2 DEF WritesKnown
    <2>4. t.outside = 0 /\ \A i \in 1 .. Len(t.writes) : InNamed(t.writes[i].path)
      BY <1>2, <1>11 DEF LowWrites
    <2> QED  BY <2>3, <2>4 DEF HasPath
  <1>12. ASSUME NEW c \in Seen, c.does \in {"launch", "background-check"}, ~Refused(c)
         PROVE  c.id \in done
    <2>1. PICK j \in 1 .. n : c = calls[j]  BY <1>1
    <2>2. Launched(calls[j])  BY <1>12, <2>1 DEF Launched
    <2>3. PICK i \in 1 .. Len(t.launches) : t.launches[i].id = c.id
      BY <1>3, <2>1, <2>2 DEF LaunchesKnown
    <2> QED  BY <1>2, <1>4, <2>3 DEF LowLaunches
  <1>13. \A k \in checked : \E c \in LatestOf(k) : Stands(c) \/ Covered(c)  BY <1>9, <1>10
  <1>14. \A c \in Seen :
           /\ c.does = "write" /\ c.says = "passed" /\ on # {}
                => \E f \in DOMAIN Inside : c.of \in Inside[f]
           /\ c.does \in {"launch", "background-check"} /\ ~Refused(c) => c.id \in done
    BY <1>11, <1>12 DEF InNamed
  <1>15. Unsettled = 0  BY <1>2
  <1> QED  BY <1>8, <1>13, <1>14, <1>15 DEF Earned

\* A reading that is taken for incomplete never says it.
LEMMA UnreadNotLow ==
  ASSUME NEW calls \in Seq(Called), InOrderOfTime(calls), NEW ctx, ctx.unread,
         NEW on \in SUBSET DOMAIN Inside
  PROVE  LevelAt(Pure(calls, ctx)[Len(calls)], on) # "none-or-low"
  <1> SUFFICES ASSUME LevelAt(Pure(calls, ctx)[Len(calls)], on) = "none-or-low" PROVE FALSE
    OBVIOUS
  <1> DEFINE t == Pure(calls, ctx)[Len(calls)]
  <1>1. Standing(t) # {} /\ \A k \in Standing(t) : Clear(t, ctx, Lasts(t)[k])  BY LowPasses
  <1>2. \A run : ~Clear(t, ctx, run)  BY DEF Clear
  <1> QED  BY <1>1, <1>2

\* A line more, or a result, leaves a transcript written in turn.
LEMMA TurnAppend ==
  ASSUME NEW s \in Seq(Line), NEW x \in Line, NEW n \in Nat, InTurn(s), UpTo(s, n), x.id = n + 1,
         NoneAfter(s, x.at), NEW t, t = Append(s, x)
  PROVE  InTurn(t) /\ UpTo(t, n + 1) /\ Len(t) = Len(s) + 1
  <1>1. /\ Len(t) = Len(s) + 1 /\ Len(s) \in Nat
        /\ \A i \in 1 .. Len(s) : t[i] = s[i]
        /\ t[Len(s) + 1] = x
    OBVIOUS
  <1>2. \A i \in 1 .. Len(t) : i \in 1 .. Len(s) \/ i = Len(s) + 1  BY <1>1
  <1>3. \A i \in 1 .. Len(s) : s[i].id \in Nat /\ s[i].at \in Nat
    <2>1. \A i \in 1 .. Len(s) : s[i] \in Line  OBVIOUS
    <2> QED  BY <2>1 DEF Line, Entry
  <1>4. \A i \in 1 .. Len(s) : s[i].at <= x.at /\ s[i].id < x.id /\ s[i].id <= n + 1
    BY <1>3 DEF UpTo, NoneAfter
  <1>5. InTurn(t)
    <2> SUFFICES ASSUME NEW i \in 1 .. Len(t), NEW j \in 1 .. Len(t), i < j
                 PROVE  t[i].at <= t[j].at /\ t[i].id < t[j].id
      BY DEF InTurn
    <2>1. i \in 1 .. Len(s)  BY <1>1
    <2>2. CASE j \in 1 .. Len(s)  BY <1>1, <2>1, <2>2 DEF InTurn
    <2>3. CASE j = Len(s) + 1  BY <1>1, <1>4, <2>1, <2>3
    <2> QED  BY <1>2, <2>2, <2>3
  <1>6. UpTo(t, n + 1)  BY <1>1, <1>2, <1>4 DEF UpTo
  <1> QED  BY <1>1, <1>2, <1>5, <1>6

LEMMA TurnEnd ==
  ASSUME NEW s \in Seq(Line), NEW i \in DOMAIN s, s[i].says = "nothing",
         NEW says \in Says \ {"nothing"}, NEW time \in Nat, NEW t, t = Told(s, i, says, time)
  PROVE  /\ Len(t) = Len(s) /\ \A j \in 1 .. Len(s) : t[j].at = s[j].at /\ t[j].id = s[j].id
         /\ InTurn(s) => InTurn(t)
         /\ \A n : UpTo(s, n) => UpTo(t, n)
         /\ \A n : NoneAfter(s, n) => NoneAfter(t, n)
  <1>1. /\ Len(t) = Len(s) /\ DOMAIN s = 1 .. Len(s)
        /\ \A j \in DOMAIN s : t[j].at = s[j].at /\ t[j].id = s[j].id
    BY ResultsEnd
  <1> QED  BY <1>1 DEF InTurn, UpTo, NoneAfter

LEMMA OrderedInit == ASSUME Init PROVE Ordered
  BY DEF Init, Ordered, InTurn, Apart, UpTo, NoneAfter

LEMMA OrderedNext == ASSUME IInv, Ordered, [Next]_vars PROVE Ordered'
  <1>1. /\ parent \in Seq(Line) /\ child \in Seq(Line) /\ now \in Nat /\ touched \in 0 .. now
        /\ \A i \in 1 .. Len(parent) : parent[i].at \in 1 .. now
    BY LiveEstimateAssumption DEF IInv, Files, Script
  <1> DEFINE n == Len(parent) + Len(child)
  <1>2. /\ InTurn(parent) /\ InTurn(child) /\ Apart(parent, child)
        /\ UpTo(parent, n) /\ UpTo(child, n) /\ NoneAfter(child, touched)
        /\ n \in Nat /\ Len(parent) \in Nat /\ Len(child) \in Nat
    BY <1>1 DEF Ordered
  <1>3. \A s, m : s \in Seq(Line) /\ m \in Nat /\ UpTo(s, m) => UpTo(s, m + 1)
    <2> SUFFICES ASSUME NEW s \in Seq(Line), NEW m \in Nat, UpTo(s, m), NEW i \in 1 .. Len(s)
                 PROVE  s[i].id <= m + 1
      BY DEF UpTo
    <2>1. s[i] \in Line  OBVIOUS
    <2>2. s[i].id \in Nat  BY <2>1 DEF Line, Entry
    <2>3. s[i].id <= m  BY DEF UpTo
    <2> QED  BY <2>2, <2>3
  <1>4. \A i \in 1 .. Len(child) : child[i].at \in Nat
    <2>1. \A i \in 1 .. Len(child) : child[i] \in Line  BY <1>1
    <2> QED  BY <2>1 DEF Line, Entry
  <1>5. Grows => now' \in Nat /\ now <= now'  BY <1>1 DEF Grows
  <1>6. /\ \A j \in 1 .. Len(parent) : parent[j].id \in Nat /\ parent[j].id < n + 1
        /\ \A j \in 1 .. Len(child) : child[j].id \in Nat /\ child[j].id < n + 1
    <2>1. \A s : s \in Seq(Line) => \A j \in 1 .. Len(s) : s[j].id \in Nat
      <3> SUFFICES ASSUME NEW s \in Seq(Line), NEW j \in 1 .. Len(s) PROVE s[j].id \in Nat
        OBVIOUS
      <3>1. s[j] \in Line  OBVIOUS
      <3> QED  BY <3>1 DEF Line, Entry
    <2>2. /\ \A j \in 1 .. Len(parent) : parent[j].id <= n
          /\ \A j \in 1 .. Len(child) : child[j].id <= n
      BY <1>2 DEF UpTo
    <2>3. /\ \A j \in 1 .. Len(parent) : parent[j].id \in Nat
          /\ \A j \in 1 .. Len(child) : child[j].id \in Nat
      BY <1>1, <2>1
    <2>4. n \in Nat  BY <1>1
    <2> HIDE DEF n
    <2> QED  BY ONLY <2>2, <2>3, <2>4
  <1>7. CASE SessionWrites
    <2>1. PICK entry \in Menu \cup {Person} : parent' = Append(parent, Record(entry, now'))
      BY <1>7 DEF SessionWrites
    <2> DEFINE x == Record(entry, now')
    <2>2. /\ Len(parent) + Len(child) < MaxRecords /\ Grows /\ Files
          /\ child' = child /\ touched' = touched
      BY <1>7 DEF IInv, SessionWrites
    <2>3. now' \in 1 .. now'  BY <1>1, <2>2 DEF Grows
    <2>4. x \in Line /\ x.at = now'
      <3>1. entry \in Menu \cup ChildMenu \cup {Person}  OBVIOUS
      <3> QED  BY ONLY <1>5, <2>2, <2>3, <3>1, RecordTyped
    <2>5. x.id = n + 1  BY DEF Record
    <2> HIDE DEF x
    <2>6. NoneAfter(parent, x.at)  BY <1>1, <1>5, <2>2, <2>4 DEF NoneAfter
    <2>7. /\ InTurn(parent') /\ UpTo(parent', n + 1) /\ Len(parent') = Len(parent) + 1
          /\ \A i \in 1 .. Len(parent') :
               (i \in 1 .. Len(parent) /\ parent'[i] = parent[i]) \/ parent'[i] = x
      <3>1. parent' = Append(parent, x)  BY <2>1 DEF x
      <3> HIDE DEF n
      <3>4. /\ parent \in Seq(Line) /\ n \in Nat /\ x \in Line
            /\ InTurn(parent) /\ UpTo(parent, n) /\ NoneAfter(parent, x.at)
        BY ONLY <1>1, <1>2, <2>4, <2>6
      <3>5. InTurn(parent') /\ UpTo(parent', n + 1) /\ Len(parent') = Len(parent) + 1
        BY ONLY <2>5, <3>1, <3>4, TurnAppend
      <3>6. \A i \in 1 .. Len(parent') : (i \in 1 .. Len(parent) /\ parent'[i] = parent[i]) \/ parent'[i] = x
        BY ONLY <3>1, <3>4
      <3> QED  BY <3>5, <3>6
    <2>8. Len(parent') + Len(child') = n + 1  BY <1>2, <2>2, <2>7
    <2>9. UpTo(child', n + 1)  BY <1>1, <1>2, <1>3, <2>2
    <2>10. Apart(parent', child')
      <3> SUFFICES ASSUME NEW i \in 1 .. Len(parent'), NEW j \in 1 .. Len(child')
                   PROVE  parent'[i].id # child'[j].id
        BY DEF Apart
      <3>1. j \in 1 .. Len(child) /\ child'[j] = child[j]  BY <2>2
      <3>2. CASE i \in 1 .. Len(parent) /\ parent'[i] = parent[i]
        BY <1>2, <3>1, <3>2 DEF Apart
      <3>3. CASE parent'[i] = x
        <4>1. child[j].id \in Nat /\ child[j].id < n + 1  BY <1>6, <3>1
        <4> QED  BY ONLY <2>5, <3>1, <3>3, <4>1
      <3> QED  BY <2>7, <3>2, <3>3
    <2> QED  BY <1>2, <2>2, <2>7, <2>8, <2>9, <2>10 DEF Ordered
  <1>8. CASE SubagentWrites
    <2>1. PICK entry \in ChildMenu, at \in 1 .. now' :
            /\ child # <<>> => at >= Last(child).at
            /\ child' = Append(child, Record(entry, at))
      BY <1>8 DEF SubagentWrites
    <2> DEFINE x == Record(entry, at)
    <2>2. /\ Len(parent) + Len(child) < MaxRecords /\ Grows /\ Files
          /\ parent' = parent /\ touched' = now'
      BY <1>8 DEF IInv, SubagentWrites
    <2>3. now' \in Nat /\ now <= now' /\ at <= now' /\ at \in Nat  BY <1>5, <2>2
    <2>4. x \in Line /\ x.at = at
      <3>1. entry \in Menu \cup ChildMenu \cup {Person}  OBVIOUS
      <3> QED  BY ONLY <2>2, <2>3, <3>1, RecordTyped, at \in 1 .. now'
    <2>5. x.id = n + 1  BY DEF Record
    <2>6. NoneAfter(child, at)
      <3> SUFFICES ASSUME NEW i \in 1 .. Len(child) PROVE child[i].at <= at  BY DEF NoneAfter
      <3>1. child # <<>> /\ Last(child) = child[Len(child)]  BY <1>1 DEF Last
      <3>2. i = Len(child) \/ i < Len(child)  BY <1>2
      <3>3. Len(child) \in 1 .. Len(child)  BY <1>2
      <3>4. child[i].at <= child[Len(child)].at
        <4>1. child[i].at \in Nat  BY <1>4
        <4> QED  BY <1>2, <3>2, <3>3, <4>1 DEF InTurn
      <3> QED  BY <1>4, <2>1, <2>3, <3>1, <3>3, <3>4
    <2> HIDE DEF x
    <2>7. /\ InTurn(child') /\ UpTo(child', n + 1) /\ Len(child') = Len(child) + 1
          /\ \A i \in 1 .. Len(child') :
               (i \in 1 .. Len(child) /\ child'[i] = child[i]) \/ child'[i] = x
      <3>1. child' = Append(child, x)  BY <2>1 DEF x
      <3>2. NoneAfter(child, x.at)  BY <2>4, <2>6
      <3> HIDE DEF n
      <3>4. /\ child \in Seq(Line) /\ n \in Nat /\ x \in Line
            /\ InTurn(child) /\ UpTo(child, n) /\ NoneAfter(child, x.at)
        BY ONLY <1>1, <1>2, <2>4, <3>2
      <3>5. InTurn(child') /\ UpTo(child', n + 1) /\ Len(child') = Len(child) + 1
        BY ONLY <2>5, <3>1, <3>4, TurnAppend
      <3>6. \A i \in 1 .. Len(child') : (i \in 1 .. Len(child) /\ child'[i] = child[i]) \/ child'[i] = x
        BY ONLY <3>1, <3>4
      <3> QED  BY <3>5, <3>6
    <2>8. Len(parent') + Len(child') = n + 1  BY <1>2, <2>2, <2>7
    <2>9. UpTo(parent', n + 1)  BY <1>1, <1>2, <1>3, <2>2
    <2>10. Apart(parent', child')
      <3> SUFFICES ASSUME NEW i \in 1 .. Len(parent'), NEW j \in 1 .. Len(child')
                   PROVE  parent'[i].id # child'[j].id
        BY DEF Apart
      <3>1. i \in 1 .. Len(parent) /\ parent'[i] = parent[i]  BY <2>2
      <3>2. CASE j \in 1 .. Len(child) /\ child'[j] = child[j]
        BY <1>2, <3>1, <3>2 DEF Apart
      <3>3. CASE child'[j] = x
        <4>1. parent[i].id \in Nat /\ parent[i].id < n + 1  BY <1>6, <3>1
        <4> QED  BY ONLY <2>5, <3>1, <3>3, <4>1
      <3> QED  BY <2>7, <3>2, <3>3
    <2>11. NoneAfter(child', touched')
      <3>1. \A i \in 1 .. Len(child) : child[i].at <= now'
        BY <1>1, <1>2, <1>4, <2>3 DEF NoneAfter
      <3> QED  BY <2>2, <2>3, <2>4, <2>7, <3>1 DEF NoneAfter
    <2> QED  BY <1>2, <2>2, <2>7, <2>8, <2>9, <2>10, <2>11 DEF Ordered
  <1>9. CASE ResultInSession
    <2>1. PICK i \in DOMAIN parent, says \in Says \ {"nothing"} :
            /\ parent[i].says = "nothing" /\ parent' = Told(parent, i, says, now')
      BY <1>9 DEF Told, ResultInSession
    <2>2. Grows /\ child' = child /\ touched' = touched  BY <1>9 DEF ResultInSession
    <2>3. now' \in Nat  BY <1>5, <2>2
    <2>4. /\ Len(parent') = Len(parent)
          /\ \A j \in 1 .. Len(parent) : parent'[j].at = parent[j].at /\ parent'[j].id = parent[j].id
          /\ InTurn(parent) => InTurn(parent')
          /\ \A m : UpTo(parent, m) => UpTo(parent', m)
      BY ONLY <1>1, <2>1, <2>3, TurnEnd
    <2>5. Apart(parent', child')  BY <1>2, <2>2, <2>4 DEF Apart
    <2>6. Len(parent') + Len(child') = n  BY <2>2, <2>4
    <2> QED  BY <1>2, <2>2, <2>4, <2>5, <2>6 DEF Ordered
  <1>10. CASE ResultInSubagent
    <2>1. PICK i \in DOMAIN child, says \in Says \ {"nothing"} :
            /\ child[i].says = "nothing" /\ child' = Told(child, i, says, now')
      BY <1>10 DEF Told, ResultInSubagent
    <2>2. Grows /\ parent' = parent /\ touched' = now'  BY <1>10 DEF ResultInSubagent
    <2>3. now' \in Nat /\ now <= now'  BY <1>5, <2>2
    <2>4. /\ Len(child') = Len(child)
          /\ \A j \in 1 .. Len(child) : child'[j].at = child[j].at /\ child'[j].id = child[j].id
          /\ InTurn(child) => InTurn(child')
          /\ \A m : UpTo(child, m) => UpTo(child', m)
          /\ \A m : NoneAfter(child, m) => NoneAfter(child', m)
      BY ONLY <1>1, <2>1, <2>3, TurnEnd
    <2>5. Apart(parent', child')  BY <1>2, <2>2, <2>4 DEF Apart
    <2>6. Len(parent') + Len(child') = n  BY <2>2, <2>4
    <2>7. NoneAfter(child, touched')
      <3>1. \A j \in 1 .. Len(child) : child[j].at <= touched  BY <1>2 DEF NoneAfter
      <3> QED  BY <1>1, <1>4, <2>2, <2>3, <3>1 DEF NoneAfter
    <2> QED  BY <1>2, <2>2, <2>4, <2>5, <2>6, <2>7 DEF Ordered
  <1>11. CASE UNCHANGED <<parent, child, touched>>
    BY <1>11 DEF Ordered, InTurn, Apart, UpTo, NoneAfter
  <1>12. Completes => UNCHANGED <<parent, child, touched>>  BY DEF Completes
  <1>13. (\E r \in Readers : Ask(r) \/ Hit(r) \/ Lead(r) \/ ReadChild(r) \/ Finish(r))
           \/ Evict \/ FolderMoves => UNCHANGED <<parent, child, touched>>
    BY DEF Ask, Hit, Lead, ReadChild, Finish, Evict, FolderMoves, files, records
  <1>14. UNCHANGED vars => UNCHANGED <<parent, child, touched>>  BY DEF vars, files, records
  <1> QED  BY <1>7, <1>8, <1>9, <1>10, <1>11, <1>12, <1>13, <1>14 DEF Next

\* A step that answers a request keeps what was answered before, of the same files.
LEMMA AnswerKeeps ==
  ASSUME IInv, SafeIsEarned, UNCHANGED files, NEW r \in Readers, NEW f,
         flight' = [flight EXCEPT ![r] = f],
         f.at = "answered" /\ f.level = "none-or-low" =>
           f.signature # Moved /\ (f.signature = Signature => Earned(f.on))
  PROVE  SafeIsEarned'
  <1>1. Signature' = Signature /\ \A on : Earned(on)' <=> Earned(on)
    BY DEF files, records, Signature, Results, Earned, LatestOf, Stands, Covered, Seen, Later, Newer
  <1>2. DOMAIN flight = Readers  BY DEF IInv, Requests
  <1>3. flight'[r] = f /\ \A q \in Readers \ {r} : flight'[q] = flight[q]  BY <1>2
  <1> SUFFICES ASSUME NEW q \in Readers, flight'[q].at = "answered",
                      flight'[q].level = "none-or-low"
               PROVE  /\ flight'[q].signature # Moved
                      /\ flight'[q].signature = Signature' =>
                           \A on : on = flight'[q].on => Earned(on)'
    BY DEF SafeIsEarned, Moved, Earned
  <1>4. CASE q = r  BY <1>1, <1>3, <1>4
  <1>5. CASE q # r  BY <1>1, <1>3, <1>5 DEF SafeIsEarned
  <1> QED  BY <1>4, <1>5

LEMMA SizesNotMoved ==
  ASSUME NEW s \in Nat \X Nat PROVE s # Moved
  <1>1. <<>> \notin Nat \X Nat  OBVIOUS
  <1> QED  BY <1>1 DEF Moved

\* A replay of the files as they are says "none or low" only when it is earned.
LEMMA OfTheFilesEarned ==
  ASSUME IInv, Ordered, NEW e, Whole(e), OfTheFiles(e), e.level = "none-or-low"
  PROVE  Earned(e.steps[Len(e.marks)].on)
  <1>1. /\ e.marks = Calls(parent, child)
        /\ e.context = Context(parent, child, touched, done, FALSE)
    BY DEF OfTheFiles
  <1> DEFINE on == e.steps[Len(e.marks)].on
  <1>2. /\ on \in SUBSET DOMAIN Inside
        /\ e.level = LevelAt(Pure(e.marks, e.context)[Len(e.marks)], on)
    BY WholeLast
  <1>3. Files  BY DEF IInv
  <1> HIDE DEF on
  <1>4. Earned(on)  BY <1>1, <1>2, <1>3, LowEarned
  <1> QED  BY <1>4 DEF on

LEMMA SafeNext == ASSUME IInv, Ordered, SafeIsEarned, [Next]_vars PROVE SafeIsEarned'
  <1>1. CASE SessionWrites \/ SubagentWrites \/ ResultInSession \/ ResultInSubagent \/ Completes
              \/ FolderMoves
    <2>1. flight' = [r \in Readers |-> IF flight[r].at \in UnderWay THEN flight[r] ELSE Idle]
      BY <1>1 DEF SessionWrites, SubagentWrites, ResultInSession, ResultInSubagent, Completes,
                  FolderMoves, Grows
    <2>2. \A r \in Readers : flight'[r].at # "answered"  BY <2>1 DEF UnderWay, Idle
    <2> QED  BY <2>2 DEF SafeIsEarned
  <1>2. CASE \E r \in Readers : Ask(r)
    <2>1. PICK r \in Readers : Ask(r)  BY <1>2
    <2> DEFINE f == [at |-> "asked", signature |-> Signature]
    <2>2. flight' = [flight EXCEPT ![r] = f] /\ UNCHANGED files /\ f.at # "answered"
      BY <2>1 DEF Ask
    <2> HIDE DEF f
    <2> QED  BY <2>2, AnswerKeeps
  <1>3. CASE \E r \in Readers : Hit(r)
    <2>1. PICK r \in Readers : Hit(r)  BY <1>3
    <2> DEFINE f == Answered(cache)
    <2>2. /\ flight[r].at = "asked" /\ cache.signature = flight[r].signature
          /\ flight' = [flight EXCEPT ![r] = f] /\ UNCHANGED files
      BY <2>1 DEF Hit
    <2>3. flight[r].signature \in Nat \X Nat  BY <2>2 DEF IInv, Requests, Request, Past
    <2>4. f.signature = cache.signature /\ f.level = cache.level
          /\ f.on = cache.steps[Len(cache.marks)].on
      BY DEF Answered
    <2>5. cache # Nothing
      <3>1. Nothing.signature = Moved  BY DEF Nothing
      <3> QED  BY <2>2, <2>3, <3>1, SizesNotMoved
    <2>6. Whole(cache) /\ (cache.signature = Signature => OfTheFiles(cache))
      BY <2>5 DEF IInv, Stored
    <2> HIDE DEF f
    <2>7. f.signature # Moved  BY <2>2, <2>3, <2>4, SizesNotMoved
    <2>8. f.level = "none-or-low" /\ f.signature = Signature => Earned(f.on)
      BY <2>4, <2>6, OfTheFilesEarned
    <2> QED  BY <2>2, <2>7, <2>8, AnswerKeeps
  <1>4. CASE \E r \in Readers : Lead(r)
    <2>1. PICK r \in Readers : Lead(r)  BY <1>4
    <2>2. UNCHANGED files /\ \E f : flight' = [flight EXCEPT ![r] = f] /\ f.at # "answered"
      <3>1. CASE Reading
        <4>1. flight' = [flight EXCEPT ![r] = Idle] /\ UNCHANGED files  BY <2>1, <3>1 DEF Lead
        <4>2. Idle.at # "answered"  BY DEF Idle
        <4> QED  BY <4>1, <4>2
      <3>2. CASE ~Reading
        <4> DEFINE f == [at |-> "reading", signature |-> flight[r].signature,
                         parent |-> parent, done |-> done]
        <4>1. flight' = [flight EXCEPT ![r] = f] /\ UNCHANGED files
          BY <2>1, <3>2 DEF Lead, IInv, Requests
        <4>2. f.at # "answered"  OBVIOUS
        <4> HIDE DEF f
        <4> QED  BY <4>1, <4>2
      <3> QED  BY <3>1, <3>2
    <2> QED  BY <2>2, AnswerKeeps
  <1>5. CASE \E r \in Readers : ReadChild(r)
    <2>1. PICK r \in Readers : ReadChild(r)  BY <1>5
    <2>2. UNCHANGED files /\ \E f : flight' = [flight EXCEPT ![r] = f] /\ f.at # "answered"
      <3> DEFINE g == flight[r]
                 e == Replayed(cache, Calls(g.parent, child),
                               Context(g.parent, child, touched, g.done, FALSE), there)
                 f == [at |-> "replayed", signature |-> g.signature, entry |-> e]
      <3>1. flight' = [flight EXCEPT ![r] = f] /\ UNCHANGED files  BY <2>1 DEF ReadChild
      <3>2. f.at # "answered"  OBVIOUS
      <3> HIDE DEF f
      <3> QED  BY <3>1, <3>2
    <2> QED  BY <2>2, AnswerKeeps
  <1>6. CASE \E r \in Readers : Finish(r)
    <2>1. PICK r \in Readers : Finish(r)  BY <1>6
    <2>2. UNCHANGED files /\ flight[r].at = "replayed"  BY <2>1 DEF Finish
    <2>3. Read(flight[r])  BY <2>2 DEF IInv, Requests, Request
    <2>4. CASE Signature = flight[r].signature
      <3> DEFINE e == flight[r].entry
                 kept == [e EXCEPT !.signature = Signature]
                 f == Answered(kept)
      <3>1. flight' = [flight EXCEPT ![r] = f]  BY <2>1, <2>4 DEF Finish
      <3>2. Whole(e) /\ OfTheFiles(e)  BY <2>3, <2>4 DEF Read
      <3>3. /\ Whole(kept) /\ kept.signature = Signature
            /\ kept.marks = e.marks /\ kept.context = e.context
        BY <3>2, Resigned
      <3>4. f.level = kept.level /\ f.signature = kept.signature
            /\ f.on = kept.steps[Len(kept.marks)].on
        BY DEF Answered
      <3>5. Signature \in Nat \X Nat  BY SizesIs DEF IInv
      <3> HIDE DEF kept, f, e
      <3>6. OfTheFiles(kept)  BY <3>2, <3>3 DEF OfTheFiles
      <3>7. f.signature # Moved  BY <3>3, <3>4, <3>5, SizesNotMoved
      <3>8. f.level = "none-or-low" => Earned(f.on)  BY <3>3, <3>4, <3>6, OfTheFilesEarned
      <3> QED  BY <2>2, <3>1, <3>7, <3>8, AnswerKeeps
    <2>5. CASE Signature # flight[r].signature
      <3> DEFINE calls == Calls(parent, child)
                 ctx == Context(parent, child, touched, done, TRUE)
                 f == Answered(Uncertain)
      <3>1. flight' = [flight EXCEPT ![r] = f]  BY <2>1, <2>5 DEF Finish
      <3>2. calls \in Seq(Called) /\ ctx \in Contexts
        <4>1. Files /\ Script(parent, now) /\ done \subseteq 1 .. MaxRecords  BY DEF IInv, Files
        <4>2. TRUE \in BOOLEAN  OBVIOUS
        <4> QED  BY ONLY <4>1, <4>2, FileContext
      <3>3. InOrderOfTime(calls)
        <4>1. Files  BY DEF IInv
        <4> QED  BY <4>1, SeenIs
      <3>4. ctx.unread  BY DEF Context
      <3>5. /\ Uncertain = Replayed(Nothing, calls, ctx, there)
            /\ there \in SUBSET DOMAIN Inside
        BY DEF Uncertain, IInv, Folders
      <3> HIDE DEF calls, ctx
      <3>6. /\ Whole(Uncertain) /\ Uncertain.marks = calls /\ Uncertain.context = ctx
        BY <3>2, <3>5, ReplayedWhole
      <3>7. PICK on \in SUBSET DOMAIN Inside :
              Uncertain.level = LevelAt(Pure(calls, ctx)[Len(calls)], on)
        BY <3>6, WholeLast
      <3>8. f.level # "none-or-low"
        <4>1. f.level = Uncertain.level  BY DEF Answered
        <4> HIDE DEF f
        <4> QED  BY <3>2, <3>3, <3>4, <3>7, <4>1, UnreadNotLow
      <3> HIDE DEF f
      <3> QED  BY <2>2, <3>1, <3>8, AnswerKeeps
    <2> QED  BY <2>4, <2>5
  <1>7. CASE Evict \/ UNCHANGED vars
    <2>1. UNCHANGED files /\ flight' = flight  BY <1>7 DEF Evict, vars, files, records
    <2>2. Signature' = Signature /\ \A on : Earned(on)' <=> Earned(on)
      BY <2>1 DEF files, records, Signature, Results, Earned, LatestOf, Stands, Covered, Seen, Later, Newer
    <2> QED  BY <2>1, <2>2 DEF SafeIsEarned, Moved
  <1> QED  BY <1>1, <1>2, <1>3, <1>4, <1>5, <1>6, <1>7 DEF Next

\* "None or low" is said when it is earned, of files that did not move under the read:
\* the latest run of every check passed, and nothing was written and no command that
\* may change files ran after it, read or not (live_estimate.py, levels.py;
\* docs/design-reading-a-session.md, DEC-26, item 1). When a folder the intent names was
\* on the disk as the level was asked, every write read is in one.
THEOREM LiveEstimateEarned == Spec => []SafeIsEarned
  <1>1. Init => IInv /\ Ordered /\ SafeIsEarned
    <2>1. Init => SafeIsEarned  BY DEF Init, SafeIsEarned, Idle
    <2> QED  BY <2>1, InitIInv, OrderedInit
  <1>2. IInv /\ Ordered /\ SafeIsEarned /\ [Next]_vars => (IInv /\ Ordered /\ SafeIsEarned)'
    BY NextIInv, OrderedNext, SafeNext
  <1> QED  BY <1>1, <1>2, PTL DEF Spec
=============================================================================
