------------------------- MODULE WrapPythonProofs --------------------------
(***************************************************************************)
(* Theorems about wrappython.h, for any build and wherever in a unit it is *)
(* included.                                                               *)
(***************************************************************************)
EXTENDS WrapPython, TLAPS, WellFoundedInduction

(* Reading a header changes nothing but what has been read.                *)
LEMMA Reading ==
    ASSUME NEW u, IsUnit(u), NEW h
    PROVE  /\ IsUnit(Read(u, h))
           /\ Read(u, h).macros = u.macros /\ Read(u, h).newStl = u.newStl
           /\ DOMAIN Read(u, h).seen = DOMAIN u.seen \union {h}
           /\ \A g \in DOMAIN u.seen : Read(u, h).seen[g] = u.seen[g]
           /\ h \notin DOMAIN u.seen => Read(u, h).seen[h] = ("_DEBUG" \in u.macros)
<1>1. CASE h \in DOMAIN u.seen
  BY <1>1 DEF Read
<1>2. CASE h \notin DOMAIN u.seen
  <2> DEFINE f == [g \in DOMAIN u.seen \union {h} |->
                      IF g = h THEN "_DEBUG" \in u.macros ELSE u.seen[g]]
  <2>1. Read(u, h) = [u EXCEPT !.seen = f]
    BY <1>2 DEF Read
  <2>2. DOMAIN f = DOMAIN u.seen \union {h}
    OBVIOUS
  <2>3. f[h] = ("_DEBUG" \in u.macros)
    BY Zenon
  <2>4. \A g \in DOMAIN u.seen : f[g] = u.seen[g]
    BY <1>2
  <2> HIDE DEF f
  <2>5. u = [macros |-> u.macros, seen |-> u.seen, newStl |-> u.newStl]
    BY DEF IsUnit
  <2>6. Read(u, h) = [macros |-> u.macros, seen |-> f, newStl |-> u.newStl]
    BY <2>1, <2>5
  <2>7. /\ Read(u, h).macros = u.macros /\ Read(u, h).newStl = u.newStl
        /\ Read(u, h).seen = f
    BY <2>6
  <2>8. IsUnit(Read(u, h))
    BY <2>6, <2>7 DEF IsUnit
  <2> QED
    BY <1>2, <2>2, <2>3, <2>4, <2>7, <2>8
<1> QED
  BY <1>1, <1>2

(* Before _DEBUG is undefined, the standard library has been read.         *)
LEMMA Hiding ==
    ASSUME NEW u, IsUnit(u)
    PROVE  /\ IsUnit(Hide(u)) /\ Hide(u).newStl = u.newStl
           /\ Hide(u).macros = (u.macros \ {"_DEBUG"})
                                 \union {"DEBUG_UNDEFINED_FROM_WRAP_PYTHON_H"}
           /\ DOMAIN Hide(u).seen = DOMAIN u.seen \union Stl(u)
           /\ \A g \in DOMAIN u.seen : Hide(u).seen[g] = u.seen[g]
           /\ \A g \in Stl(u) \ DOMAIN u.seen : Hide(u).seen[g] = ("_DEBUG" \in u.macros)
<1> DEFINE y == Read(u, "yvals.h")
           s == IF y.newStl THEN Read(y, "crtdefs.h") ELSE y
           m == (u.macros \ {"_DEBUG"}) \union {"DEBUG_UNDEFINED_FROM_WRAP_PYTHON_H"}
<1>1. /\ IsUnit(y) /\ y.macros = u.macros /\ y.newStl = u.newStl
      /\ DOMAIN y.seen = DOMAIN u.seen \union {"yvals.h"}
      /\ \A g \in DOMAIN u.seen : y.seen[g] = u.seen[g]
      /\ "yvals.h" \notin DOMAIN u.seen => y.seen["yvals.h"] = ("_DEBUG" \in u.macros)
  BY Reading
<1>2. Hide(u) = [s EXCEPT !.macros = m]
  <2>1. Hide(u) = [s EXCEPT !.macros = (s.macros \ {"_DEBUG"})
                                 \union {"DEBUG_UNDEFINED_FROM_WRAP_PYTHON_H"}]
    BY <1>1 DEF Hide
  <2>2. s.macros = u.macros
    BY <1>1, Reading
  <2> QED
    BY <2>1, <2>2
<1> HIDE DEF m
<1>3. /\ IsUnit(s) /\ s.newStl = u.newStl
      /\ DOMAIN s.seen = DOMAIN u.seen \union Stl(u)
      /\ \A g \in DOMAIN u.seen : s.seen[g] = u.seen[g]
      /\ \A g \in Stl(u) \ DOMAIN u.seen : s.seen[g] = ("_DEBUG" \in u.macros)
  <2> HIDE DEF y
  <2>1. CASE y.newStl
    <3> DEFINE z == Read(y, "crtdefs.h")
    <3>1. /\ IsUnit(z) /\ z.macros = y.macros /\ z.newStl = y.newStl
          /\ DOMAIN z.seen = DOMAIN y.seen \union {"crtdefs.h"}
          /\ \A g \in DOMAIN y.seen : z.seen[g] = y.seen[g]
          /\ "crtdefs.h" \notin DOMAIN y.seen => z.seen["crtdefs.h"] = ("_DEBUG" \in y.macros)
      BY <1>1, Reading
    <3>2. s = z /\ Stl(u) = {"yvals.h", "crtdefs.h"}
      BY <1>1, <2>1 DEF Stl
    <3> HIDE DEF z, s
    <3>3. ASSUME NEW g \in Stl(u) \ DOMAIN u.seen
          PROVE  z.seen[g] = ("_DEBUG" \in u.macros)
      <4>1. CASE g = "yvals.h"
        <5>1. z.seen[g] = y.seen[g] /\ y.seen[g] = ("_DEBUG" \in u.macros)
          BY <1>1, <3>1, <3>3, <4>1, Zenon
        <5> QED
          BY <5>1
      <4>2. CASE g = "crtdefs.h"
        <5>1. g \notin DOMAIN y.seen
          BY <1>1, <3>3, <4>2
        <5> QED
          BY <1>1, <3>1, <4>2, <5>1, Zenon
      <4> QED
        BY <3>2, <4>1, <4>2
    <3> QED
      BY <1>1, <3>1, <3>2, <3>3
  <2>2. CASE ~y.newStl
    <3>1. s = y /\ Stl(u) = {"yvals.h"}
      BY <1>1, <2>2 DEF Stl
    <3> HIDE DEF s
    <3>2. \A g \in Stl(u) \ DOMAIN u.seen : s.seen[g] = ("_DEBUG" \in u.macros)
      BY <1>1, <3>1, Zenon
    <3> QED
      BY <1>1, <3>1, <3>2
  <2> QED
    BY <2>1, <2>2
<1> HIDE DEF s
<1>4. Hide(u) = [macros |-> m, seen |-> s.seen, newStl |-> s.newStl]
  BY <1>2, <1>3 DEF IsUnit
<1>5. Hide(u).macros = m /\ Hide(u).seen = s.seen /\ Hide(u).newStl = s.newStl
  BY <1>4
<1>6. IsUnit(Hide(u))
  BY <1>4, <1>5 DEF IsUnit
<1> QED
  BY <1>3, <1>5, <1>6 DEF m

(* What Python's headers find, they find of the macros as they are.        *)
LEMMA ReadingPython ==
    ASSUME NEW u, IsUnit(u)
    PROVE  /\ IsUnit(ReadPython(u))
           /\ ReadPython(u).macros = u.macros /\ ReadPython(u).newStl = u.newStl
           /\ DOMAIN ReadPython(u).seen
                  = DOMAIN u.seen \union {"crtdefs.h", "yvals.h", "Python.h"}
           /\ \A g \in DOMAIN u.seen : ReadPython(u).seen[g] = u.seen[g]
           /\ \A g \in {"crtdefs.h", "yvals.h", "Python.h"} \ DOMAIN u.seen :
                  ReadPython(u).seen[g] = ("_DEBUG" \in u.macros)
<1> DEFINE c == Read(u, "crtdefs.h")
           y == Read(c, "yvals.h")
           p == Read(y, "Python.h")
<1>1. /\ IsUnit(c) /\ c.macros = u.macros /\ c.newStl = u.newStl
      /\ DOMAIN c.seen = DOMAIN u.seen \union {"crtdefs.h"}
      /\ \A g \in DOMAIN u.seen : c.seen[g] = u.seen[g]
      /\ "crtdefs.h" \notin DOMAIN u.seen => c.seen["crtdefs.h"] = ("_DEBUG" \in u.macros)
  BY Reading
<1> HIDE DEF c
<1>2. /\ IsUnit(y) /\ y.macros = c.macros /\ y.newStl = c.newStl
      /\ DOMAIN y.seen = DOMAIN c.seen \union {"yvals.h"}
      /\ \A g \in DOMAIN c.seen : y.seen[g] = c.seen[g]
      /\ "yvals.h" \notin DOMAIN c.seen => y.seen["yvals.h"] = ("_DEBUG" \in c.macros)
  BY <1>1, Reading
<1> HIDE DEF y
<1>3. /\ IsUnit(p) /\ p.macros = y.macros /\ p.newStl = y.newStl
      /\ DOMAIN p.seen = DOMAIN y.seen \union {"Python.h"}
      /\ \A g \in DOMAIN y.seen : p.seen[g] = y.seen[g]
      /\ "Python.h" \notin DOMAIN y.seen => p.seen["Python.h"] = ("_DEBUG" \in y.macros)
  BY <1>2, Reading
<1>4. ReadPython(u) = p
  BY DEF ReadPython, p, y, c
<1> HIDE DEF p
<1>5. "crtdefs.h" \notin DOMAIN u.seen => p.seen["crtdefs.h"] = ("_DEBUG" \in u.macros)
  <2>1. p.seen["crtdefs.h"] = y.seen["crtdefs.h"] /\ y.seen["crtdefs.h"] = c.seen["crtdefs.h"]
    BY <1>1, <1>2, <1>3
  <2> QED
    BY <1>1, <2>1, Zenon
<1>6. "yvals.h" \notin DOMAIN u.seen => p.seen["yvals.h"] = ("_DEBUG" \in u.macros)
  <2>1. p.seen["yvals.h"] = y.seen["yvals.h"]
    BY <1>2, <1>3
  <2>2. "yvals.h" \notin DOMAIN u.seen => "yvals.h" \notin DOMAIN c.seen
    BY <1>1
  <2> QED
    BY <1>1, <1>2, <2>1, <2>2, Zenon
<1>7. "Python.h" \notin DOMAIN u.seen => p.seen["Python.h"] = ("_DEBUG" \in u.macros)
  <2>1. "Python.h" \notin DOMAIN u.seen => "Python.h" \notin DOMAIN y.seen
    BY <1>1, <1>2
  <2> QED
    BY <1>1, <1>2, <1>3, <2>1, Zenon
<1>8. \A g \in {"crtdefs.h", "yvals.h", "Python.h"} \ DOMAIN u.seen :
          p.seen[g] = ("_DEBUG" \in u.macros)
  BY <1>5, <1>6, <1>7, Zenon
<1> QED
  BY <1>1, <1>2, <1>3, <1>4, <1>8

(* Restore undoes what Hide has done to the macros.                        *)
LEMMA Restoring ==
    ASSUME NEW u, IsUnit(u)
    PROVE  /\ IsUnit(Restore(u)) /\ Restore(u).seen = u.seen /\ Restore(u).newStl = u.newStl
           /\ Restore(u).macros =
                  IF "DEBUG_UNDEFINED_FROM_WRAP_PYTHON_H" \in u.macros
                  THEN (u.macros \ {"DEBUG_UNDEFINED_FROM_WRAP_PYTHON_H"}) \union {"_DEBUG"}
                  ELSE u.macros
<1> DEFINE m == (u.macros \ {"DEBUG_UNDEFINED_FROM_WRAP_PYTHON_H"}) \union {"_DEBUG"}
<1>1. CASE "DEBUG_UNDEFINED_FROM_WRAP_PYTHON_H" \in u.macros
  <2>1. Restore(u) = [u EXCEPT !.macros = m]
    BY <1>1 DEF Restore
  <2> HIDE DEF m
  <2>2. Restore(u) = [macros |-> m, seen |-> u.seen, newStl |-> u.newStl]
    BY <2>1 DEF IsUnit
  <2>3. Restore(u).macros = m /\ Restore(u).seen = u.seen /\ Restore(u).newStl = u.newStl
    BY <2>2
  <2>4. IsUnit(Restore(u))
    BY <2>2, <2>3 DEF IsUnit
  <2> QED
    BY <1>1, <2>3, <2>4 DEF m
<1>2. CASE "DEBUG_UNDEFINED_FROM_WRAP_PYTHON_H" \notin u.macros
  BY <1>2 DEF Restore
<1> QED
  BY <1>1, <1>2

LEMMA Wrapping ==
    ASSUME NEW u, IsUnit(u), "DEBUG_UNDEFINED_FROM_WRAP_PYTHON_H" \notin u.macros
    PROVE  /\ IsUnit(WrapPython(u))
           /\ WrapPython(u).macros = u.macros /\ WrapPython(u).newStl = u.newStl
           /\ DOMAIN WrapPython(u).seen
                  = DOMAIN u.seen \union {"crtdefs.h", "yvals.h", "Python.h"}
           /\ \A g \in DOMAIN u.seen : WrapPython(u).seen[g] = u.seen[g]
           /\ \A g \in Stl(u) \ DOMAIN u.seen :
                  WrapPython(u).seen[g] = ("_DEBUG" \in u.macros)
           /\ "Python.h" \notin DOMAIN u.seen =>
                  WrapPython(u).seen["Python.h"] = AsksForDebug(u)
<1> DEFINE d == IF Hides(u) THEN Hide(u) ELSE u
           r == ReadPython(d)
           w == Restore(r)
<1>1. WrapPython(u) = w
  BY DEF WrapPython
<1>2. /\ IsUnit(d) /\ d.newStl = u.newStl
      /\ d.macros = IF Hides(u) THEN (u.macros \ {"_DEBUG"})
                                         \union {"DEBUG_UNDEFINED_FROM_WRAP_PYTHON_H"}
                    ELSE u.macros
      /\ DOMAIN d.seen = DOMAIN u.seen \union (IF Hides(u) THEN Stl(u) ELSE {})
      /\ \A g \in DOMAIN u.seen : d.seen[g] = u.seen[g]
      /\ Hides(u) => \A g \in Stl(u) \ DOMAIN u.seen : d.seen[g] = ("_DEBUG" \in u.macros)
  <2>1. CASE Hides(u)
    <3>1. d = Hide(u)
      BY <2>1
    <3> HIDE DEF d
    <3> QED
      BY <2>1, <3>1, Hiding
  <2>2. CASE ~Hides(u)
    <3>1. d = u
      BY <2>2
    <3> HIDE DEF d
    <3> QED
      BY <2>2, <3>1
  <2> QED
    BY <2>1, <2>2
<1> HIDE DEF d
<1>3. /\ IsUnit(r) /\ r.macros = d.macros /\ r.newStl = d.newStl
      /\ DOMAIN r.seen = DOMAIN d.seen \union {"crtdefs.h", "yvals.h", "Python.h"}
      /\ \A g \in DOMAIN d.seen : r.seen[g] = d.seen[g]
      /\ \A g \in {"crtdefs.h", "yvals.h", "Python.h"} \ DOMAIN d.seen :
             r.seen[g] = ("_DEBUG" \in d.macros)
  BY <1>2, ReadingPython
<1> HIDE DEF r
<1>4. /\ IsUnit(w) /\ w.seen = r.seen /\ w.newStl = r.newStl
      /\ w.macros = IF "DEBUG_UNDEFINED_FROM_WRAP_PYTHON_H" \in r.macros
                    THEN (r.macros \ {"DEBUG_UNDEFINED_FROM_WRAP_PYTHON_H"}) \union {"_DEBUG"}
                    ELSE r.macros
  BY <1>3, Restoring
<1> HIDE DEF w
<1>5. w.macros = u.macros
  BY <1>2, <1>3, <1>4 DEF Hides
<1>6. "Python.h" \notin Stl(u) /\ Stl(u) \subseteq {"crtdefs.h", "yvals.h"}
  BY DEF Stl
<1>7. DOMAIN w.seen = DOMAIN u.seen \union {"crtdefs.h", "yvals.h", "Python.h"}
  BY <1>2, <1>3, <1>4, <1>6
<1>8. \A g \in DOMAIN u.seen : w.seen[g] = u.seen[g]
  BY <1>2, <1>3, <1>4
<1>9. ASSUME NEW g \in Stl(u) \ DOMAIN u.seen PROVE w.seen[g] = ("_DEBUG" \in u.macros)
  <2>1. CASE Hides(u)
    <3>1. w.seen[g] = d.seen[g]
      BY <1>2, <1>3, <1>4, <2>1
    <3>2. d.seen[g] = ("_DEBUG" \in u.macros)
      BY <1>2, <2>1, Zenon
    <3> QED
      BY <3>1, <3>2
  <2>2. CASE ~Hides(u)
    <3>1. g \in {"crtdefs.h", "yvals.h", "Python.h"} \ DOMAIN d.seen /\ d.macros = u.macros
      BY <1>2, <1>6, <2>2
    <3>2. r.seen[g] = ("_DEBUG" \in d.macros)
      BY <1>3, <3>1, Zenon
    <3> QED
      BY <1>4, <3>1, <3>2
  <2> QED
    BY <2>1, <2>2
<1>10. ASSUME "Python.h" \notin DOMAIN u.seen PROVE w.seen["Python.h"] = AsksForDebug(u)
  <2>1. "Python.h" \in {"crtdefs.h", "yvals.h", "Python.h"} \ DOMAIN d.seen
    BY <1>2, <1>6, <1>10
  <2>2. r.seen["Python.h"] = ("_DEBUG" \in d.macros)
    BY <1>3, <2>1, Zenon
  <2>3. ("_DEBUG" \in d.macros) <=> AsksForDebug(u)
    BY <1>2 DEF Hides, AsksForDebug
  <2>4. ("_DEBUG" \in d.macros) = AsksForDebug(u)
    BY <2>3 DEF AsksForDebug
  <2> QED
    BY <1>4, <2>2, <2>4
<1> QED
  BY <1>1, <1>2, <1>3, <1>4, <1>5, <1>7, <1>8, <1>9, <1>10

-----------------------------------------------------------------------------
(* Wherever wrappython.h is included, and whatever has been read before:   *)
(* the code that follows sees the macros of the build, and the headers of  *)
(* the standard library have, in the order that yvals.h needs them.        *)
THEOREM EveryHeaderLeavesTheBuild ==
    ASSUME NEW build, "DEBUG_UNDEFINED_FROM_WRAP_PYTHON_H" \notin build.macros,
           NEW unit, IsUnit(unit), Undisturbed(build, unit), NEW header
    PROVE  /\ IsUnit(Include(unit, header))
           /\ Undisturbed(build, Include(unit, header))
           /\ \A h \in DOMAIN unit.seen :
                  /\ h \in DOMAIN Include(unit, header).seen
                  /\ Include(unit, header).seen[h] = unit.seen[h]
<1> DEFINE v == Include(unit, header)
<1>1. /\ unit.macros = build.macros /\ unit.newStl = build.newStl
      /\ \A h \in Stl(build) \intersect DOMAIN unit.seen :
             unit.seen[h] = ("_DEBUG" \in build.macros)
  BY Zenon DEF Undisturbed
<1>2. Stl(unit) = Stl(build)
  BY <1>1 DEF Stl
<1>3. /\ IsUnit(v) /\ v.macros = unit.macros /\ v.newStl = unit.newStl
      /\ DOMAIN unit.seen \subseteq DOMAIN v.seen
      /\ \A g \in DOMAIN unit.seen : v.seen[g] = unit.seen[g]
      /\ \A g \in Stl(unit) \ DOMAIN unit.seen :
             g \in DOMAIN v.seen => v.seen[g] = ("_DEBUG" \in unit.macros)
  <2>1. CASE header = "wrappython.h"
    <3>1. v = WrapPython(unit)
      BY <2>1 DEF Include
    <3> HIDE DEF v
    <3>2. \A g \in Stl(unit) \ DOMAIN unit.seen : v.seen[g] = ("_DEBUG" \in unit.macros)
      BY <1>1, <3>1, Wrapping, Zenon
    <3> QED
      BY <1>1, <3>1, <3>2, Wrapping
  <2>2. CASE header # "wrappython.h"
    <3>1. v = Read(unit, header)
      BY <2>2 DEF Include
    <3> HIDE DEF v
    <3>2. /\ IsUnit(v) /\ v.macros = unit.macros /\ v.newStl = unit.newStl
          /\ DOMAIN v.seen = DOMAIN unit.seen \union {header}
          /\ \A g \in DOMAIN unit.seen : v.seen[g] = unit.seen[g]
          /\ header \notin DOMAIN unit.seen => v.seen[header] = ("_DEBUG" \in unit.macros)
      BY <3>1, Reading
    <3>3. ASSUME NEW g \in Stl(unit) \ DOMAIN unit.seen, g \in DOMAIN v.seen
          PROVE  v.seen[g] = ("_DEBUG" \in unit.macros)
      <4>1. g = header
        BY <3>2, <3>3
      <4> QED
        BY <3>2, <3>3, <4>1, Zenon
    <3> QED
      BY <3>2, <3>3
  <2> QED
    BY <2>1, <2>2
<1> HIDE DEF v
<1>4. ASSUME NEW h \in Stl(build) \intersect DOMAIN v.seen
      PROVE  v.seen[h] = ("_DEBUG" \in build.macros)
  <2>1. CASE h \in DOMAIN unit.seen
    <3>1. v.seen[h] = unit.seen[h]
      BY <1>3, <2>1
    <3>2. unit.seen[h] = ("_DEBUG" \in build.macros)
      BY <1>1, <2>1, Zenon
    <3> QED
      BY <3>1, <3>2
  <2>2. CASE h \notin DOMAIN unit.seen
    <3>1. h \in Stl(unit) \ DOMAIN unit.seen
      BY <1>2, <2>2
    <3>2. v.seen[h] = ("_DEBUG" \in unit.macros)
      BY <1>3, <1>4, <3>1, Zenon
    <3> QED
      BY <1>1, <3>2
  <2> QED
    BY <2>1, <2>2
<1>5. Undisturbed(build, v)
  BY <1>1, <1>3, <1>4 DEF Undisturbed
<1> QED
  BY <1>3, <1>5 DEF v

(* Included before Python.h has been read, wrappython.h has it ask for a   *)
(* debug Python only where the build does, with MANTID_DEBUG_PYTHON.       *)
THEOREM FirstWrapperHidesDebug ==
    ASSUME NEW build, "DEBUG_UNDEFINED_FROM_WRAP_PYTHON_H" \notin build.macros,
           NEW unit, IsUnit(unit), Undisturbed(build, unit),
           "Python.h" \notin DOMAIN unit.seen
    PROVE  /\ "Python.h" \in DOMAIN Include(unit, "wrappython.h").seen
           /\ Include(unit, "wrappython.h").seen["Python.h"] = AsksForDebug(build)
<1> DEFINE v == WrapPython(unit)
<1>1. Include(unit, "wrappython.h") = v
  BY DEF Include
<1>2. unit.macros = build.macros
  BY DEF Undisturbed
<1>3. "Python.h" \in DOMAIN v.seen /\ v.seen["Python.h"] = AsksForDebug(unit)
  BY <1>2, Wrapping
<1>4. AsksForDebug(unit) = AsksForDebug(build)
  BY <1>2 DEF AsksForDebug
<1> HIDE DEF v
<1> QED
  BY <1>1, <1>3, <1>4

-----------------------------------------------------------------------------
(* Induction, for a set: what holds after no header and after each next    *)
(* one holds after all of them.                                            *)
LEMMA SetInduction ==
    ASSUME NEW S \in SUBSET Nat, 0 \in S, \A n \in S : n + 1 \in S
    PROVE  S = Nat
<1> DEFINE Less == OpToRel(<, Nat)
           T == Nat \ S
<1>1. ASSUME NEW x \in Nat, NEW y \in Nat, y < x PROVE <<y, x>> \in Less
  BY <1>1 DEF OpToRel
<1>2. IsWellFoundedOn(Less, Nat)
  BY NatLessThanWellFounded, Zenon
<1> HIDE DEF Less
<1> SUFFICES ASSUME T # {} PROVE FALSE
  OBVIOUS
<1>3. PICK x \in T : \A y \in T : ~ (<<y, x>> \in Less)
  <2>1. T \subseteq Nat
    OBVIOUS
  <2> HIDE DEF T
  <2> QED
    BY <1>2, <2>1, WFMin
<1>4. x \in Nat /\ x # 0
  BY <1>3
<1>5. x - 1 \in Nat /\ x - 1 < x /\ (x - 1) + 1 = x
  BY <1>4
<1>6. x - 1 \in S
  BY <1>1, <1>3, <1>4, <1>5
<1> QED
  BY <1>3, <1>5, <1>6

(* What a unit knows after each of its headers.                            *)
Stepwise(build, unit, n, f) ==
    /\ f = [i \in 0..n |-> f[i]]
    /\ f[0] = build
    /\ \A i \in 1..n : f[i] = Include(f[i - 1], unit[i])

LEMMA StepsOfEveryLength ==
    ASSUME NEW build, NEW unit, NEW n \in Nat
    PROVE  \E f : Stepwise(build, unit, n, f)
<1> DEFINE S == {m \in Nat : \E f : Stepwise(build, unit, m, f)}
<1>1. 0 \in S
  <2> DEFINE g == [i \in 0..0 |-> build]
  <2>1. g = [i \in 0..0 |-> g[i]] /\ g[0] = build /\ 1..0 = {}
    OBVIOUS
  <2> HIDE DEF g
  <2>2. Stepwise(build, unit, 0, g)
    BY <2>1 DEF Stepwise
  <2> QED
    BY <2>2
<1>2. ASSUME NEW m \in S PROVE m + 1 \in S
  <2>1. PICK f : Stepwise(build, unit, m, f)
    BY <1>2
  <2> DEFINE k == m + 1
             g == [i \in 0..k |-> IF i = k THEN Include(f[m], unit[k]) ELSE f[i]]
  <2>2. m \in Nat /\ k \in Nat /\ k - 1 = m /\ k # 0 /\ 0 \in 0..k /\ k \in 0..k
        /\ m \in 0..k /\ m # k
        /\ (\A i \in 1..k : i # k => i \in 1..m /\ i \in 0..k /\ i - 1 \in 0..k /\ i - 1 # k)
    BY <1>2
  <2> HIDE DEF k
  <2>3. /\ g = [i \in 0..k |-> g[i]]
        /\ g[k] = Include(f[m], unit[k])
        /\ \A i \in 0..k : i # k => g[i] = f[i]
    BY <2>2
  <2> HIDE DEF g
  <2>4. g[0] = build
    BY <2>1, <2>2, <2>3 DEF Stepwise
  <2>5. ASSUME NEW i \in 1..k PROVE g[i] = Include(g[i - 1], unit[i])
    <3>1. CASE i = k
      BY <2>2, <2>3, <3>1
    <3>2. CASE i # k
      <4>1. g[i] = f[i] /\ g[i - 1] = f[i - 1] /\ i \in 1..m
        BY <2>2, <2>3, <3>2
      <4> QED
        BY <2>1, <4>1 DEF Stepwise
    <3> QED
      BY <3>1, <3>2
  <2>6. Stepwise(build, unit, k, g)
    BY <2>3, <2>4, <2>5 DEF Stepwise
  <2> QED
    BY <2>2, <2>6 DEF k
<1>3. S \in SUBSET Nat
  OBVIOUS
<1> HIDE DEF S
<1>4. n \in S
  BY <1>1, <1>2, <1>3, SetInduction
<1> QED
  BY <1>4 DEF S

LEMMA CompiledStepwise ==
    ASSUME NEW build, NEW unit \in Seq(Header)
    PROVE  \E f : /\ Stepwise(build, unit, Len(unit), f)
                  /\ Compiled(build, unit) = f[Len(unit)]
<1> DEFINE n == Len(unit)
           After[i \in 0..n] == IF i = 0 THEN build ELSE Include(After[i - 1], unit[i])
<1>1. n \in Nat
  OBVIOUS
<1>2. PICK f : Stepwise(build, unit, n, f)
  BY <1>1, StepsOfEveryLength
<1>3. f = [i \in 0..n |-> IF i = 0 THEN build ELSE Include(f[i - 1], unit[i])]
  <2>1. \A i \in 0..n : f[i] = IF i = 0 THEN build ELSE Include(f[i - 1], unit[i])
    BY <1>1, <1>2 DEF Stepwise
  <2>2. f = [i \in 0..n |-> f[i]]
    BY <1>2 DEF Stepwise
  <2> QED
    BY <2>1, <2>2
<1>4. After = [i \in 0..n |-> IF i = 0 THEN build ELSE Include(After[i - 1], unit[i])]
  BY <1>3, Zenon
<1>5. Compiled(build, unit) = After[n]
  BY DEF Compiled
<1> HIDE DEF After
<1>6. Stepwise(build, unit, n, After)
  BY <1>1, <1>4 DEF Stepwise
<1> QED
  BY <1>5, <1>6

(* What holds of a unit after its first i headers.                         *)
AfterHeaders(build, unit, i, u) ==
    /\ IsUnit(u) /\ Undisturbed(build, u)
    /\ "Python.h" \in DOMAIN u.seen <=> \E j \in BringsPython(unit) : j <= i
    /\ FirstIsWrapped(unit) /\ "Python.h" \in DOMAIN u.seen =>
           u.seen["Python.h"] = AsksForDebug(build)

LEMMA NextHeader ==
    ASSUME NEW build, "DEBUG_UNDEFINED_FROM_WRAP_PYTHON_H" \notin build.macros,
           NEW unit \in Seq(Header), NEW k \in 1..Len(unit), NEW u,
           AfterHeaders(build, unit, k - 1, u)
    PROVE  AfterHeaders(build, unit, k, Include(u, unit[k]))
<1> DEFINE v == Include(u, unit[k])
           B == BringsPython(unit)
           p == "Python.h"
<1>1. /\ IsUnit(u) /\ Undisturbed(build, u)
      /\ p \in DOMAIN u.seen <=> \E j \in B : j <= k - 1
  BY DEF AfterHeaders
<1>2. FirstIsWrapped(unit) /\ p \in DOMAIN u.seen => u.seen[p] = AsksForDebug(build)
  BY Zenon DEF AfterHeaders
<1>3. /\ IsUnit(v) /\ Undisturbed(build, v)
      /\ \A h \in DOMAIN u.seen : h \in DOMAIN v.seen /\ v.seen[h] = u.seen[h]
  BY <1>1, EveryHeaderLeavesTheBuild
<1>4. p \in DOMAIN v.seen <=> p \in DOMAIN u.seen \/ unit[k] \in {"wrappython.h", p}
  <2>1. CASE unit[k] = "wrappython.h"
    <3>1. v = WrapPython(u)
      BY <2>1 DEF Include
    <3>2. u.macros = build.macros
      BY <1>1 DEF Undisturbed
    <3> HIDE DEF v
    <3>3. p \in DOMAIN WrapPython(u).seen
      BY <1>1, <3>2, Wrapping
    <3> QED
      BY <2>1, <3>1, <3>3
  <2>2. CASE unit[k] # "wrappython.h"
    <3>1. v = Read(u, unit[k])
      BY <2>2 DEF Include
    <3>2. DOMAIN Read(u, unit[k]).seen = DOMAIN u.seen \union {unit[k]}
      BY <1>1, Reading
    <3> HIDE DEF v
    <3> QED
      BY <2>2, <3>1, <3>2
  <2> QED
    BY <2>1, <2>2
<1> HIDE DEF v
<1>5. DOMAIN unit = 1..Len(unit) /\ k \in Nat /\ B \subseteq Nat
      /\ (k \in B <=> unit[k] \in {"wrappython.h", p})
  BY DEF BringsPython
<1>6. (\E j \in B : j <= k) <=> (\E j \in B : j <= k - 1) \/ k \in B
  <2> HIDE DEF B
  <2> QED
    BY <1>5
<1>7. p \in DOMAIN v.seen <=> \E j \in B : j <= k
  BY <1>1, <1>4, <1>5, <1>6
<1>8. ASSUME FirstIsWrapped(unit), p \in DOMAIN v.seen PROVE v.seen[p] = AsksForDebug(build)
  <2>1. CASE p \in DOMAIN u.seen
    <3>1. v.seen[p] = u.seen[p]
      BY <1>3, <2>1
    <3>2. u.seen[p] = AsksForDebug(build)
      BY <1>2, <1>8, <2>1, Zenon
    <3> QED
      BY <3>1, <3>2
  <2>2. CASE p \notin DOMAIN u.seen
    <3>1. k \in B /\ ~ \E j \in B : j <= k - 1
      BY <1>1, <1>4, <1>5, <1>8, <2>2
    <3>2. PICK i \in B : unit[i] = "wrappython.h" /\ \A j \in B : i <= j
      BY <1>8 DEF FirstIsWrapped
    <3>3. i = k
      <4> HIDE DEF B
      <4> QED
        BY <1>5, <3>1, <3>2
    <3>4. v = Include(u, "wrappython.h")
      BY <3>2, <3>3 DEF v
    <3>5. Include(u, "wrappython.h").seen["Python.h"] = AsksForDebug(build)
      BY <1>1, <2>2, FirstWrapperHidesDebug
    <3> QED
      BY <3>4, <3>5
  <2> QED
    BY <2>1, <2>2
<1> QED
  BY <1>3, <1>7, <1>8 DEF AfterHeaders, v

(* For every build, and every unit however many headers it includes.       *)
THEOREM WrapperAlwaysSound == WrapperIsSound
<1> SUFFICES ASSUME NEW build \in Builds, NEW unit \in Units
             PROVE  /\ Undisturbed(build, Compiled(build, unit))
                    /\ FirstIsWrapped(unit) =>
                           Compiled(build, unit).seen["Python.h"] = AsksForDebug(build)
  BY DEF WrapperIsSound
<1> DEFINE n == Len(unit)
<1>1. /\ unit \in Seq(Header) /\ IsUnit(build) /\ DOMAIN build.seen = {}
      /\ "DEBUG_UNDEFINED_FROM_WRAP_PYTHON_H" \notin build.macros
  BY WrapAssumption
<1>2. PICK f : Stepwise(build, unit, n, f) /\ Compiled(build, unit) = f[n]
  BY <1>1, CompiledStepwise
<1>3. n \in Nat /\ DOMAIN unit = 1..n
  BY <1>1
<1> HIDE DEF n
<1> DEFINE S == {i \in Nat : i <= n => AfterHeaders(build, unit, i, f[i])}
<1>4. 0 \in S
  <2>1. f[0] = build
    BY <1>2 DEF Stepwise
  <2>2. Undisturbed(build, build)
    BY <1>1 DEF Undisturbed
  <2>3. ~ \E j \in BringsPython(unit) : j <= 0
    BY <1>3 DEF BringsPython
  <2>4. AfterHeaders(build, unit, 0, build)
    BY <1>1, <2>2, <2>3 DEF AfterHeaders
  <2> QED
    BY <2>1, <2>4
<1>5. ASSUME NEW i \in S PROVE i + 1 \in S
  <2> DEFINE k == i + 1
  <2> SUFFICES ASSUME k <= n PROVE AfterHeaders(build, unit, k, f[k])
    BY <1>5
  <2>1. k \in 1..n /\ i = k - 1 /\ i <= n
    BY <1>3, <1>5
  <2>2. AfterHeaders(build, unit, i, f[i])
    BY <1>5, <2>1
  <2> HIDE DEF k
  <2>3. f[k] = Include(f[k - 1], unit[k])
    BY <1>2, <2>1 DEF Stepwise
  <2>4. AfterHeaders(build, unit, k - 1, f[k - 1]) /\ k \in 1..Len(unit)
    BY <2>1, <2>2 DEF n
  <2> QED
    BY <1>1, <2>3, <2>4, NextHeader
<1>6. S \in SUBSET Nat
  OBVIOUS
<1> HIDE DEF S
<1>7. n \in S
  BY <1>3, <1>4, <1>5, <1>6, SetInduction
<1>8. AfterHeaders(build, unit, n, f[n])
  BY <1>3, <1>7 DEF S
<1>9. FirstIsWrapped(unit) => "Python.h" \in DOMAIN f[n].seen
  <2>1. FirstIsWrapped(unit) => \E j \in BringsPython(unit) : j <= n
    BY <1>3 DEF FirstIsWrapped, BringsPython
  <2> QED
    BY <1>8, <2>1 DEF AfterHeaders
<1>10. FirstIsWrapped(unit) => f[n].seen["Python.h"] = AsksForDebug(build)
  BY <1>8, <1>9, Zenon DEF AfterHeaders
<1>11. Undisturbed(build, f[n])
  BY <1>8 DEF AfterHeaders
<1> QED
  BY <1>2, <1>10, <1>11, Zenon

(* The header that has been copied hides debug builds from Python, in      *)
(* every state of the distribution.                                        *)
THEOREM CopiedHeaderHidesDebug == LauncherSpec => []HeaderHidesDebug
<1>1. HeaderHidesDebug
  BY WrapperAlwaysSound DEF HeaderHidesDebug
<1> QED
  BY <1>1, PTL
=============================================================================
