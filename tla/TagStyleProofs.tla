--------------------------- MODULE TagStyleProofs ---------------------------
(***************************************************************************)
(* An exit code 0 of a command on the tag style is never a lost edit, for  *)
(* any tags, colors and commands; and writing an option back keeps it.     *)
(***************************************************************************)
EXTENDS TagStyle, TLAPS

USE StyleAssumption, CommandsAssumption, OthersAssumption

----------------------------------------------------------------------------
(***************************************************************************)
(* Reading and writing the property string.                                *)
(***************************************************************************)
\* An option that was written reads as the style that was meant: no component
\* is lost, and an unset one stays unset.
LEMMA ParseString ==
    ASSUME NEW ts \in Styles
    PROVE  parseTagStyle(String(ts)) = ts
<1> DEFINE s == String(ts)
<1>1. /\ DOMAIN s = components(ts)
      /\ "shape" \in components(ts) => s["shape"] = ts.Shape
      /\ "ordering" \in components(ts) => s["ordering"] = ts.Ordering
      /\ "case-sensitive" \in components(ts) =>
            s["case-sensitive"] = CHOOSE b \in ts.CaseSensitive : TRUE
      /\ "color-map" \in components(ts) => s["color-map"] = ts.ColorMap
  BY DEF String
<1>2. /\ "shape" \in components(ts) <=> ts.Shape # None
      /\ "ordering" \in components(ts) <=> ts.Ordering # None
      /\ "case-sensitive" \in components(ts) <=> ts.CaseSensitive # {}
      /\ "color-map" \in components(ts) <=> DOMAIN ts.ColorMap # {}
  BY DEF components
<1>3. ts.CaseSensitive # {} =>
         {CHOOSE b \in ts.CaseSensitive : TRUE} = ts.CaseSensitive
  BY DEF Styles
<1>4. DOMAIN ts.ColorMap = {} => ts.ColorMap = NoColors
  BY DEF Styles, ColorMaps, NoColors
<1> HIDE DEF s
<1>5. parseTagStyle(s) = [Shape |-> ts.Shape, Ordering |-> ts.Ordering,
         CaseSensitive |-> ts.CaseSensitive, ColorMap |-> ts.ColorMap]
  BY <1>1, <1>2, <1>3, <1>4 DEF parseTagStyle
<1> QED
  BY <1>5 DEF s, Styles

LEMMA NoColorsType == NoColors \in ColorMaps
<1>1. NoColors \in [{} -> Colors]
  BY DEF NoColors
<1>2. {} \in SUBSET Tags
  OBVIOUS
<1> QED
  BY <1>1, <1>2 DEF ColorMaps

LEMMA NoStyleType == NoStyle \in Styles
BY NoColorsType DEF NoStyle, Styles

LEMMA EmptyStyle ==
    ASSUME NEW ts \in Styles
    PROVE  isEmpty(ts) <=> ts = NoStyle
<1>1. DOMAIN ts.ColorMap = {} <=> ts.ColorMap = NoColors
  BY DEF Styles, ColorMaps, NoColors
<1>2. ts = NoStyle <=> /\ ts.Shape = None
                       /\ ts.Ordering = None
                       /\ ts.CaseSensitive = {}
                       /\ ts.ColorMap = NoColors
  <2>1. ts = [Shape |-> ts.Shape, Ordering |-> ts.Ordering,
              CaseSensitive |-> ts.CaseSensitive, ColorMap |-> ts.ColorMap]
    BY DEF Styles
  <2>2. /\ NoStyle.Shape = None
        /\ NoStyle.Ordering = None
        /\ NoStyle.CaseSensitive = {}
        /\ NoStyle.ColorMap = NoColors
    BY DEF NoStyle
  <2>3. ASSUME ts.Shape = None, ts.Ordering = None, ts.CaseSensitive = {},
               ts.ColorMap = NoColors
        PROVE  ts = NoStyle
    BY <2>1, <2>3, Zenon DEF NoStyle
  <2> QED
    BY <2>2, <2>3
<1> QED
  BY <1>1, <1>2 DEF isEmpty

LEMMA RoundTrip ==
    ASSUME NEW ts \in Styles
    PROVE  parseTagStyle(writeTagStyle(ts)) = ts
<1>1. parseTagStyle(Deleted) = NoStyle
  BY DEF parseTagStyle, Deleted, NoStyle
<1> QED
  BY <1>1, ParseString, EmptyStyle DEF writeTagStyle

----------------------------------------------------------------------------
(***************************************************************************)
(* The edits do what the commands are there for.                           *)
(***************************************************************************)
LEMMA EditType ==
    ASSUME NEW p \in Commands, NEW ts \in Styles
    PROVE  edit(p, ts) \in Styles
<1>1. \A D \in SUBSET Tags : \A f \in [D -> Colors] : f \in ColorMaps
  BY DEF ColorMaps
<1>2. PICK D \in SUBSET Tags : ts.ColorMap \in [D -> Colors]
  BY DEF Styles, ColorMaps
<1>3. ASSUME NEW m \in ColorMaps
      PROVE  [ts EXCEPT !.ColorMap = m] \in Styles
  BY <1>3 DEF Styles
<1>4. CASE p.op = "color set"
  <2>1. PICK t \in Tags : p.tags = {t}
    BY <1>4
  <2>2. [u \in D \cup {t} |-> IF u = t THEN p.color ELSE ts.ColorMap[u]]
           \in [D \cup {t} -> Colors]
    BY <1>2 DEF CommandType
  <2>3. (CHOOSE v \in p.tags : TRUE) = t
    BY <2>1
  <2> QED
    BY <1>1, <1>2, <1>3, <1>4, <2>2, <2>3 DEF edit, setColor
<1>5. CASE p.op = "color rm"
  <2>1. [u \in D \ p.tags |-> ts.ColorMap[u]] \in [D \ p.tags -> Colors]
    BY <1>2
  <2> QED
    BY <1>1, <1>2, <1>3, <1>5, <2>1 DEF edit, removeColors
<1>6. CASE p.op = "color clear"
  BY <1>3, <1>6, NoColorsType DEF edit
<1>7. CASE p.op = "style set"
  BY <1>7 DEF edit, setFlags, Styles, CommandType
<1>8. CASE p.op = "style clear"
  BY <1>8, NoStyleType DEF edit
<1> QED
  BY <1>4, <1>5, <1>6, <1>7, <1>8 DEF CommandType, Ops

LEMMA EditInEffect ==
    ASSUME NEW p \in Commands, NEW ts \in Styles
    PROVE  InEffect(p, edit(p, ts))
<1>1. CASE p.op = "color set"
  <2>1. PICK t \in Tags : p.tags = {t}
    BY <1>1
  <2>2. (CHOOSE v \in p.tags : TRUE) = t
    BY <2>1
  <2>3. edit(p, ts) = setColor(ts, t, p.color)
    BY <1>1, <2>2 DEF edit
  <2>4. setColor(ts, t, p.color).ColorMap =
           [u \in DOMAIN ts.ColorMap \cup {t} |->
               IF u = t THEN p.color ELSE ts.ColorMap[u]]
    BY DEF setColor, Styles
  <2> QED
    BY <1>1, <2>1, <2>3, <2>4 DEF InEffect
<1>2. CASE p.op = "color rm"
  <2>1. edit(p, ts).ColorMap =
           [u \in DOMAIN ts.ColorMap \ p.tags |-> ts.ColorMap[u]]
    BY <1>2 DEF edit, removeColors, Styles
  <2> QED
    BY <1>2, <2>1 DEF InEffect
<1>3. CASE p.op = "color clear"
  BY <1>3 DEF edit, InEffect, Styles, NoColors
<1>4. CASE p.op = "style set"
  BY <1>4 DEF edit, setFlags, InEffect, Styles
<1>5. CASE p.op = "style clear"
  BY <1>5 DEF edit, InEffect
<1> QED
  BY <1>1, <1>2, <1>3, <1>4, <1>5 DEF CommandType, Ops

\* A command that finds nothing to do finds what it is there for.
LEMMA NothingToDoInEffect ==
    ASSUME NEW p \in Commands, NEW ts \in Styles, nothingToDo(p, ts)
    PROVE  InEffect(p, ts)
<1>1. p.op \in Ops
  BY DEF CommandType
<1> QED
  BY <1>1, EmptyStyle DEF nothingToDo, InEffect, Ops

----------------------------------------------------------------------------
(***************************************************************************)
(* The invariant.                                                          *)
(***************************************************************************)
\* The server has an option that some style stands for.
OptionTrue == \E ts \in Styles : option = String(ts)

\* A write is the edit of what its command read, and that is no longer read.
PutTrue(w) ==
    /\ w.by \in Commands
    /\ w.option = writeTagStyle(edit(w.by, seen[w.by]))
    /\ pc[w.by] \notin {"idle", "confirm"}

IInv ==
    /\ OptionTrue
    /\ pc \in [Commands -> {"idle", "confirm", "await", "ok", "failed"}]
    /\ seen \in [Commands -> Styles]
    /\ effective \subseteq Commands
    /\ \A w \in puts : PutTrue(w)
    /\ SuccessIsEffective

LEMMA WrittenOption ==
    ASSUME NEW ts \in Styles
    PROVE  \E us \in Styles : writeTagStyle(ts) = String(us)
<1>1. String(NoStyle) = Deleted
  <2>1. components(NoStyle) = {}
    BY DEF components, NoStyle, NoColors
  <2> QED
    BY <2>1 DEF String, Deleted
<1> QED
  BY <1>1, NoStyleType DEF writeTagStyle

\* The write of a command has its effect.
LEMMA PutInEffect ==
    ASSUME IInv, NEW w \in puts
    PROVE  /\ w.by \in Commands
           /\ edit(w.by, seen[w.by]) \in Styles
           /\ w.option = writeTagStyle(edit(w.by, seen[w.by]))
           /\ parseTagStyle(w.option) \in Styles
           /\ InEffect(w.by, parseTagStyle(w.option))
<1> DEFINE ts == edit(w.by, seen[w.by])
<1>1. /\ w.by \in Commands
      /\ w.option = writeTagStyle(ts)
      /\ seen[w.by] \in Styles
  BY DEF IInv, PutTrue
<1>2. ts \in Styles /\ InEffect(w.by, ts)
  BY <1>1, EditType, EditInEffect
<1> HIDE DEF ts
<1>3. parseTagStyle(writeTagStyle(ts)) = ts
  BY <1>2, RoundTrip
<1>4. /\ parseTagStyle(w.option) \in Styles
      /\ InEffect(w.by, parseTagStyle(w.option))
  BY <1>1, <1>2, <1>3
<1> QED
  BY <1>1, <1>2, <1>4 DEF ts

LEMMA InitInv == Init => IInv
BY NoStyleType DEF Init, IInv, OptionTrue, SuccessIsEffective

LEMMA NextInv == IInv /\ [Next]_vars => IInv'
<1> SUFFICES ASSUME IInv, [Next]_vars
             PROVE  IInv'
  OBVIOUS
<1> USE DEF IInv
<1>0. parseTagStyle(option) \in Styles
  BY ParseString DEF OptionTrue
<1>1. ASSUME NEW p \in Commands, readTagStyle(p)
      PROVE  IInv'
  <2>1. nothingToDo(p, parseTagStyle(option)) => InEffect(p, parseTagStyle(option))
    BY <1>0, NothingToDoInEffect
  <2>2. /\ pc[p] = "idle"
        /\ seen' = [seen EXCEPT ![p] = parseTagStyle(option)]
        /\ option' = option /\ puts' = puts
        /\ effective \subseteq effective' /\ effective' \subseteq Commands
        /\ nothingToDo(p, parseTagStyle(option)) => p \in effective'
        /\ pc' = [pc EXCEPT ![p] =
              IF nothingToDo(p, parseTagStyle(option)) THEN "ok" ELSE "confirm"]
    BY <1>1, <2>1 DEF readTagStyle, Note, Goto
  <2>3. OptionTrue'
    BY <2>2 DEF OptionTrue
  <2>4. \A w \in puts' : PutTrue(w)'
    BY <2>2 DEF PutTrue
  <2>5. SuccessIsEffective'
    BY <2>2 DEF SuccessIsEffective
  <2> QED
    BY <1>0, <2>2, <2>3, <2>4, <2>5
<1>2. ASSUME NEW p \in Commands, ReadFails(p) \/ Decline(p) \/ WriteLost(p)
      PROVE  IInv'
  <2>1. /\ option' = option /\ puts' = puts /\ seen' = seen
        /\ effective' = effective
        /\ pc' = [pc EXCEPT ![p] = "failed"]
    BY <1>2 DEF ReadFails, Decline, WriteLost, Goto
  <2> QED
    BY <2>1 DEF OptionTrue, PutTrue, SuccessIsEffective
<1>3. ASSUME NEW p \in Commands, Confirm(p)
      PROVE  IInv'
  <2>0. PICK new : new = [by |-> p, option |-> writeTagStyle(edit(p, seen[p]))]
    OBVIOUS
  <2>1. /\ option' = option /\ seen' = seen /\ effective' = effective
        /\ puts' = puts \cup {new}
        /\ pc' = [pc EXCEPT ![p] = "await"]
    BY <1>3, <2>0 DEF Confirm, Goto
  <2>2. PutTrue(new)'
    BY <2>0, <2>1 DEF PutTrue
  <2>3. \A w \in puts' : PutTrue(w)'
    <3>1. ASSUME NEW w \in puts
          PROVE  PutTrue(w)'
      <4>1. /\ w.by \in Commands
            /\ w.option = writeTagStyle(edit(w.by, seen[w.by]))
            /\ pc[w.by] \notin {"idle", "confirm"}
        BY DEF PutTrue
      <4>2. pc'[w.by] \notin {"idle", "confirm"}
        BY <2>1, <4>1
      <4> QED
        BY <2>1, <4>1, <4>2 DEF PutTrue
    <3> QED
      BY <2>1, <2>2, <3>1
  <2> QED
    BY <2>1, <2>3 DEF OptionTrue, SuccessIsEffective
<1>4. ASSUME NEW w \in puts, Accept(w)
      PROVE  IInv'
  <2>1. /\ w.by \in Commands
        /\ edit(w.by, seen[w.by]) \in Styles
        /\ w.option = writeTagStyle(edit(w.by, seen[w.by]))
        /\ InEffect(w.by, parseTagStyle(w.option))
    BY PutInEffect
  <2>4. /\ puts' \subseteq puts /\ seen' = seen /\ option' = w.option
        /\ effective \subseteq effective' /\ effective' \subseteq Commands
        /\ w.by \in effective'
        /\ \/ pc' = pc
           \/ pc[w.by] = "await" /\ pc' = [pc EXCEPT ![w.by] = "ok"]
    BY <1>4, <2>1 DEF Accept, Note, Answer, Goto
  <2>5. OptionTrue'
    BY <2>1, <2>4, WrittenOption DEF OptionTrue
  <2>6. \A u \in puts' : PutTrue(u)'
    BY <2>4 DEF PutTrue
  <2>7. SuccessIsEffective'
    BY <2>4 DEF SuccessIsEffective
  <2> QED
    BY <2>4, <2>5, <2>6, <2>7
<1>5. ASSUME NEW w \in puts, Refuse(w)
      PROVE  IInv'
  <2>1. /\ option' = option /\ puts' \subseteq puts /\ seen' = seen
        /\ effective' = effective
        /\ pc' = pc \/ pc' = [pc EXCEPT ![w.by] = "failed"]
    BY <1>5 DEF Refuse, Answer, Goto
  <2> QED
    BY <2>1 DEF OptionTrue, PutTrue, SuccessIsEffective
<1>6. ASSUME NEW ts \in Others, Foreign(ts)
      PROVE  IInv'
  BY <1>6 DEF Foreign, OptionTrue, PutTrue, SuccessIsEffective
<1>7. CASE UNCHANGED vars
  BY <1>7 DEF vars, OptionTrue, PutTrue, SuccessIsEffective
<1> QED
  BY <1>1, <1>2, <1>3, <1>4, <1>5, <1>6, <1>7 DEF Next, CommandStep

LEMMA Invariant == Spec => []IInv
BY InitInv, NextInv, PTL DEF Spec

\* Exit code 0 is never a lost edit: the server has had what the command is
\* there for at some moment since it began.
THEOREM SuccessIsEffectiveHolds == Spec => []SuccessIsEffective
BY Invariant, PTL DEF IInv

\* Types; reading the option and writing it back unchanged is harmless.
THEOREM TypeCorrect == Spec => []TypeOK
<1>1. IInv => TypeOK
  <2> SUFFICES ASSUME IInv
               PROVE  TypeOK
    OBVIOUS
  <2>1. PICK ts \in Styles : option = String(ts)
    BY DEF IInv, OptionTrue
  <2>2. writeTagStyle(ts) = String(ts)
    <3>1. ASSUME isEmpty(ts)
          PROVE  String(ts) = Deleted
      <4>1. components(ts) = {}
        BY <3>1 DEF components, isEmpty
      <4> QED
        BY <4>1 DEF String, Deleted
    <3> QED
      BY <3>1 DEF writeTagStyle
  <2>3. parseTagStyle(option) = ts
    BY <2>1, ParseString
  <2>4. \A w \in puts : w.by \in Commands /\ parseTagStyle(w.option) \in Styles
    BY PutInEffect
  <2> QED
    BY <2>1, <2>2, <2>3, <2>4 DEF TypeOK, IInv
<1> QED
  BY <1>1, Invariant, PTL

----------------------------------------------------------------------------
(***************************************************************************)
(* The edits do nothing else.                                              *)
(***************************************************************************)
LEMMA EditAgrees ==
    ASSUME NEW p \in Commands, NEW ts \in Styles
    PROVE  AgreeElsewhere(p, ts, edit(p, ts))
<1> DEFINE us == edit(p, ts)
<1>1. CASE p.op = "color set"
  <2>1. PICK t \in Tags : p.tags = {t}
    BY <1>1
  <2>2. (CHOOSE v \in p.tags : TRUE) = t
    BY <2>1
  <2>3. us = setColor(ts, t, p.color)
    BY <1>1, <2>2 DEF edit
  <2>4. /\ us.Shape = ts.Shape /\ us.Ordering = ts.Ordering
        /\ us.CaseSensitive = ts.CaseSensitive
        /\ us.ColorMap = [u \in DOMAIN ts.ColorMap \cup {t} |->
                            IF u = t THEN p.color ELSE ts.ColorMap[u]]
    BY <2>3 DEF setColor, Styles
  <2> HIDE DEF us
  <2>5. AgreeElsewhere(p, ts, us)
    BY <1>1, <2>1, <2>4 DEF AgreeElsewhere
  <2> QED
    BY <2>5 DEF us
<1>2. CASE p.op = "color rm"
  <2>1. /\ us.Shape = ts.Shape /\ us.Ordering = ts.Ordering
        /\ us.CaseSensitive = ts.CaseSensitive
        /\ us.ColorMap = [u \in DOMAIN ts.ColorMap \ p.tags |-> ts.ColorMap[u]]
    BY <1>2 DEF edit, removeColors, Styles
  <2> HIDE DEF us
  <2>2. AgreeElsewhere(p, ts, us)
    BY <1>2, <2>1 DEF AgreeElsewhere
  <2> QED
    BY <2>2 DEF us
<1>3. CASE p.op = "color clear"
  BY <1>3 DEF edit, AgreeElsewhere, Styles
<1>4. CASE p.op = "style set"
  BY <1>4 DEF edit, setFlags, AgreeElsewhere, Styles
<1>5. CASE p.op = "style clear"
  BY <1>5 DEF AgreeElsewhere
<1> QED
  BY <1>1, <1>2, <1>3, <1>4, <1>5 DEF CommandType, Ops

\* The server carries out an edit, and as long as the option is the one the
\* command has read, nothing else changes.
THEOREM UnrelatedSurvivesHolds == Spec => UnrelatedSurvives
<1>1. ASSUME IInv, [Next]_vars, NEW w \in puts \ puts',
             parseTagStyle(option) = seen[w.by]
      PROVE  AgreeElsewhere(w.by, parseTagStyle(option), parseTagStyle(option'))
  <2>1. /\ w.by \in Commands /\ seen[w.by] \in Styles
        /\ w.option = writeTagStyle(edit(w.by, seen[w.by]))
        /\ parseTagStyle(option) \in Styles
    BY <1>1, ParseString DEF IInv, PutTrue, OptionTrue
  <2>2. parseTagStyle(w.option) = edit(w.by, seen[w.by])
    BY <2>1, EditType, RoundTrip
  <2>3. option' = option \/ option' = w.option
    <3>1. ASSUME NEW p \in Commands, CommandStep(p) \/ Confirm(p) \/ Decline(p)
          PROVE  puts \subseteq puts'
      BY <3>1 DEF CommandStep, readTagStyle, ReadFails, WriteLost, Confirm, Decline
    <3>2. ASSUME NEW v \in puts, Accept(v)
          PROVE  option' = w.option
      BY <1>1, <3>2 DEF Accept
    <3>3. ASSUME NEW v \in puts, Refuse(v)
          PROVE  option' = option
      BY <3>3 DEF Refuse
    <3>4. ASSUME NEW ts \in Others, Foreign(ts)
          PROVE  puts' = puts
      BY <3>4 DEF Foreign
    <3> QED
      BY <1>1, <3>1, <3>2, <3>3, <3>4 DEF Next, vars
  <2>4. CASE option' = option
    BY <2>4 DEF AgreeElsewhere
  <2>5. CASE option' = w.option
    BY <1>1, <2>1, <2>2, <2>5, EditAgrees
  <2> QED
    BY <2>3, <2>4, <2>5
<1>2. ASSUME IInv, [Next]_vars
      PROVE  \A w \in puts \ puts' :
                parseTagStyle(option) = seen[w.by] =>
                   AgreeElsewhere(w.by, parseTagStyle(option), parseTagStyle(option'))
  BY <1>1, <1>2
<1> QED
  BY <1>2, Invariant, PTL DEF Spec, UnrelatedSurvives
=============================================================================
