------------------------------ MODULE TagStyle ------------------------------
(***************************************************************************)
(* The commands that edit the datacenter option `tag-style`,               *)
(* internal/cli/tag_style.go: `tag color set`, `rm` and `clear`, `tag      *)
(* style set` and `clear`. Each reads the whole option, edits one part of  *)
(* it, asks, and writes the whole option back; nothing tells the server    *)
(* which option was read.                                                  *)
(*                                                                         *)
(* The option is the function of its components: "shape=full,ordering=.."  *)
(* has the domain {"shape", "ordering"}, and an option that is not set has *)
(* an empty one. A component "color-map" is a function from tags to        *)
(* colors. A write is what CallPromise says of a call: it runs at most     *)
(* once, maybe after its caller gave up on it.                             *)
(***************************************************************************)
CONSTANTS
    Tags,
    Colors,         \* a background, and maybe a text color
    Shapes,
    Orderings,
    Commands,       \* the commands that may run
    Scenarios,      \* which of them run together
    Others          \* options that other programs write

None == ""

ASSUME StyleAssumption == None \notin Shapes /\ None \notin Orderings

ColorMaps == UNION {[D -> Colors] : D \in SUBSET Tags}
NoColors == [t \in {} |-> {}]

\* The struct tagStyle. CaseSensitive is a pointer: {} is nil.
Styles == [Shape : Shapes \cup {None}, Ordering : Orderings \cup {None},
           CaseSensitive : {{}} \cup {{b} : b \in BOOLEAN}, ColorMap : ColorMaps]
NoStyle == [Shape |-> None, Ordering |-> None, CaseSensitive |-> {},
            ColorMap |-> NoColors]

Ops == {"color set", "color rm", "color clear", "style set", "style clear"}

\* color set has one tag; style set has some flag: a shape, an ordering, or
\* --case-sensitive, in a set as it is in the struct.
CommandType == [op : Ops, tags : SUBSET Tags, color : Colors,
                shape : Shapes \cup {None}, ordering : Orderings \cup {None},
                caseSensitive : {{}} \cup {{b} : b \in BOOLEAN}]

(***************************************************************************)
(* The property string.                                                    *)
(***************************************************************************)
\* tagStyleFromAny, parseTagStyle.
parseTagStyle(s) ==
    [Shape |-> IF "shape" \in DOMAIN s THEN s["shape"] ELSE None,
     Ordering |-> IF "ordering" \in DOMAIN s THEN s["ordering"] ELSE None,
     CaseSensitive |->
        IF "case-sensitive" \in DOMAIN s THEN {s["case-sensitive"]} ELSE {},
     ColorMap |-> IF "color-map" \in DOMAIN s THEN s["color-map"] ELSE NoColors]

\* Fault: an explicit false is taken for unset.
components_DropFalse(ts) ==
    {k \in {"shape", "ordering", "case-sensitive", "color-map"} :
        \/ k = "shape" /\ ts.Shape # None
        \/ k = "ordering" /\ ts.Ordering # None
        \/ k = "case-sensitive" /\ ts.CaseSensitive = {TRUE}
        \/ k = "color-map" /\ DOMAIN ts.ColorMap # {}}

components(ts) ==
    {k \in {"shape", "ordering", "case-sensitive", "color-map"} :
        \/ k = "shape" /\ ts.Shape # None
        \/ k = "ordering" /\ ts.Ordering # None
        \/ k = "case-sensitive" /\ ts.CaseSensitive # {}
        \/ k = "color-map" /\ DOMAIN ts.ColorMap # {}}

\* tagStyle.String.
String(ts) ==
    [k \in components(ts) |->
        CASE k = "shape" -> ts.Shape
          [] k = "ordering" -> ts.Ordering
          [] k = "case-sensitive" -> CHOOSE b \in ts.CaseSensitive : TRUE
          [] k = "color-map" -> ts.ColorMap]

\* Fault: the colors are forgotten.
isEmpty_ForgetsColors(ts) ==
    ts.Shape = None /\ ts.Ordering = None /\ ts.CaseSensitive = {}

isEmpty(ts) ==
    /\ ts.Shape = None /\ ts.Ordering = None /\ ts.CaseSensitive = {}
    /\ DOMAIN ts.ColorMap = {}

\* The parameters of the PUT: a string, or "delete", which unsets the option.
Deleted == [k \in {} |-> {}]
writeTagStyle(ts) == IF isEmpty(ts) THEN Deleted ELSE String(ts)

(***************************************************************************)
(* The edits.                                                              *)
(***************************************************************************)
setColor(ts, t, c) ==
    [ts EXCEPT !.ColorMap =
        [u \in DOMAIN ts.ColorMap \cup {t} |->
            IF u = t THEN c ELSE ts.ColorMap[u]]]

removeColors(ts, tags) ==
    [ts EXCEPT !.ColorMap =
        [u \in DOMAIN ts.ColorMap \ tags |-> ts.ColorMap[u]]]

\* Fault: the flags that were not passed are written too.
setFlags_All(ts, p) ==
    [ts EXCEPT !.Shape = p.shape,
               !.Ordering = p.ordering,
               !.CaseSensitive = p.caseSensitive]

\* `tag style set`: the flags that were passed.
setFlags(ts, p) ==
    [ts EXCEPT !.Shape = IF p.shape # None THEN p.shape ELSE @,
               !.Ordering = IF p.ordering # None THEN p.ordering ELSE @,
               !.CaseSensitive =
                    IF p.caseSensitive # {} THEN p.caseSensitive ELSE @]

edit(p, ts) ==
    CASE p.op = "color set" -> setColor(ts, CHOOSE t \in p.tags : TRUE, p.color)
      [] p.op = "color rm" -> removeColors(ts, p.tags)
      [] p.op = "color clear" -> [ts EXCEPT !.ColorMap = NoColors]
      [] p.op = "style set" -> setFlags(ts, p)
      [] p.op = "style clear" -> NoStyle

nothingToDo(p, ts) ==
    CASE p.op = "color rm" -> p.tags \cap DOMAIN ts.ColorMap = {}
      [] p.op = "color clear" -> DOMAIN ts.ColorMap = {}
      [] p.op = "style clear" -> isEmpty(ts)
      [] OTHER -> FALSE

ASSUME CommandsAssumption ==
    /\ Commands \subseteq CommandType
    /\ \A p \in Commands :
          /\ p.op = "color set" => \E t \in Tags : p.tags = {t}
          /\ p.op = "style set" =>
                p.shape # None \/ p.ordering # None \/ p.caseSensitive # {}
ASSUME ScenariosAssumption == Scenarios \subseteq SUBSET Commands
ASSUME OthersAssumption == Others \subseteq Styles

VARIABLES
    option,         \* the option on the server
    puts,           \* writes the server has not handled
    pc,             \* where each command is
    seen,           \* the style each command has read
    effective       \* commands whose edit the server had since they began (history)

vars == <<option, puts, pc, seen, effective>>

Init ==
    /\ \E ts \in Styles : option = String(ts)
    /\ puts = {}
    /\ \E run \in Scenarios :
          pc = [p \in Commands |-> IF p \in run THEN "idle" ELSE "failed"]
    /\ seen = [p \in Commands |-> NoStyle]
    /\ effective = {}

Goto(p, where) == pc' = [pc EXCEPT ![p] = where]

\* What the command is there for.
InEffect(p, ts) ==
    /\ p.op = "color set" =>
          \A t \in p.tags : t \in DOMAIN ts.ColorMap /\ ts.ColorMap[t] = p.color
    /\ p.op = "color rm" => p.tags \cap DOMAIN ts.ColorMap = {}
    /\ p.op = "color clear" => DOMAIN ts.ColorMap = {}
    /\ p.op = "style set" =>
          /\ p.shape # None => ts.Shape = p.shape
          /\ p.ordering # None => ts.Ordering = p.ordering
          /\ p.caseSensitive # {} => ts.CaseSensitive = p.caseSensitive
    /\ p.op = "style clear" => ts = NoStyle

Note(p, s) ==
    effective' = effective \cup {q \in {p} : InEffect(q, parseTagStyle(s))}

(***************************************************************************)
(* A command.                                                              *)
(***************************************************************************)
\* readTagStyle, then the prompt unless there is nothing to do.
readTagStyle(p) ==
    /\ pc[p] = "idle"
    /\ seen' = [seen EXCEPT ![p] = parseTagStyle(option)]
    /\ Note(p, option)
    /\ Goto(p, IF nothingToDo(p, parseTagStyle(option)) THEN "ok" ELSE "confirm")
    /\ UNCHANGED <<option, puts>>

ReadFails(p) ==
    /\ pc[p] = "idle"
    /\ Goto(p, "failed")
    /\ UNCHANGED <<option, puts, seen, effective>>

\* The prompt is answered, or --yes was given; the PUT is sent.
Confirm(p) ==
    /\ pc[p] = "confirm"
    /\ puts' = puts \cup {[by |-> p, option |-> writeTagStyle(edit(p, seen[p]))]}
    /\ Goto(p, "await")
    /\ UNCHANGED <<option, seen, effective>>

\* The answer is no, or there is no terminal to ask.
Decline(p) ==
    /\ pc[p] = "confirm"
    /\ Goto(p, "failed")
    /\ UNCHANGED <<option, puts, seen, effective>>

\* No answer to the PUT: it is over for the command, not for the server.
WriteLost(p) ==
    /\ pc[p] = "await"
    /\ Goto(p, "failed")
    /\ UNCHANGED <<option, puts, seen, effective>>

(***************************************************************************)
(* The server, and others.                                                 *)
(***************************************************************************)
Answer(w, verdict) ==
    \/ pc[w.by] = "await" /\ Goto(w.by, verdict)
    \/ UNCHANGED pc

Accept(w) ==
    /\ w \in puts
    /\ puts' = puts \ {w}
    /\ option' = w.option
    /\ Note(w.by, w.option)
    /\ Answer(w, "ok")
    /\ UNCHANGED seen

Refuse(w) ==
    /\ w \in puts
    /\ puts' = puts \ {w}
    /\ Answer(w, "failed")
    /\ UNCHANGED <<option, seen, effective>>

\* The web interface, or another client.
Foreign(ts) ==
    /\ option' = String(ts)
    /\ UNCHANGED <<puts, pc, seen, effective>>

CommandStep(p) == readTagStyle(p) \/ ReadFails(p) \/ WriteLost(p)

Next ==
    \/ \E p \in Commands : CommandStep(p) \/ Confirm(p) \/ Decline(p)
    \/ \E w \in puts : Accept(w) \/ Refuse(w)
    \/ \E ts \in Others : Foreign(ts)

Spec == Init /\ [][Next]_vars

(***************************************************************************)
(* Properties.                                                             *)
(***************************************************************************)
\* Types; and the option is always one that a style stands for, so that
\* reading it and writing it back unchanged keeps every component.
TypeOK ==
    /\ parseTagStyle(option) \in Styles
    /\ writeTagStyle(parseTagStyle(option)) = option
    /\ \A w \in puts : w.by \in Commands /\ parseTagStyle(w.option) \in Styles
    /\ pc \in [Commands -> {"idle", "confirm", "await", "ok", "failed"}]
    /\ seen \in [Commands -> Styles]
    /\ effective \subseteq Commands

\* Exit code 0: the server has had what the command is there for, at some
\* moment since the command began.
SuccessIsEffective == \A p \in Commands : pc[p] = "ok" => p \in effective

\* ts and us agree on what the command has no business with.
AgreeElsewhere(p, ts, us) ==
    /\ p.op \in {"color set", "color rm", "color clear"} =>
          /\ us.Shape = ts.Shape
          /\ us.Ordering = ts.Ordering
          /\ us.CaseSensitive = ts.CaseSensitive
    /\ p.op \in {"color set", "color rm"} =>
          \A t \in Tags \ p.tags :
             /\ t \in DOMAIN us.ColorMap <=> t \in DOMAIN ts.ColorMap
             /\ t \in DOMAIN ts.ColorMap => us.ColorMap[t] = ts.ColorMap[t]
    /\ p.op = "style set" =>
          /\ us.ColorMap = ts.ColorMap
          /\ p.shape = None => us.Shape = ts.Shape
          /\ p.ordering = None => us.Ordering = ts.Ordering
          /\ p.caseSensitive = {} => us.CaseSensitive = ts.CaseSensitive

\* "unrelated components survive an edit": as long as the option is still the
\* one that was read, whoever wrote in between and put it back.
UnrelatedSurvives ==
    [][\A w \in puts \ puts' :
          parseTagStyle(option) = seen[w.by] =>
             AgreeElsewhere(w.by, parseTagStyle(option), parseTagStyle(option'))]_vars
=============================================================================
