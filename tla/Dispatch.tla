------------------------------ MODULE Dispatch ------------------------------
(***************************************************************************)
(* How a method call is lowered.  The checker types recv.m() from the type *)
(* of the receiver; emitCall recognises, one after the other, module       *)
(* bindings by the receiver's name, channel operations and containers by   *)
(* the type of a receiver that is an identifier, slice methods by their    *)
(* own name, and writes everything else as a Go selector.  What it writes  *)
(* is Go text: an unparenthesised prefix or product regroups with what     *)
(* comes after it, and Go refuses what does not type.                      *)
(*                                                                         *)
(* An expression is a root followed by calls and parentheses; arguments    *)
(* are left out.  Effects are the calls, receives and pops, in order.      *)
(***************************************************************************)
EXTENDS Naturals, SequencesExt

CONSTANT MaxCalls  \* calls and parentheses after the root

VARIABLES
  root,   \* [form, name, type, known]: the first operand
  calls,  \* what follows it in the source: method names and "parens"
  types,  \* the type the language gives each receiver, and then the whole
  sema,   \* the type the checker gives the whole: the same, or unknown
  source, \* what the source does: each call once, from left to right
  text,   \* the Go text: [prefix, core, ident, product, send], or refused by codegen
  divides \* whether the expression stands to the right of a division

vars == <<root, calls, types, sema, source, text, divides>>

-----------------------------------------------------------------------------
(* Types and their methods.                                                *)

Unknown == <<"unknown">>
Scalar == <<"int">>
Class == <<"Class">>
Slice(t) == <<"Slice", t>>
Channels == {"Channel", "SendChan", "RecvChan"}
Containers == {"Map", "Set", "Stack"}

\* Methods a user may declare, among them every name codegen looks for.
ClassMethods == {"own", "len", "push", "copy", "bytes", "send", "fromBytes",
                 "split", "atoi"}
HandleMethods == {"own", "len"}

\* containerMethodType and channelMethodType; to strings the checker gives no
\* methods, but the language does.
MethodsOf(kind) ==
  CASE kind = "Slice"    -> {"len", "push", "copy"}
    [] kind = "Map"      -> {"len", "has", "get", "set", "delete", "keys", "values"}
    [] kind = "Set"      -> {"len", "has", "add", "delete", "toSlice"}
    [] kind = "Stack"    -> {"len", "push", "pop", "peek"}
    [] kind = "Channel"  -> {"send", "close", "recv", "tryRecv"}
    [] kind = "SendChan" -> {"send", "close"}
    [] kind = "RecvChan" -> {"recv", "tryRecv"}
    [] kind = "string"   -> {"bytes", "runes"}
    [] kind = "Class"    -> ClassMethods
    [] kind = "Handle"   -> HandleMethods
    [] OTHER -> {}

\* Their results.
ResultOf(t, m) ==
  IF t[1] = "Class" THEN IF m = "fromBytes" THEN <<"string">> ELSE Class
  ELSE CASE m \in {"len", "own"} -> Scalar
         [] m \in {"get", "peek", "tryRecv"} -> <<"Option">>
         [] m \in {"keys", "bytes", "runes"} -> Slice(Scalar)
         [] m \in {"values", "toSlice"} -> Slice(t[2])
         [] m = "has"  -> <<"bool">>
         [] m = "pop"  -> <<"Result">>
         [] m = "recv" -> t[2]
         [] m = "copy" -> t
         [] m = "push" -> IF t[1] = "Slice" THEN t ELSE <<"unit">>
         [] OTHER -> <<"unit">>
MethodType(t, m) == IF m \in MethodsOf(t[1]) THEN ResultOf(t, m) ELSE Unknown

AllMethods == ClassMethods \cup HandleMethods \cup
  {"has", "get", "set", "delete", "keys", "values", "add", "toSlice", "pop", "peek",
   "close", "recv", "tryRecv", "runes"}

\* inferField and inferCall: unknown stays unknown.
SemaType(t, m) == IF t[1] \in {"unknown", "string"} THEN Unknown ELSE MethodType(t, m)

-----------------------------------------------------------------------------
(* Go: what an expression types as, its effects and its value.             *)

NoGo == <<"refused">>
Composite == <<"composite">>
Effectful == {"own", "recv", "tryRecv", "pop", "get", "send", "close", "set", "add", "delete"}

\* What a call of m does with its receiver: the same in the source and in Go.
Does(m, e) == [effects |-> IF m \in Effectful THEN Append(e.effects, m) ELSE e.effects,
               value   |-> <<m, e.value>>]
Leaf(form) == [effects |-> IF form \in {"call", "literal"} THEN <<"f">> ELSE <<>>,
               value   |-> <<"operand">>]
GoExpr(t, does) == [type |-> t, effects |-> does.effects, value |-> does.value]

\* The Go methods of a type: the prelude's containers, a user's class, a handle.
GoMethods(t) ==
  IF t[1] \in Containers \cup {"Class", "Handle"} THEN MethodsOf(t[1]) ELSE {}
\* e.m and e.M: only what is exported is seen of another package's type, and a
\* handle is one; the methods of this package have the names of the source.
GoSelect(e, m, exported) ==
  GoExpr(IF m \in GoMethods(e.type) /\ (exported <=> e.type[1] = "Handle")
         THEN MethodType(e.type, m) ELSE NoGo, Does(m, e))

\* <-e and &e.
GoReceive(e) ==
  GoExpr(IF e.type[1] \in {"Channel", "RecvChan"} THEN e.type[2] ELSE NoGo, Does("recv", e))
GoAddress(e) == GoExpr(IF e.type = Composite THEN Class ELSE NoGo, e)

\* What Go has functions and operators for: append, len, close, ch <- v, ..
BuiltinType(t, m) ==
  CASE m = "push" /\ t[1] = "Slice" -> t
    [] m = "len" /\ t[1] \in {"Slice", "string"} -> Scalar
    [] m \in {"bytes", "runes"} /\ t[1] = "string" -> Slice(Scalar)
    [] m \in {"send", "close"} /\ t[1] \in {"Channel", "SendChan"} -> <<"unit">>
    [] m = "tryRecv" /\ t[1] \in {"Channel", "RecvChan"} -> <<"Option">>
    [] OTHER -> NoGo
GoBuiltin(e, m) == GoExpr(BuiltinType(e.type, m), Does(m, e))

\* append(e[:0:0], f...), e[:0:0] and string(b).
GoCopy(e, f) ==
  GoExpr(IF e.type[1] = "Slice" THEN f.type ELSE NoGo,
         [effects |-> e.effects \o f.effects, value |-> <<"copy", f.value>>])
GoEmpty(e) == GoExpr(IF e.type[1] = "Slice" THEN e.type ELSE NoGo, e)
GoConversion == GoExpr(<<"string">>, [effects |-> <<>>, value |-> <<"string", <<"argument">>>>])

-----------------------------------------------------------------------------
(* Go text: a prefix operator applies to all of it, a selector to its core. *)

Text(e) == [prefix |-> "none", core |-> e, ident |-> FALSE, product |-> FALSE, send |-> FALSE]
\* Refused by codegen itself or by the name it writes.
Refused == Text(GoExpr(NoGo, [effects |-> <<>>, value |-> <<"refused">>]))

Whole(t) == IF t.prefix = "receive" THEN GoReceive(t.core)
            ELSE IF t.prefix = "address" THEN GoAddress(t.core) ELSE t.core
Selector(t, m, exported) == [Text(GoSelect(t.core, m, exported)) EXCEPT !.prefix = t.prefix]
\* A send is a statement, which no parentheses may hold.
Grouped(t) == IF t = Refused \/ t.send THEN Refused ELSE Text(Whole(t))

-----------------------------------------------------------------------------
(* Codegen: emitCall's tests, in their order.  Each gives the text it       *)
(* writes, or nothing when it does not apply.                              *)

ModuleNames == {"log", "strings", "strconv"}
IsNamed(S) == text.ident /\ root.name \in S
ShortcutNames == {"push", "len", "bytes", "runes", "copy"}

\* By the module's name: no symbol is asked, so a user's value of that name
\* is taken for the module.
NamedBinding(m) ==
  CASE IsNamed({"strings"}) /\ m = "fromBytes" -> {Text(GoConversion)}
    [] IsNamed({"strconv"}) /\ m = "atoi" -> {Refused}
    [] OTHER -> {}

\* By the type of an identifier.  The prefix of a receive stays open.
ChannelOperation(m) ==
  IF ~text.ident \/ sema[1] \notin Channels THEN {}
  ELSE CASE m = "recv" -> {[Text(text.core) EXCEPT !.prefix = "receive"]}
         [] m = "send" -> {[Text(GoBuiltin(Whole(text), m)) EXCEPT !.send = TRUE]}
         [] m \in {"tryRecv", "close"} -> {Text(GoBuiltin(Whole(text), m))}
         [] OTHER -> {}

\* externMethodOf, goRefMember: by the type of any receiver, the name Go exports.
HandleMethod(m) ==
  IF sema[1] = "Handle" /\ m \in HandleMethods THEN {Selector(text, m, TRUE)} ELSE {}

\* A slice method's text.  copy writes its receiver twice, and slices the
\* first, which binds tighter than a prefix before it.
Shortcut(m) ==
  IF m = "copy"
    THEN Text(GoCopy(Whole([Text(GoEmpty(text.core)) EXCEPT !.prefix = text.prefix]),
                     Whole(text)))
    ELSE Text(GoBuiltin(Whole(text), m))

\* Mutant: containers are not told from slices.
SliceMethodOfAny(m) ==
  IF m \in ShortcutNames /\ ~IsNamed(ModuleNames) THEN {Shortcut(m)} ELSE {}
\* By the name of the method, unless the receiver is known to be something else.
SliceMethod(m) ==
  IF /\ m \in ShortcutNames
     /\ ~IsNamed(ModuleNames)
     /\ ~(text.ident /\ sema[1] \in Containers \cup Channels)
  THEN {Shortcut(m)} ELSE {}

\* goMethodName, mapFieldName: the source's name; a renamed binding is a Go name
\* no user's method has.
PlainSelector(m) ==
  IF IsNamed({"strings"}) /\ m = "split" THEN Refused ELSE Selector(text, m, FALSE)

\* The first of them that applies.
Lower(m) ==
  LET First(attempt, others) == IF attempt # {} THEN attempt ELSE others IN
  IF text = Refused THEN {Refused}
  ELSE First(NamedBinding(m), First(ChannelOperation(m), First(HandleMethod(m),
         First(SliceMethod(m), {PlainSelector(m)}))))

-----------------------------------------------------------------------------
RootTypes ==
  {Slice(Scalar), Slice(Class), <<"Map", Scalar>>, <<"Map", Slice(Scalar)>>, <<"Set", Scalar>>,
   <<"Stack", Scalar>>, <<"string">>, Class, <<"Handle">>, <<"SendChan", Scalar>>}
    \cup {<<c, t>> : c \in {"Channel", "RecvChan"},
                     t \in {Scalar, Slice(Scalar), Class, <<"Map", Scalar>>, <<"Channel", Scalar>>}}

\* Variables have names and may have a type the checker does not know, as the
\* result of time.after; C(..) is a class constructor, and time.seconds(n) the
\* product Duration(n) * Second.
Init ==
  /\ \/ \E t \in RootTypes, n \in {"plain"} \cup ModuleNames, k \in BOOLEAN :
          root = [form |-> "variable", name |-> n, type |-> t, known |-> k]
     \/ \E t \in RootTypes, f \in {"call", "field"} :
          root = [form |-> f, name |-> "plain", type |-> t, known |-> TRUE]
     \/ root = [form |-> "literal", name |-> "plain", type |-> Class, known |-> TRUE]
     \/ root = [form |-> "product", name |-> "plain", type |-> <<"Duration">>, known |-> FALSE]
  /\ calls = <<>> /\ divides = FALSE
  /\ types = <<root.type>>
  /\ sema = IF root.known THEN root.type ELSE Unknown
  /\ source = Leaf(root.form)
  /\ text = [prefix  |-> IF root.form = "literal" THEN "address" ELSE "none",
             core    |-> GoExpr(IF root.form = "literal" THEN Composite ELSE root.type,
                                Leaf(root.form)),
             ident   |-> root.form = "variable",
             product |-> root.form = "product",
             send    |-> FALSE]

\* The type of the whole.
Type == Last(types)

Call(m) ==
  /\ Len(calls) < MaxCalls /\ ~divides
  /\ m \in MethodsOf(Type[1])
  /\ calls' = Append(calls, m)
  /\ types' = Append(types, MethodType(Type, m))
  /\ sema' = SemaType(sema, m)
  /\ source' = Does(m, source)
  /\ text' \in Lower(m)
  /\ UNCHANGED <<root, divides>>

\* ParenExpr keeps the author's parentheses.
Group ==
  /\ Len(calls) < MaxCalls /\ ~divides
  /\ calls # <<>> => Last(calls) # "parens"
  /\ calls' = Append(calls, "parens")
  /\ types' = Append(types, Type)
  /\ text' = Grouped(text)
  /\ UNCHANGED <<root, sema, source, divides>>

\* elapsed / expression, where the expression is a duration.
DivideBy ==
  /\ Type = <<"Duration">> /\ ~divides
  /\ divides' = TRUE
  /\ UNCHANGED <<root, calls, types, sema, source, text>>

Next == (\E m \in AllMethods : Call(m)) \/ Group \/ DivideBy

Spec == Init /\ [][Next]_vars

-----------------------------------------------------------------------------
TypeOK ==
  /\ Len(calls) =< MaxCalls /\ Len(types) = Len(calls) + 1
  /\ types[1] = root.type
  /\ sema \in {Type, Unknown}
  /\ text.ident <=> calls = <<>> /\ root.form = "variable"
  /\ divides => Type = <<"Duration">>

\* The first of the calls whose receiver codegen misjudges.
IsVariable(i) == i = 1 /\ root.form = "variable"
HasModuleName(i) == IsVariable(i) /\ root.name \in ModuleNames
Judged(i) == IsVariable(i) /\ root.known

\* A user's method that is named like a slice's.
TakenForSlice(i) ==
  /\ ~HasModuleName(i) /\ calls[i] \in ShortcutNames
  /\ \/ types[i] = Class
     \/ types[i][1] \in Containers /\ ~Judged(i)
\* A handle of unknown type: its methods keep the names of the source.
HandleNotSeen(i) == calls[i] # "parens" /\ types[i] = <<"Handle">> /\ ~root.known
\* A channel that is not a variable of known type.
ChannelNotSeen(i) ==
  calls[i] # "parens" /\ types[i][1] \in Channels /\ ~Judged(i)
\* A user's variable named like a module.
TakenForModule(i) ==
  /\ HasModuleName(i)
  /\ \/ types[i][1] \in {"Slice", "string"} /\ calls[i] # "parens"
     \/ types[i] = Class /\ <<root.name, calls[i]>> \in
          {<<"strings", "split">>, <<"strconv", "atoi">>}
\* <-ch.m() and &C{..}.m(): the selector takes what the prefix is for.
OpenPrefix(i) ==
  /\ calls[i] \notin (ShortcutNames \ {"copy"}) \cup {"parens"}
  /\ \/ i = 1 /\ root.form = "literal"
     \/ i = 2 /\ calls[1] = "recv" /\ Judged(1)

\* (ch.send(v)) is (ch <- v).
SendInParens(i) ==
  i = 2 /\ calls[2] = "parens" /\ calls[1] = "send" /\ types[1][1] \in Channels /\ Judged(1)

RefusedFor(i) ==
  \/ TakenForSlice(i) \/ HandleNotSeen(i) \/ ChannelNotSeen(i) \/ TakenForModule(i)
  \/ OpenPrefix(i) \/ SendInParens(i)

\* What Go accepts and yet does not do what the source says.
CopiesEffects == \E i \in DOMAIN calls :
  calls[i] = "copy" /\ (root.form \in {"call", "literal"} \/ \E j \in 1 .. i - 1 : calls[j] \in Effectful)
ConvertsArgument == root.form = "variable" /\ root.name = "strings"
                      /\ Len(calls) > 0 /\ calls[1] = "fromBytes"
DividesByProduct == divides /\ root.form = "product" /\ calls = <<>>

GoAccepts == Whole(text).type # NoGo
GoValue == IF divides /\ text.product THEN <<"elapsed-by-n-times-unit">> ELSE Whole(text).value

\* A method call runs the method the checker typed, once, or Go refuses it:
\* and it refuses exactly where emitCall takes the receiver for something else,
\* does not know a foreign handle for one, leaves a prefix open or a send inside
\* parentheses (emitCall, isContainerReceiver, isChannelReceiver, goMethodName).
\* Three lowerings pass Go and do something else: .copy() evaluates its
\* receiver twice, a user's strings.fromBytes converts its argument, and a
\* division by time.seconds(n) divides by n and multiplies by the unit.
CallsRunAsTyped ==
  /\ GoAccepts <=> \A i \in DOMAIN calls : ~RefusedFor(i)
  /\ GoAccepts /\ ~CopiesEffects /\ ~ConvertsArgument =>
       /\ Whole(text).effects = source.effects
       /\ ~DividesByProduct => GoValue = source.value
=============================================================================
