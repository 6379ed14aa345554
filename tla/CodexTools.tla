----------------------------- MODULE CodexTools -----------------------------
(* The tools of the client on their way to a provider and back              *)
(* (extension/codextool, and the tool conversions of protocol/openai).      *)
(*                                                                          *)
(* A provider knows functions only. A namespace becomes one function whose  *)
(* arguments name the action, a custom tool a function with a schema of its *)
(* own, apply_patch five of them; what the provider calls is turned back    *)
(* into the tool the client declared. Arguments are a record of the schema  *)
(* they follow: the field that carries the payload (key), the action named  *)
(* beside it, and the payload, whose form changes when it is rewritten.     *)
EXTENDS Naturals, SequencesExt

\* A tool the client declares: type, name, the actions of a namespace, and
\* what the grammar of a custom tool is recognised as.
DeclaredTool(type, name, actions, grammar) ==
    [type |-> type, name |-> name, actions |-> actions, grammar |-> grammar]

Nested == "nested_oneof"
Args(key, action, form, of) == [key |-> key, action |-> action, form |-> form, of |-> of]
NoArgs == Args("none", "", "plain", "")
\* A text, and arguments as the text of their JSON.
TextOf(form, of) == [form |-> form, of |-> of]
JSONOf(args) == TextOf("json", args.of)

\* CoreTool: kind and names are its annotations; kind "" has none.
CoreTool(name, kind, openai, ns, actions, key) ==
    [name |-> name, kind |-> kind, openai |-> openai, ns |-> ns,
     actions |-> actions, key |-> key]

PatchActions == <<"add_file", "delete_file", "update_file", "replace_file", "batch">>
PatchName(base, action) == base \o "_" \o action

\* ApplyPatchProxyCoreTools
PatchTools(tool) ==
    [n \in DOMAIN PatchActions |->
        CoreTool(PatchName(tool.name, PatchActions[n]), "apply_patch", tool.name, "",
                 <<>>, "operation")]

ConvertCustom(tool) ==
    CASE tool.name = "local_shell" ->
            <<CoreTool(tool.name, "local_shell", tool.name, "", <<>>, "command")>>
      [] tool.name # "local_shell" /\ tool.grammar = "apply_patch" -> PatchTools(tool)
      [] tool.name # "local_shell" /\ tool.grammar = "exec" ->
            <<CoreTool(tool.name, "exec", tool.name, "", <<>>, "source")>>
      [] OTHER -> <<CoreTool(tool.name, "raw", tool.name, "", <<>>, "input")>>

\* convertToolWithNamespace; a namespace without tools disappears.
ConvertTool(tool) ==
    CASE tool.type = "function" ->
            <<CoreTool(tool.name, "function", tool.name, "", <<>>, "params")>>
      [] tool.type = "namespace" ->
            IF tool.actions = <<>> THEN <<>>
            ELSE <<CoreTool(tool.name, Nested, tool.name, tool.name, tool.actions, "params")>>
      [] tool.type = "custom" -> ConvertCustom(tool)
      [] OTHER -> <<CoreTool(tool.type, "", "", "", <<>>, "params")>>

\* Of two tools with one name the first is offered, unless only the second
\* comes from a namespace.
AddTool(tools, tool) ==
    IF \A n \in DOMAIN tools : tools[n].name # tool.name THEN Append(tools, tool)
    ELSE [n \in DOMAIN tools |->
            IF tools[n].name = tool.name /\ tools[n].ns = "" /\ tool.ns # ""
            THEN tool ELSE tools[n]]

FlattenTools(declared) ==
    FoldLeft(AddTool, <<>>, FlattenSeq([n \in DOMAIN declared |-> ConvertTool(declared[n])]))

(***************************** The tool map ********************************)
\* BuildToolMapFromCore
Annotated(tools) == {t \in ToSet(tools) : t.kind # ""}
Known(tools, name) == \E t \in Annotated(tools) : t.name = name
Lookup(tools, name) == CHOOSE t \in Annotated(tools) : t.name = name

NamespacesWith(tools, action) ==
    {t.ns : t \in {u \in Annotated(tools) : u.kind = Nested /\ action \in ToSet(u.actions)}}

\* Mutant: an action of several namespaces is taken from any of them.
NamespaceOfFirst(tools, action) ==
    IF Known(tools, action) \/ action = "" \/ NamespacesWith(tools, action) = {} THEN ""
    ELSE CHOOSE ns \in NamespacesWith(tools, action) : TRUE

\* LookupNamespaceAction: the namespace of a bare action, "" if none or two
\* have it, or if a tool has that name.
NamespaceOfAction(tools, action) ==
    IF Known(tools, action) \/ action = "" THEN ""
    ELSE IF \E ns \in NamespacesWith(tools, action) : NamespacesWith(tools, action) = {ns}
    THEN CHOOSE ns \in NamespacesWith(tools, action) : TRUE ELSE ""

Call(name, ns, args) == [name |-> name, ns |-> ns, args |-> args]

\* DecodeNestedCall: the action beside the parameters; without one the call
\* keeps the name of the wrapper.
DecodeNested(tool, args) ==
    IF args.action = "" THEN Call(tool.name, tool.ns, args)
    ELSE Call(args.action, tool.ns,
              IF args.of = "" THEN NoArgs ELSE [args EXCEPT !.action = ""])

ValidArgs(args) == IF args.key = "invalid" THEN NoArgs ELSE args

\* CoreToolCallFromProvider
CallFromProvider(tools, name, given) ==
    LET args == ValidArgs(given)
    IN  IF ~Known(tools, name) THEN Call(name, NamespaceOfAction(tools, name), args)
        ELSE LET tool == Lookup(tools, name)
             IN  IF tool.kind = Nested THEN DecodeNested(tool, args)
                 ELSE Call(name, IF tool.kind = "function" THEN tool.ns ELSE "", args)

(*************************** Items for the client **************************)
InputFromRaw(args) == IF args.key = "input" THEN TextOf(args.form, args.of) ELSE JSONOf(args)
RebuildPatch(args) == IF args.key = "operation" THEN TextOf("patch", args.of) ELSE JSONOf(args)
RebuildExec(args) == IF args.key = "source" THEN TextOf("plain", args.of) ELSE JSONOf(args)
PatchNames == {PatchName("apply_patch", PatchActions[n]) : n \in DOMAIN PatchActions}
ExecNames == {"exec_code"}    \* any other name with the prefix exec_

\* RebuildGrammar decides by the name the provider called.
RebuildGrammar(name, args) ==
    IF name \in PatchNames THEN RebuildPatch(args)
    ELSE IF name \in ExecNames THEN RebuildExec(args)
    ELSE InputFromRaw(args)

NoText == TextOf("none", "")
Item(type, name, ns, args, input) ==
    [type |-> type, name |-> name, ns |-> ns, args |-> args, input |-> input]

\* localShellActionFromRaw
ShellAction(args) == IF args.key = "command" THEN args ELSE NoArgs

\* OutputItemFromBlock
ItemFromBlock(tools, call) ==
    IF ~Known(tools, call.name)
    THEN Item("function_call", call.name, NamespaceOfAction(tools, call.name), call.args, NoText)
    ELSE LET tool == Lookup(tools, call.name)
         IN  CASE tool.kind \in {"apply_patch", "exec"} ->
                    Item("custom_tool_call", tool.openai, "", NoArgs,
                         RebuildGrammar(call.name, call.args))
               [] tool.kind = "raw" ->
                    Item("custom_tool_call", tool.openai, "", NoArgs, InputFromRaw(call.args))
               [] tool.kind = Nested ->
                    LET inner == DecodeNested(tool, call.args)
                    IN  Item("function_call", inner.name, inner.ns, inner.args, NoText)
               [] OTHER -> Item("function_call", tool.openai, tool.ns, call.args, NoText)

\* buildToolOutputItem
IsLocalShell(tools, name) == Known(tools, name) /\ Lookup(tools, name).kind = "local_shell"
ItemOfCall(tools, call) ==
    IF call.ns # "" THEN Item("function_call", call.name, call.ns, call.args, NoText)
    ELSE IF IsLocalShell(tools, call.name)
    THEN Item("local_shell_call", "", "", ShellAction(call.args), NoText)
    ELSE ItemFromBlock(tools, call)

\* convertInput, of a call the client repeats: a custom call comes with its
\* input only, a shell call with its action and no name.
CallFromItem(item) ==
    Call(item.name, item.ns,
         CASE item.type = "custom_tool_call" ->
                IF item.input.of = "" THEN NoArgs
                ELSE Args("input", "", item.input.form, item.input.of)
           [] OTHER -> ValidArgs(item.args))
=============================================================================
