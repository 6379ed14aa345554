--------------------------- MODULE MCConversation ---------------------------
(* Small sessions for Conversation: some are about the history, with one    *)
(* tool and long answers, some about many tools, with short ones.           *)
EXTENDS Conversation

Params(action) == Args("params", action, "plain", "p")
Function(name) == DeclaredTool("function", name, <<>>, "")
Namespace(name, actions) == DeclaredTool("namespace", name, actions, "")
Custom(name, grammar) == DeclaredTool("custom", name, <<>>, grammar)

MCSession(proto, feature, deepseek, reasoner, declared, says, calls, blocks, most) ==
    [proto |-> proto, feature |-> feature, deepseek |-> deepseek, reasoner |-> reasoner,
     declared |-> declared, says |-> says, calls |-> calls, blocks |-> blocks, most |-> most]

OneTool == <<Function("f")>>
OneCall == {Call("f", "", Params(""))}
SaysOf(proto) ==
    CASE proto = "chat" -> {"reason", "text"}
      [] proto = "anthropic" -> {"reason", "text", "empty"}
      [] OTHER -> {"text", "empty"}
HistorySessions ==
    {MCSession(proto, "plain", deepseek, reasoner, OneTool, SaysOf(proto), OneCall, 3, 5) :
        proto \in {"chat", "anthropic", "google"}, deepseek, reasoner \in BOOLEAN}

SearchCalls == OneCall \cup {Call("tavily_search", "", Params(""))}
VisualCalls == OneCall \cup {Call("visual_qa", "", Params(""))}
LoopSessions ==
    {MCSession(proto, feature, TRUE, FALSE, OneTool, {"reason", "text"} \cap SaysOf(proto),
               IF feature = "search" THEN SearchCalls ELSE VisualCalls, 2, 4) :
        proto \in {"chat", "anthropic", "google"}, feature \in {"search", "visual"}}

ManyTools ==
    <<Function("f"), Namespace("files", <<"read", "list">>), Namespace("mail", <<"read", "f">>),
      Custom("note", "raw"), Custom("apply_patch", "apply_patch"), Custom("exec", "exec"),
      Custom("exec_code", "exec"), Custom("local_shell", "")>>
ManyCalls ==
    {Call(name, "", Params("")) : name \in {"f", "read", "list"}}
        \cup {Call("files", "", Params(action)) : action \in {"", "read", "list"}}
        \cup {Call("mail", "", Params("f")),
              Call("note", "", Args("input", "", "plain", "p")),
              Call("note", "", Args("invalid", "", "plain", "p")),
              Call("apply_patch_add_file", "", Args("operation", "", "plain", "p")),
              Call("apply_patch", "", Args("input", "", "patch", "p")),
              Call("exec", "", Args("source", "", "plain", "p")),
              Call("exec_code", "", Args("source", "", "plain", "p")),
              Call("local_shell", "", Args("command", "", "plain", "p"))}
ToolSessions ==
    {MCSession(proto, "plain", FALSE, FALSE, ManyTools, {}, ManyCalls, 2, 3) :
        proto \in {"chat", "anthropic", "google"}}

MCSetups == HistorySessions \cup LoopSessions \cup ToolSessions
=============================================================================
