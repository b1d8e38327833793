----------------------------- MODULE MCServices -----------------------------
(***************************************************************************)
(* The components that do not share state in the models - proactive        *)
(* reviews, skills and pages, an MCP server, the two IM transports, the    *)
(* turns of a session, a Web session, the deletion of bindings - in one    *)
(* run: `which` names the one that moves, the others rest in their initial *)
(* state, so the state spaces add up and each is explored as it would be   *)
(* alone.                                                                  *)
(***************************************************************************)
EXTENDS ReviewWindows, McpWorker, WeixinBinding, FeishuConnection,
        FeishuAccount, AgentTurn, BindingDeletion, SkillEvolution, WeixinQr, WebSession,
        ProactivePages, TLC

VARIABLE which

MCWxFrom == <<1, 2>>
MCEvents == {[id |-> 1, app |-> 1, from |-> 1, chat |-> 1, code |-> TRUE],
             [id |-> 2, app |-> 1, from |-> 1, chat |-> 2, code |-> FALSE],
             [id |-> 3, app |-> 2, from |-> 2, chat |-> 3, code |-> TRUE]}

proactiveVars == <<reviewVars, skillVars, pageVars>>
channelVars == <<wxVars, qrVars, wsVars, fsVars, bindingVars>>
sessionVars == <<mcpVars, turnVars, webVars>>
servicesVars == <<which, proactiveVars, channelVars, sessionVars>>

Components == {"reviews", "skills", "weixin", "weixin codes", "feishu connection",
               "feishu account", "bindings", "mcp", "turns", "web", "pages"}

ServicesInit ==
  /\ which \in Components
  /\ ReviewInit /\ SkillInit /\ PagesInit /\ WxInit /\ QrInit /\ WsInit /\ FsInit
  /\ BindingInit /\ McpInit /\ TurnInit /\ WebInit
  /\ which # "reviews" => capability = "breakbeat"
  /\ which # "weixin codes" => acct.level = "none"

ReviewMoves == which = "reviews" /\ ReviewNext /\ UNCHANGED <<skillVars, pageVars, channelVars, sessionVars>>
SkillMoves == which = "skills" /\ SkillNext /\ UNCHANGED <<reviewVars, pageVars, channelVars, sessionVars>>
PagesMoves == which = "pages" /\ PagesNext /\ UNCHANGED <<reviewVars, skillVars, channelVars, sessionVars>>
WxMoves == which = "weixin" /\ WxNext /\ UNCHANGED <<proactiveVars, qrVars, wsVars, fsVars, bindingVars, sessionVars>>
QrMoves == which = "weixin codes" /\ QrNext /\ UNCHANGED <<proactiveVars, wxVars, wsVars, fsVars, bindingVars, sessionVars>>
WsMoves == which = "feishu connection" /\ WsNext /\ UNCHANGED <<proactiveVars, wxVars, qrVars, fsVars, bindingVars, sessionVars>>
FsMoves == which = "feishu account" /\ FsNext /\ UNCHANGED <<proactiveVars, wxVars, qrVars, wsVars, bindingVars, sessionVars>>
BindingMoves == which = "bindings" /\ BindingNext /\ UNCHANGED <<proactiveVars, wxVars, qrVars, wsVars, fsVars, sessionVars>>
McpMoves == which = "mcp" /\ McpNext /\ UNCHANGED <<proactiveVars, channelVars, turnVars, webVars>>
TurnMoves == which = "turns" /\ TurnNext /\ UNCHANGED <<proactiveVars, channelVars, mcpVars, webVars>>
WebMoves == which = "web" /\ WebNext /\ UNCHANGED <<proactiveVars, channelVars, mcpVars, turnVars>>

ServicesNext ==
  /\ UNCHANGED which
  /\ \/ ReviewMoves \/ SkillMoves \/ WxMoves \/ QrMoves \/ WsMoves \/ FsMoves
     \/ BindingMoves \/ McpMoves \/ TurnMoves \/ WebMoves \/ PagesMoves

ServicesSpec == ServicesInit /\ [][ServicesNext]_servicesVars
=============================================================================
