------------------------------ MODULE Conversation ------------------------------
(***************************************************************************)
(* A conversation: the tools at work on the WorkContext beside the         *)
(* messages of the AgentContext.  The two share no state: every result a   *)
(* tool can give is among those the messages can be given.                 *)
(***************************************************************************)
EXTENDS WorkTools, AgentContext

conversationVars == <<workVars, contextVars>>

ConversationInit == WorkInit /\ ContextInit
ToolsStep == WorkNext /\ UNCHANGED contextVars
MessagesStep == ContextNext /\ UNCHANGED workVars
ConversationSpec == ConversationInit /\ [][ToolsStep \/ MessagesStep]_conversationVars

(* The types of the inventory, the calls in flight and the history.        *)
WorkTypeOK == TaskTypeOK /\ TerminalTypeOK /\ ContextTypeOK
=============================================================================
