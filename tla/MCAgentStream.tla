---------------------------- MODULE MCAgentStream ----------------------------
(* The answers streamed into a conversation, and the conversation.  The two  *)
(* modules share no variable, so one run explores them side by side: part    *)
(* says which one a behaviour is about, and the other keeps its initial      *)
(* values.                                                                   *)
EXTENDS AgentStream, Conversations, TLC

VARIABLE part

chatVars == <<part, vars, talkVars>>

ChatInit == part \in {"stream", "conversation"} /\ Init /\ TalkInit

ChatNext ==
  /\ UNCHANGED part
  /\ \/ part = "stream" /\ Next /\ UNCHANGED talkVars
     \/ part = "conversation" /\ TalkNext /\ UNCHANGED vars

ChatSpec == ChatInit /\ [][ChatNext]_chatVars

Symmetric == Permutations(Servers) \union Permutations(Sayings) \union Permutations(Cancels)
=============================================================================
