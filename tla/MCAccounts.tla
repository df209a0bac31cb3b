----------------------------- MODULE MCAccounts -----------------------------
(* Accounts in three families of behaviours. *)
EXTENDS Accounts

CreatedInOrder == <<<<"ann", "">>, <<"bob", "x">>>>

Sessions(table) == {t \in Tokens : table[t] # NoSession}
Online == {id \in Id : client'[id] # Off}
NoCreation ==
  /\ lastId' = Len(CreatedInOrder)
  /\ request' # Idle => request'.op # "create"
  /\ game' # Idle => game'.op # "create"
MailsKept == \A id \in Id : Exists(id)' => accounts'[id].mail = IF id = 1 THEN "" ELSE "x"

AccountsInFamily ==
  \* administrators among themselves, and over game sessions
  \/ Sessions(members') = {} /\ passwords' = 0 /\ NoCreation /\ MailsKept
  \* sessions of both APIs, and passwords
  \/ NoCreation /\ MailsKept /\ Online = {} /\ game' = Idle
  \* creations and deletions
  \/ /\ Sessions(admins') \cup Sessions(members') \subseteq {1}
     /\ Cardinality(Online) <= 1 /\ passwords' <= 1
     /\ \A id \in Id :
          Exists(id)' => ~accounts'[id].banned /\ (accounts'[id].admin <=> id = 1)
=============================================================================
