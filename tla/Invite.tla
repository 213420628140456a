------------------------------- MODULE Invite -------------------------------
(***************************************************************************)
(* The invite view of astakos/im/views/im.py: a POST checks that the      *)
(* inviter has invitations left, then calls invite_func. Several requests *)
(* of one inviter may run at once in separate server processes.            *)
(*                                                                         *)
(* request.user is the inviter's row as the request loaded it; the check  *)
(* reads that copy. invite_func is not in this repository: from the        *)
(* view's docstring it sends the invitation and then takes one off the    *)
(* inviter's count. It is modelled as one atomic step on the stored row,  *)
(* the most favourable reading.                                            *)
(***************************************************************************)
EXTENDS Integers

CONSTANTS
    Requests,     \* concurrent requests of the inviter
    Allowance     \* the inviter's invitations at the start

VARIABLES
    invitations,  \* the inviter's stored invitations count
    sent,         \* invitations sent
    rpc,          \* rpc[r]: "start", "loaded", "done"
    inviter       \* inviter[r]: the count in request r's copy of the user

vars == <<invitations, sent, rpc, inviter>>

Init ==
    /\ invitations = Allowance
    /\ sent = 0
    /\ rpc = [r \in Requests |-> "start"]
    /\ inviter = [r \in Requests |-> 0]

(* inviter = request.user: the user row as of now.                         *)
LoadUser(r) ==
    /\ rpc[r] = "start"
    /\ rpc' = [rpc EXCEPT ![r] = "loaded"]
    /\ inviter' = [inviter EXCEPT ![r] = invitations]
    /\ UNCHANGED <<invitations, sent>>

(* invite_func(inviter, email, realname): the invitation goes out and the *)
(* stored count drops by one.                                               *)
invite_func ==
    /\ sent' = sent + 1
    /\ invitations' = invitations - 1

(* Mutant: the POST branch without the check.                              *)
PostValidNoCheck(r) ==
    /\ rpc[r] = "loaded"
    /\ invite_func
    /\ rpc' = [rpc EXCEPT ![r] = "done"]
    /\ UNCHANGED inviter

(* A POST with a valid form: invite_func when the copy shows invitations  *)
(* left, else the MAX_INVITATION_NUMBER_REACHED message.                  *)
PostValid(r) ==
    /\ rpc[r] = "loaded"
    /\ IF inviter[r] > 0 THEN invite_func ELSE UNCHANGED <<invitations, sent>>
    /\ rpc' = [rpc EXCEPT ![r] = "done"]
    /\ UNCHANGED inviter

(* A GET, or a POST whose form does not validate: nothing is sent.        *)
PostInvalid(r) ==
    /\ rpc[r] = "loaded"
    /\ rpc' = [rpc EXCEPT ![r] = "done"]
    /\ UNCHANGED <<invitations, sent, inviter>>

(* The process serves the inviter's next request.                          *)
NextRequest(r) ==
    /\ rpc[r] = "done"
    /\ rpc' = [rpc EXCEPT ![r] = "start"]
    /\ UNCHANGED <<invitations, sent, inviter>>

Next ==
    \E r \in Requests :
        LoadUser(r) \/ PostValid(r) \/ PostInvalid(r) \/ NextRequest(r)

Spec == Init /\ [][Next]_vars

-----------------------------------------------------------------------------
TypeOK ==
    /\ invitations \in Int /\ sent \in Nat
    /\ rpc \in [Requests -> {"start", "loaded", "done"}]
    /\ inviter \in [Requests -> Int]

(* The docstring: a POST "checks whether the user has not run out of      *)
(* invitations and then sends an invitation". The inviter never sends      *)
(* more invitations than it was given, whatever requests overlap.         *)
SentWithinAllowance == sent <= Allowance
=============================================================================
