----------------------------- MODULE Activation -----------------------------
(***************************************************************************)
(* Email activation in astakos: the activate, send_activation,            *)
(* update_token and logout views of views/im.py, with prepare_response of *)
(* im/util.py, for one account and the browsers that send it requests at   *)
(* once.                                                                   *)
(*                                                                         *)
(* The three writing views run under transaction.commit_on_success and     *)
(* read the AstakosUser row with select_for_update(): the row lock is     *)
(* held from that read until the view returns and the transaction ends.   *)
(* user_logic (verify, send_verification_mail) and the auth decorators    *)
(* are not in this repository: verify sets email_verified and leaves the  *)
(* account active or pending moderation, or raises when notify_user       *)
(* cannot send its mail, which rolls the transaction back;                 *)
(* valid_astakos_user_required lets a logged-in, active user through.      *)
(***************************************************************************)
EXTENDS Naturals

CONSTANTS
    Browsers,   \* each browser has one session and one request at a time
    Tokens,     \* auth_token values; renew_token picks a different one
    NONE

VARIABLES
    row,        \* the stored AstakosUser row
    loggedIn,   \* browsers whose session is logged in
    rpc,        \* rpc[b]: "idle", or the view b's request is in
    arg,        \* arg[b]: the auth (or user_id) parameter of b's request
    auth,       \* auth[b]: request.user.is_authenticated() for b's request
    snap,       \* snap[b]: the row b's select_for_update() returned, or NONE
    lock,       \* the browser whose transaction holds the row lock, or NONE
    verifies,   \* history: user_logic.verify calls that committed
    mailedVerified \* history: a verification mail went to a verified account

vars == <<row, loggedIn, rpc, arg, auth, snap, lock, verifies, mailedVerified>>

Views == {"activate", "send_activation", "update_token"}
\* "good" names this account (its verification_code or id), "bad" no
\* account, "none" a request without the auth parameter.
Args == {"good", "bad", "none"}
UserRow == [email_verified : BOOLEAN, is_active : BOOLEAN, auth_token : Tokens \cup {NONE}]

\* select_for_update(): wait for the row lock and take it.
Acquire(b) == lock = NONE /\ lock' = b
\* The view returns: commit_on_success ends the transaction.
Release(b) == lock' = IF lock = b THEN NONE ELSE lock

\* prepare_response(request, user, next, renew): with renew (or no token,
\* or an expired one) renew_token() and save(); then authenticate and
\* login() the session.
prepare_response(b, u, renew) ==
    /\ row' = IF renew \/ u.auth_token = NONE
                 THEN [u EXCEPT !.auth_token = CHOOSE t \in Tokens : t # u.auth_token]
                 ELSE u
    /\ loggedIn' = loggedIn \cup {b}

Init ==
    /\ row \in [email_verified : {FALSE}, is_active : {FALSE}, auth_token : Tokens \cup {NONE}]
    /\ loggedIn = {}
    /\ rpc = [b \in Browsers |-> "idle"]
    /\ arg = [b \in Browsers |-> NONE]
    /\ auth = [b \in Browsers |-> FALSE]
    /\ snap = [b \in Browsers |-> NONE]
    /\ lock = NONE
    /\ verifies = 0
    /\ mailedVerified = FALSE

Done(b) ==
    /\ rpc' = [rpc EXCEPT ![b] = "idle"]
    /\ snap' = [snap EXCEPT ![b] = NONE]
    /\ Release(b)

-----------------------------------------------------------------------------
(* A browser sends a request to a view; request.user is its session's.    *)
(* update_token passes valid_astakos_user_required only for a logged-in,  *)
(* active user.                                                            *)
Request(b) ==
    /\ rpc[b] = "idle"
    /\ \E v \in Views, a \in Args :
          /\ v = "update_token" => b \in loggedIn /\ row.is_active
          /\ rpc' = [rpc EXCEPT ![b] = v]
          /\ arg' = [arg EXCEPT ![b] = a]
    /\ auth' = [auth EXCEPT ![b] = b \in loggedIn]
    /\ UNCHANGED <<row, loggedIn, snap, lock, verifies, mailedVerified>>

(* activate without a token (PermissionDenied), from a logged-in session  *)
(* (LOGGED_IN_WARNING), or with a code no account has                     *)
(* (INVALID_ACTIVATION_KEY): no row is locked or written.                  *)
ActivateRejected(b) ==
    /\ rpc[b] = "activate" /\ snap[b] = NONE
    /\ arg[b] # "good" \/ auth[b]
    /\ rpc' = [rpc EXCEPT ![b] = "idle"]
    /\ UNCHANGED <<row, loggedIn, arg, auth, snap, lock, verifies, mailedVerified>>

\* Mutant: activate reads the row with get(), without select_for_update.
ActivateLockUnlocked(b) ==
    /\ rpc[b] = "activate" /\ snap[b] = NONE
    /\ arg[b] = "good" /\ ~auth[b]
    /\ snap' = [snap EXCEPT ![b] = row]
    /\ UNCHANGED <<row, loggedIn, rpc, arg, auth, lock, verifies, mailedVerified>>

(* activate: select_for_update().get(verification_code=token).            *)
ActivateLock(b) ==
    /\ rpc[b] = "activate" /\ snap[b] = NONE
    /\ arg[b] = "good" /\ ~auth[b]
    /\ Acquire(b)
    /\ snap' = [snap EXCEPT ![b] = row]
    /\ UNCHANGED <<row, loggedIn, rpc, arg, auth, verifies, mailedVerified>>

(* activate: the account is already verified (ACCOUNT_ALREADY_VERIFIED).   *)
ActivateAlreadyVerified(b) ==
    /\ rpc[b] = "activate" /\ snap[b] # NONE
    /\ snap[b].email_verified
    /\ Done(b)
    /\ UNCHANGED <<row, loggedIn, arg, auth, verifies, mailedVerified>>

(* activate: user_logic.verify, then, if the account is active,           *)
(* prepare_response with renew=True logs this session in.                  *)
ActivateVerify(b) ==
    /\ rpc[b] = "activate" /\ snap[b] # NONE
    /\ ~snap[b].email_verified
    /\ \E active \in BOOLEAN :
          LET u == [snap[b] EXCEPT !.email_verified = TRUE, !.is_active = active]
          IN  IF active THEN prepare_response(b, u, TRUE)
                        ELSE row' = u /\ UNCHANGED loggedIn
    /\ verifies' = verifies + 1
    /\ Done(b)
    /\ UNCHANGED <<arg, auth, mailedVerified>>

(* activate: verify raises (the notification mail fails): the transaction *)
(* rolls back and the row keeps its state.                                 *)
ActivateVerifyFails(b) ==
    /\ rpc[b] = "activate" /\ snap[b] # NONE
    /\ ~snap[b].email_verified
    /\ Done(b)
    /\ UNCHANGED <<row, loggedIn, arg, auth, verifies, mailedVerified>>

(* send_activation from a logged-in session, or for an unknown user_id    *)
(* (ACCOUNT_UNKNOWN): a redirect, nothing locked or sent.                  *)
SendRejected(b) ==
    /\ rpc[b] = "send_activation" /\ snap[b] = NONE
    /\ arg[b] # "good" \/ auth[b]
    /\ rpc' = [rpc EXCEPT ![b] = "idle"]
    /\ UNCHANGED <<row, loggedIn, arg, auth, snap, lock, verifies, mailedVerified>>

\* Mutant: send_activation reads the row with get(), without the lock.
SendLockUnlocked(b) ==
    /\ rpc[b] = "send_activation" /\ snap[b] = NONE
    /\ arg[b] = "good" /\ ~auth[b]
    /\ snap' = [snap EXCEPT ![b] = row]
    /\ UNCHANGED <<row, loggedIn, rpc, arg, auth, lock, verifies, mailedVerified>>

(* send_activation: select_for_update().get(id=user_id).                   *)
SendLock(b) ==
    /\ rpc[b] = "send_activation" /\ snap[b] = NONE
    /\ arg[b] = "good" /\ ~auth[b]
    /\ Acquire(b)
    /\ snap' = [snap EXCEPT ![b] = row]
    /\ UNCHANGED <<row, loggedIn, rpc, arg, auth, verifies, mailedVerified>>

(* send_activation: ACCOUNT_ALREADY_VERIFIED, or send_verification_mail.   *)
SendFinish(b) ==
    /\ rpc[b] = "send_activation" /\ snap[b] # NONE
    /\ mailedVerified' = (mailedVerified \/ (~snap[b].email_verified /\ row.email_verified))
    /\ Done(b)
    /\ UNCHANGED <<row, loggedIn, arg, auth, verifies>>

(* update_token: select_for_update().get(id=request.user.id).              *)
UpdateLock(b) ==
    /\ rpc[b] = "update_token" /\ snap[b] = NONE
    /\ Acquire(b)
    /\ snap' = [snap EXCEPT ![b] = row]
    /\ UNCHANGED <<row, loggedIn, rpc, arg, auth, verifies, mailedVerified>>

(* update_token: renew_token() and save().                                 *)
UpdateToken(b) ==
    /\ rpc[b] = "update_token" /\ snap[b] # NONE
    /\ row' = [snap[b] EXCEPT !.auth_token = CHOOSE t \in Tokens : t # snap[b].auth_token]
    /\ Done(b)
    /\ UNCHANGED <<loggedIn, arg, auth, verifies, mailedVerified>>

(* logout: auth_logout() for an authenticated session, else a redirect.    *)
Logout(b) ==
    /\ rpc[b] = "idle"
    /\ loggedIn' = loggedIn \ {b}
    /\ UNCHANGED <<row, rpc, arg, auth, snap, lock, verifies, mailedVerified>>

Step(b) ==
    \/ ActivateRejected(b) \/ ActivateLock(b) \/ ActivateAlreadyVerified(b)
    \/ ActivateVerify(b) \/ ActivateVerifyFails(b)
    \/ SendRejected(b) \/ SendLock(b) \/ SendFinish(b)
    \/ UpdateLock(b) \/ UpdateToken(b)

Next == \E b \in Browsers : Request(b) \/ Logout(b) \/ Step(b)

Spec == Init /\ [][Next]_vars

-----------------------------------------------------------------------------
TypeOK ==
    /\ row \in UserRow
    /\ loggedIn \subseteq Browsers
    /\ rpc \in [Browsers -> Views \cup {"idle"}]
    /\ arg \in [Browsers -> Args \cup {NONE}]
    /\ auth \in [Browsers -> BOOLEAN]
    /\ snap \in [Browsers -> UserRow \cup {NONE}]
    /\ lock \in Browsers \cup {NONE}
    /\ \A b \in Browsers : snap[b] # NONE => lock = b
    /\ verifies \in Nat /\ mailedVerified \in BOOLEAN

(* Two activation links clicked at once verify the account once: activate *)
(* reads email_verified under select_for_update, so the second request    *)
(* sees the first one's commit and user_logic.verify (welcome mail,       *)
(* helpdesk notification, token renewal) runs once.                        *)
VerifiedOnce == verifies <= 1

(* send_activation never mails a verification link for an account whose  *)
(* verification committed while the view was deciding to send it.          *)
MailOnlyUnverified == ~mailedVerified

=============================================================================
