--------------------------- MODULE ApprovalTerms ---------------------------
(***************************************************************************)
(* The approval-terms pages of astakos: the approval_terms view of         *)
(* views/im.py with _approval_terms_post, and get_latest_terms and         *)
(* has_signed_terms of im/util.py, for one logged-in user whose browser    *)
(* tabs send requests that the server handles at once.                     *)
(*                                                                         *)
(* ApprovalTerms rows are added by an administrator, with the date they   *)
(* take effect. Each request loads its own copy of the user row           *)
(* (request.user) when it starts; Model.save() writes every field of that *)
(* copy back. request.user.signed_terms, the check the GET page makes, is *)
(* taken to be has_signed_terms(request.user). SignApprovalTermsForm is    *)
(* not in this repository: a valid form sets has_signed_terms and dates    *)
(* the signature now.                                                      *)
(***************************************************************************)
EXTENDS Naturals, Sequences, FiniteSets

CONSTANTS
    Tabs,       \* the user's browser tabs, each with at most one request
    MaxTerms,   \* bound on the ApprovalTerms rows
    MaxTime,    \* bound on datetime.now()
    NONE

VARIABLES
    terms,   \* terms[i]: the date of the ApprovalTerms row with id i
    clock,   \* datetime.now()
    user,    \* the stored AstakosUser row
    rpc,     \* rpc[t]: "idle", or the method of t's request in progress
    copy,    \* copy[t]: request.user as t's request loaded it
    url,     \* url[t]: the term_id of the page t shows, or NONE
    form,    \* form[t]: the terms id whose signing form t displays, or NONE
    agreed   \* history: the terms ids whose signing form the user submitted

vars == <<terms, clock, user, rpc, copy, url, form, agreed>>

Ids == 1..MaxTerms
UserRow == [has_signed_terms : BOOLEAN, date_signed_terms : (0..MaxTime) \cup {NONE}]

(* get_latest_terms(): the row with the highest id, or None.               *)
get_latest_terms == IF terms = <<>> THEN NONE ELSE Len(terms)

(* has_signed_terms(u): no terms, or a signature dated no earlier than the *)
(* latest terms.                                                           *)
has_signed_terms(u) ==
    \/ get_latest_terms = NONE
    \/ /\ u.has_signed_terms
       /\ u.date_signed_terms # NONE
       /\ ~(u.date_signed_terms < terms[get_latest_terms])

(* The branch of has_signed_terms that clears the flag and saves u.        *)
SignatureExpired(u) ==
    /\ get_latest_terms # NONE
    /\ u.has_signed_terms
    /\ u.date_signed_terms # NONE
    /\ u.date_signed_terms < terms[get_latest_terms]

(* The row has_signed_terms(u) leaves stored: u saved with the flag       *)
(* cleared when the signature predates the latest terms.                   *)
CheckSave(u) == IF SignatureExpired(u) THEN [u EXCEPT !.has_signed_terms = FALSE] ELSE user

(* terms_record: the latest row without a term_id, else the row with that *)
(* id; None when there is none.                                            *)
TermsRecord(t) ==
    CASE url[t] = NONE              -> get_latest_terms
      [] url[t] <= Len(terms)       -> url[t]
      [] OTHER                      -> NONE

Init ==
    /\ terms = <<>>
    /\ clock = 0
    /\ user = [has_signed_terms |-> FALSE, date_signed_terms |-> NONE]
    /\ rpc = [t \in Tabs |-> "idle"]
    /\ copy = [t \in Tabs |-> user]
    /\ url = [t \in Tabs |-> NONE]
    /\ form = [t \in Tabs |-> NONE]
    /\ agreed = {}

-----------------------------------------------------------------------------
(* A tab opens /approval_terms[/term_id] (a GET), or posts the form it    *)
(* displays; the request loads request.user.                               *)
Request(t) ==
    /\ rpc[t] = "idle"
    /\ copy' = [copy EXCEPT ![t] = user]
    /\ \/ /\ rpc' = [rpc EXCEPT ![t] = "GET"]
          /\ \E id \in {NONE} \cup Ids : url' = [url EXCEPT ![t] = id]
       \/ /\ form[t] # NONE
          /\ rpc' = [rpc EXCEPT ![t] = "POST"]
          /\ UNCHANGED url
    /\ UNCHANGED <<terms, clock, user, form, agreed>>

(* No terms_record: the NO_APPROVAL_TERMS message and a redirect to index. *)
NoTermsRecord(t) ==
    /\ rpc[t] # "idle"
    /\ TermsRecord(t) = NONE
    /\ rpc' = [rpc EXCEPT ![t] = "idle"]
    /\ form' = [form EXCEPT ![t] = NONE]
    /\ url' = [url EXCEPT ![t] = NONE]
    /\ UNCHANGED <<terms, clock, user, copy, agreed>>

(* open(terms_record.location) raises IOError: the page renders without   *)
(* terms or form.                                                          *)
TermsFileMissing(t) ==
    /\ rpc[t] # "idle"
    /\ TermsRecord(t) # NONE
    /\ rpc' = [rpc EXCEPT ![t] = "idle"]
    /\ form' = [form EXCEPT ![t] = NONE]
    /\ UNCHANGED <<terms, clock, user, copy, url, agreed>>

(* A GET renders terms_record, with the signing form when                 *)
(* request.user.signed_terms is false; the check saves request.user when  *)
(* the signature it holds has expired.                                     *)
ShowTerms(t) ==
    /\ rpc[t] = "GET"
    /\ TermsRecord(t) # NONE
    /\ user' = CheckSave(copy[t])
    /\ form' = [form EXCEPT ![t] = IF has_signed_terms(copy[t]) THEN NONE ELSE TermsRecord(t)]
    /\ rpc' = [rpc EXCEPT ![t] = "idle"]
    /\ UNCHANGED <<terms, clock, copy, url, agreed>>

(* _approval_terms_post with a valid form: form.save() writes              *)
(* request.user with the flag set and the signature dated now, and the    *)
(* tab is redirected to next.                                              *)
SignTerms(t) ==
    /\ rpc[t] = "POST"
    /\ TermsRecord(t) # NONE
    /\ user' = [copy[t] EXCEPT !.has_signed_terms = TRUE, !.date_signed_terms = clock]
    /\ agreed' = agreed \cup {form[t]}
    /\ form' = [form EXCEPT ![t] = NONE]
    /\ url' = [url EXCEPT ![t] = NONE]
    /\ rpc' = [rpc EXCEPT ![t] = "idle"]
    /\ UNCHANGED <<terms, clock, copy>>

(* _approval_terms_post with an invalid form (the box left unticked): the *)
(* page renders again, with the terms this request read.                   *)
SignInvalid(t) ==
    /\ rpc[t] = "POST"
    /\ TermsRecord(t) # NONE
    /\ form' = [form EXCEPT ![t] = TermsRecord(t)]
    /\ rpc' = [rpc EXCEPT ![t] = "idle"]
    /\ UNCHANGED <<terms, clock, user, copy, url, agreed>>

(* An administrator adds terms. datetime.now() has microsecond resolution: *)
(* the new terms are dated after every time read before.                   *)
AddTerms ==
    /\ Len(terms) < MaxTerms
    /\ clock < MaxTime
    /\ clock' = clock + 1
    /\ terms' = Append(terms, clock + 1)
    /\ UNCHANGED <<user, rpc, copy, url, form, agreed>>

Tick ==
    /\ clock < MaxTime
    /\ clock' = clock + 1
    /\ UNCHANGED <<terms, user, rpc, copy, url, form, agreed>>

Next ==
    \/ \E t \in Tabs :
          \/ Request(t) \/ NoTermsRecord(t) \/ TermsFileMissing(t)
          \/ ShowTerms(t) \/ SignTerms(t) \/ SignInvalid(t)
    \/ AddTerms
    \/ Tick

Spec == Init /\ [][Next]_vars

-----------------------------------------------------------------------------
TypeOK ==
    /\ terms \in Seq(0..MaxTime) /\ Len(terms) <= MaxTerms
    /\ clock \in 0..MaxTime
    /\ user \in UserRow /\ copy \in [Tabs -> UserRow]
    /\ rpc \in [Tabs -> {"idle", "GET", "POST"}]
    /\ url \in [Tabs -> Ids \cup {NONE}] /\ form \in [Tabs -> Ids \cup {NONE}]
    /\ agreed \subseteq Ids

(* has_signed_terms lets the user through only when the latest terms are  *)
(* ones whose signing form the user submitted: a signature dated now      *)
(* must not count for terms the signed page did not show.                  *)
SignedTermsSeen ==
    has_signed_terms(user) /\ get_latest_terms # NONE => get_latest_terms \in agreed

(* A signature that covers the latest terms stays valid until new terms   *)
(* are added: no request of the user takes it away.                        *)
SignatureKept ==
    [][has_signed_terms(user) /\ terms' = terms => has_signed_terms(user)']_vars
=============================================================================
