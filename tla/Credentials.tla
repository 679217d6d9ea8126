----------------------------- MODULE Credentials -----------------------------
(***************************************************************************)
(* xrpl-core's CredentialService: the issuer creates a credential for a    *)
(* subject, the subject accepts it, the issuer revokes it, and a verifier  *)
(* looks it up with verifyCredential: it reads the subject's objects from  *)
(* the ledger and compares the expiration with its own clock afterwards.   *)
(***************************************************************************)
EXTENDS Naturals, FiniteSets

CONSTANTS
  Subject,     \* whom credentials are issued to
  Issuer,      \* who issues them
  Lookup,      \* verifyCredential calls in progress
  MaxClock,    \* the clock's last tick
  MaxIssued    \* bound on the credentials issued

VARIABLES
  ledger,    \* the credential objects on the ledger
  lookups,   \* what each lookup is doing
  clock,     \* the time, in Ripple seconds
  issued     \* how many credentials were created

vars == <<ledger, lookups, clock, issued>>

Idle == [pc |-> "idle"]
Never == MaxClock + 1

Init ==
  /\ ledger = {}
  /\ lookups = [l \in Lookup |-> Idle]
  /\ clock = 0
  /\ issued = 0

Go(l, r) == lookups' = [lookups EXCEPT ![l] = r]
Of(i, s) == {c \in ledger : c.issuer = i /\ c.subject = s}

\* issue: CredentialCreate, with or without an expiration.  The ledger refuses
\* a second credential of the same type, and one that has already expired.
issue(i, s) ==
  /\ issued < MaxIssued /\ Of(i, s) = {}
  /\ \E e \in clock + 1 .. Never :
       ledger' = ledger \cup {[issuer |-> i, subject |-> s, expiration |-> e, accepted |-> FALSE]}
  /\ issued' = issued + 1
  /\ UNCHANGED <<lookups, clock>>

\* accept: CredentialAccept, signed by the subject, of an unexpired credential.
accept(i, s) ==
  /\ \E c \in Of(i, s) :
       /\ ~c.accepted /\ clock < c.expiration
       /\ ledger' = (ledger \ {c}) \cup {[c EXCEPT !.accepted = TRUE]}
  /\ UNCHANGED <<lookups, clock, issued>>

\* revoke: CredentialDelete by the issuer.  Lookups under way may have read it.
revoke(i, s) ==
  /\ Of(i, s) # {} /\ ledger' = ledger \ Of(i, s)
  /\ UNCHANGED <<lookups, clock, issued>>

Tick ==
  /\ clock < MaxClock /\ clock' = clock + 1
  /\ UNCHANGED <<ledger, lookups, issued>>

\* verifyCredential: account_objects of the subject, then the match.
verifyCredential(l, i, s) ==
  /\ lookups[l].pc \in {"idle", "done"}
  /\ LET found == Of(i, s) IN
     Go(l, IF found = {} THEN [pc |-> "done", result |-> {}]
           ELSE [pc |-> "check", match |-> CHOOSE c \in found : TRUE, issuer |-> i, subject |-> s])
  /\ UNCHANGED <<ledger, clock, issued>>

\* Mutant: the expiration is not compared with the clock.
NoClock(l) ==
  /\ lookups[l].pc = "check"
  /\ Go(l, [pc |-> "done", result |-> {lookups[l].match}, at |-> clock,
            issuer |-> lookups[l].issuer, subject |-> lookups[l].subject])
  /\ UNCHANGED <<ledger, clock, issued>>

\* The expiration is compared with the caller's clock when the answer is there.
CompareExpiration(l) ==
  /\ lookups[l].pc = "check"
  /\ LET r == lookups[l] IN
     Go(l, IF r.match.expiration <= clock THEN [pc |-> "done", result |-> {}]
           ELSE [pc |-> "done", result |-> {r.match}, at |-> clock,
                 issuer |-> r.issuer, subject |-> r.subject])
  /\ UNCHANGED <<ledger, clock, issued>>

Next ==
  \/ Tick
  \/ \E i \in Issuer, s \in Subject :
       \/ issue(i, s) \/ accept(i, s) \/ revoke(i, s)
       \/ \E l \in Lookup : verifyCredential(l, i, s)
  \/ \E l \in Lookup : CompareExpiration(l)

Spec == Init /\ [][Next]_vars

-----------------------------------------------------------------------------

Returned == {l \in Lookup : lookups[l].pc = "done" /\ lookups[l].result # {}}

(***************************************************************************)
(* What a lookup returns is the credential asked for, from that issuer to  *)
(* that subject, and had not expired when the call returned, however long  *)
(* the answer of account_objects took (CredentialService.ts:149-158).      *)
(***************************************************************************)
VerifiedIsUnexpired ==
  \A l \in Returned : \A c \in lookups[l].result :
    /\ c.issuer = lookups[l].issuer /\ c.subject = lookups[l].subject
    /\ lookups[l].at < c.expiration

(***************************************************************************)
(* "Returns the object if active" (CredentialService.ts:140), where it is  *)
(* the acceptance that "makes it active" (line 23): a credential returned  *)
(* was accepted by its subject.                                            *)
(***************************************************************************)
VerifiedIsActive == \A l \in Returned : \A c \in lookups[l].result : c.accepted
=============================================================================
