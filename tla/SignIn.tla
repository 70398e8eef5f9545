------------------------------- MODULE SignIn -------------------------------
(***************************************************************************)
(* Sign-in with the browser and sign-out: crates/sigit-agent               *)
(* (browser_auth.rs, auth.rs, credentials.rs), crates/cli (main.rs,        *)
(* account.rs).                                                            *)
(*                                                                         *)
(* Sign-ins run next to each other and next to a sign-out.  Each waits for *)
(* its browser on a thread of its own, which goes on when nobody waits for *)
(* the sign-in any more.  The account server, the browser and the client   *)
(* that shows the page are external.                                       *)
(***************************************************************************)
EXTENDS Naturals, FiniteSets

CONSTANTS
    Flows,      \* sign-ins, numbered: a flow's token is its number
    SignedOut   \* no credentials

ASSUME SignInAssumption == Flows \subseteq Nat \ {0} /\ SignedOut \notin Flows

VARIABLES
    flows,      \* per flow, where it is
    consent,    \* per flow: whether the client was asked, and what it answered
    thread,     \* per flow, wait_for_code: "none", "listens", "has_code" or "ended"
    pages,      \* per flow, what the browser was shown last
    stored,     \* credentials.toml: the flow that stored it
    signOut,    \* end_session: [pc, token]
    valid,      \* the tokens the account server accepts
    ever        \* history variable: the flows that stored their token

signInVars == <<flows, consent, thread, pages, stored, signOut, valid, ever>>

SignInInit ==
    /\ flows = [f \in Flows |-> "idle"]
    /\ consent = [f \in Flows |-> "no"]
    /\ thread = [f \in Flows |-> "none"]
    /\ pages = [f \in Flows |-> "none"]
    /\ stored = SignedOut
    /\ signOut = [pc |-> "idle", token |-> SignedOut]
    /\ valid = {}
    /\ ever = {}

-----------------------------------------------------------------------------
FlowGoes(f, pc) == flows' = [flows EXCEPT ![f] = pc]

\* handle_authenticate: with a port to listen on, the page is shown by the
\* client, who is asked, or a browser is opened here.
BeginSignIn(f) ==
    /\ flows[f] = "idle"
    /\ \/ /\ FlowGoes(f, "waits")
          /\ \E asking \in {"no", "yes"} : consent' = [consent EXCEPT ![f] = asking]
          /\ thread' = [thread EXCEPT ![f] = "listens"]
       \/ FlowGoes(f, "failed") /\ UNCHANGED <<consent, thread>>
    /\ UNCHANGED <<pages, stored, signOut, valid, ever>>

\* sign_in_via_client: the user agrees, or the client cannot ask and a browser
\* is opened instead; or the user declines, and the sign-in is dropped where it
\* is.
ClientAnswers(f) ==
    /\ consent[f] = "yes" /\ flows[f] \in {"waits", "exchanges", "stores"}
    /\ \/ consent' = [consent EXCEPT ![f] = "accepted"] /\ UNCHANGED flows
       \/ consent' = [consent EXCEPT ![f] = "declined"] /\ FlowGoes(f, "failed")
    /\ UNCHANGED <<thread, pages, stored, signOut, valid, ever>>

\* The authenticate request is cancelled.
CancelSignIn(f) ==
    /\ flows[f] \in {"waits", "exchanges", "stores"}
    /\ FlowGoes(f, "failed")
    /\ UNCHANGED <<consent, thread, pages, stored, signOut, valid, ever>>

\* A request on the port: the flow's callback, with a code or with an error.
\* Any other is answered and the wait goes on.
BrowserCallsBack(f) ==
    /\ thread[f] = "listens"
    /\ \/ thread' = [thread EXCEPT ![f] = "has_code"] /\ UNCHANGED pages
       \/ /\ thread' = [thread EXCEPT ![f] = "ended"]
          /\ pages' = [pages EXCEPT ![f] = "cancelled"]
       \/ thread' = thread /\ pages' = [pages EXCEPT ![f] = "nothing"]
    /\ UNCHANGED <<flows, consent, stored, signOut, valid, ever>>

\* CALLBACK_TIMEOUT
ListenerGivesUp(f) ==
    /\ thread[f] = "listens"
    /\ thread' = [thread EXCEPT ![f] = "ended"]
    /\ UNCHANGED <<flows, consent, pages, stored, signOut, valid, ever>>

\* The wait is over: with a code the browser stays unanswered.
CodeArrives(f) ==
    /\ flows[f] = "waits" /\ thread[f] \in {"has_code", "ended"}
    /\ FlowGoes(f, IF thread[f] = "has_code" THEN "exchanges" ELSE "failed")
    /\ UNCHANGED <<consent, thread, pages, stored, signOut, valid, ever>>

Shows(f, page) == pages' = [pages EXCEPT ![f] = page]

\* Mutant: the browser is answered when the code arrives.
ExchangeAnswersFirst(f) ==
    /\ flows[f] = "exchanges"
    /\ Shows(f, "signed in")
    /\ \/ valid' = valid \cup {f} /\ FlowGoes(f, "stores")
       \/ valid' = valid /\ FlowGoes(f, "failed")
    /\ UNCHANGED <<consent, thread, stored, signOut, ever>>

\* exchange: the server gives a token for the code, or it does not.
Exchange(f) ==
    /\ flows[f] = "exchanges"
    /\ \/ valid' = valid \cup {f} /\ FlowGoes(f, "stores") /\ UNCHANGED pages
       \/ valid' = valid /\ FlowGoes(f, "failed") /\ Shows(f, "not completed")
    /\ UNCHANGED <<consent, thread, stored, signOut, ever>>

\* The email is asked for, then the credentials are written, over those of
\* another sign-in.
StoreToken(f) ==
    /\ flows[f] = "stores"
    /\ \/ stored' = f /\ ever' = ever \cup {f} /\ FlowGoes(f, "done") /\ Shows(f, "signed in")
       \/ UNCHANGED <<stored, ever>> /\ FlowGoes(f, "failed") /\ Shows(f, "not completed")
    /\ UNCHANGED <<consent, thread, signOut, valid>>

-----------------------------------------------------------------------------
(* end_session *)

BeginSignOut ==
    /\ signOut.pc = "idle"
    /\ signOut' = [pc |-> "told", token |-> stored]
    /\ UNCHANGED <<flows, consent, thread, pages, stored, valid, ever>>

\* The server is told, and whether it heard does not matter: the credentials
\* are removed, whichever they are by now.
EndSignOut ==
    /\ signOut.pc = "told"
    /\ \/ valid' = valid \ {signOut.token}
       \/ valid' = valid
    /\ stored' = SignedOut
    /\ signOut' = [pc |-> "idle", token |-> SignedOut]
    /\ UNCHANGED <<flows, consent, thread, pages, ever>>

FlowActs(f) == \/ BeginSignIn(f) \/ ClientAnswers(f) \/ CancelSignIn(f) \/ BrowserCallsBack(f)
               \/ ListenerGivesUp(f) \/ CodeArrives(f) \/ Exchange(f) \/ StoreToken(f)

SignInNext == (\E f \in Flows : FlowActs(f)) \/ BeginSignOut \/ EndSignOut

SignInSpec == SignInInit /\ [][SignInNext]_signInVars

-----------------------------------------------------------------------------
(* Properties *)

\* The page in the browser and the answer to the client say what happened: a
\* page says signed in exactly when that sign-in's credentials were written,
\* though sign-ins cross, and one the user declined or cancelled, whatever the
\* browser did meanwhile and later, writes nothing.
PagesTellTheTruth ==
    \A f \in Flows :
        /\ (pages[f] = "signed in") <=> (f \in ever)
        /\ f \in ever => flows[f] = "done" /\ consent[f] # "declined"
=============================================================================
