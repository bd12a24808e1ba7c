--------------------------- MODULE StreamlitGate ----------------------------
(***************************************************************************)
(* The login, the whitelist and the log-out of a gated Streamlit app       *)
(* (mayutils.interfaces.websites.streamlit.StreamlitManager, with its own  *)
(* pages): each run of the script is one action.  Streamlit is external: it*)
(* runs the script anew for every click, keeps session_state for a session *)
(* and an OAuth identity in a cookie that a new session reads.             *)
(***************************************************************************)
EXTENDS Integers, Python

CONSTANTS
  Session,
  Email,
  Whitelist,
  MaxRestarts \* bound: how often the server restarts

ASSUME StreamlitAssumption ==
  /\ Whitelist \subseteq Email
  /\ None \notin Email \cup BOOLEAN
  /\ MaxRestarts \in Nat

VARIABLES
  hashed,    \* the server has a MASTER_PASSWORD_HASH
  cookie,    \* the identity in the browser's cookie
  user,      \* st.user of each session, as of its beginning
  state,     \* session_state: user_email and welcomed, None when not there
  page,      \* the page it shows: "none", "login", "forbidden" or "app"
  rerun,     \* st.rerun: the script begins again
  toasts,    \* history: the welcomes since the identity began
  restarts

streamlitVars == <<hashed, cookie, user, state, page, rerun, toasts, restarts>>

-----------------------------------------------------------------------------
Fresh == [user_email |-> None, welcomed |-> None, seeded |-> FALSE]

\* configure_oauth: the server has its providers; get_password_hash
GetPasswordHash == hashed

StreamlitInit ==
  /\ hashed \in BOOLEAN
  /\ cookie = None
  /\ user = [s \in Session |-> None]
  /\ state = [s \in Session |-> Fresh]
  /\ page = [s \in Session |-> "none"]
  /\ rerun = [s \in Session |-> FALSE]
  /\ toasts = [s \in Session |-> 0]
  /\ restarts = 0

\* initialise: what is not there yet is set
Initialise(st) == [st EXCEPT !.seeded = TRUE]

\* current_user_email
CurrentUserEmail(s) == IF state[s].user_email # None THEN state[s].user_email ELSE user[s]

\* check_authorisation: the page, and the first arrival is welcomed
CheckAuthorisation(s) ==
  LET email == CurrentUserEmail(s) IN
  CASE email = None -> "login" [] email \notin Whitelist /\ email # None -> "forbidden" [] OTHER -> "app"

Welcomes(s) == CheckAuthorisation(s) = "app" /\ state[s].welcomed # TRUE

\* setup_app: a run in which nothing was clicked
SetupApp(s) ==
  /\ page' = [page EXCEPT ![s] = CheckAuthorisation(s)]
  /\ state' = [state EXCEPT ![s] = IF Welcomes(s) THEN [Initialise(@) EXCEPT !.welcomed = TRUE] ELSE Initialise(@)]
  /\ toasts' = [toasts EXCEPT ![s] = IF Welcomes(s) THEN @ + 1 ELSE @]
  /\ rerun' = [rerun EXCEPT ![s] = FALSE]
  /\ UNCHANGED <<hashed, cookie, user, restarts>>

\* login: the button of the password form, of which the run ends in st.rerun
LoginByPassword(s, email) ==
  /\ ~rerun[s] /\ page[s] = "login" /\ GetPasswordHash
  /\ state' = [state EXCEPT ![s].user_email = email]
  /\ rerun' = [rerun EXCEPT ![s] = TRUE]
  /\ toasts' = [toasts EXCEPT ![s] = 0]
  /\ UNCHANGED <<hashed, cookie, user, page, restarts>>

\* A session begins: st.user is read from the cookie.
BeginSession(s, c) ==
  /\ user' = [user EXCEPT ![s] = c]
  /\ state' = [state EXCEPT ![s] = Fresh]
  /\ page' = [page EXCEPT ![s] = "none"]
  /\ rerun' = [rerun EXCEPT ![s] = FALSE]
  /\ toasts' = [toasts EXCEPT ![s] = 0]

\* login: st.login, which comes back with the cookie in a new session
LoginByOAuth(s, email) ==
  /\ ~rerun[s] /\ page[s] = "login" /\ ~GetPasswordHash
  /\ cookie' = email
  /\ BeginSession(s, email)
  /\ UNCHANGED <<hashed, restarts>>

\* Mutant of LogOut: the welcome flag stays.
LogOutWelcomed(s) ==
  /\ ~rerun[s] /\ page[s] \in {"app", "forbidden"}
  /\ IF state[s].user_email # None
     THEN /\ state' = [state EXCEPT ![s].user_email = None]
          /\ rerun' = [rerun EXCEPT ![s] = TRUE]
          /\ toasts' = [toasts EXCEPT ![s] = 0]
          /\ UNCHANGED <<cookie, user, page>>
     ELSE cookie' = None /\ BeginSession(s, None)
  /\ UNCHANGED <<hashed, restarts>>

\* log_out, by the button of the sidebar or of the forbidden page
LogOut(s) ==
  /\ ~rerun[s] /\ page[s] \in {"app", "forbidden"}
  /\ IF state[s].user_email # None
     THEN /\ state' = [state EXCEPT ![s].user_email = None, ![s].welcomed = FALSE]
          /\ rerun' = [rerun EXCEPT ![s] = TRUE]
          /\ toasts' = [toasts EXCEPT ![s] = 0]
          /\ UNCHANGED <<cookie, user, page>>
     ELSE cookie' = None /\ BeginSession(s, None)
  /\ UNCHANGED <<hashed, restarts>>

\* The browser opens the app, or loads it again.
Visit(s) == BeginSession(s, cookie) /\ UNCHANGED <<hashed, cookie, restarts>>

\* The server restarts, with or without the password: its sessions end.
Restart ==
  /\ restarts < MaxRestarts
  /\ restarts' = restarts + 1
  /\ hashed' \in BOOLEAN
  /\ user' = [s \in Session |-> cookie]
  /\ state' = [s \in Session |-> Fresh]
  /\ page' = [s \in Session |-> "none"]
  /\ rerun' = [s \in Session |-> FALSE]
  /\ toasts' = [s \in Session |-> 0]
  /\ UNCHANGED cookie

StreamlitNext ==
  \/ \E s \in Session :
       \/ SetupApp(s) \/ LogOut(s) \/ Visit(s)
       \/ \E email \in Email : LoginByPassword(s, email) \/ LoginByOAuth(s, email)
  \/ Restart

StreamlitSpec == StreamlitInit /\ [][StreamlitNext]_streamlitVars

-----------------------------------------------------------------------------
(* "Log the current user out of whichever identity is active" (streamlit,  *)
(* log_out) ends the only one there is: no session has a password identity *)
(* and an OAuth one, whatever tabs, restarts and changes of the password   *)
(* there are.  And what the app's pages are shown to is on the whitelist   *)
(* and was welcomed once since it came (check_authorisation).              *)
OneIdentity ==
  \A s \in Session :
    /\ state[s].user_email = None \/ user[s] = None
    /\ page[s] = "app" /\ ~rerun[s] => CurrentUserEmail(s) \in Whitelist /\ toasts[s] = 1
=============================================================================
