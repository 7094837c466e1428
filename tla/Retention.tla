----------------------------- MODULE Retention -----------------------------
(***************************************************************************)
(* The retention policy of the audit database                              *)
(* (backend/app/audit/retention.py): a standalone process that deletes,    *)
(* table by table, the rows older than the table's window, while the       *)
(* application goes on writing.  The foreign keys are those of             *)
(* audit/models.py.                                                        *)
(*                                                                         *)
(* Each table is one DELETE in one transaction, so the interleaved parties *)
(* are the transactions of a run, those of the audit service and whatever  *)
(* kills the run between them.  Time is counted in days.  Rows are written *)
(* on the day of their event: an outage that outlasts a window is left out *)
(* (AuditService has the outages), and so are two runs at a time.          *)
(***************************************************************************)
EXTENDS Integers, Sequences, FiniteSets

CONSTANTS
    Sessions,
    Prompts,       \* a prompt has at most one response, which goes by its id
    AgentEvents,
    Defaults,      \* AUDIT_RETENTION_DAYS or --days
    Overrides,     \* AUDIT_RETENTION_OVERRIDES: windows of some of the tables
    MaxDay         \* bound of the model: the last day

\* Variant with a fault: parents before children.
PromptsFirst == <<"prompt_requests", "prompt_responses", "agent_events", "sessions">>

\* _TABLES, in the order of deletion.
Tables == <<"prompt_responses", "agent_events", "prompt_requests", "sessions">>

Names == {Tables[i] : i \in DOMAIN Tables}

ASSUME RetentionAssumption ==
    /\ Defaults \subseteq Nat /\ MaxDay \in Nat
    /\ \A o \in Overrides : DOMAIN o \subseteq Names /\ \A t \in DOMAIN o : o[t] \in Nat

VARIABLES
    today,
    dates,        \* the day of each row, table by table
    sessionOf,   \* prompt_requests.session_id
    requestOf,   \* agent_events.request_id
    run,         \* the retention run: its windows and how far it is
    affected,    \* what it reports of the tables behind it
    (* history *)
    due          \* the rows that were too old when it began

database == <<dates, sessionOf, requestOf>>
process  == <<run, affected, due>>
retentionVars == <<today, database, process>>

Null == "null"

Ids == [t \in Names |->
          CASE t = "sessions" -> Sessions
            [] t = "agent_events" -> AgentEvents
            [] OTHER -> Prompts]

Run(status, dry, windows, now) ==
    [is |-> status, dry |-> dry, windows |-> windows, now |-> now, next |-> 1]

NoWindows == [t \in Names |-> 0]
Nothing   == [t \in Names |-> {}]

RetentionInit ==
    /\ today = 0
    /\ dates = [t \in Names |-> << >>]
    /\ sessionOf = [r \in Prompts |-> Null]
    /\ requestOf = [e \in AgentEvents |-> Null]
    /\ run = Run("none", TRUE, NoWindows, 0)
    /\ affected = NoWindows
    /\ due = Nothing

Has(t, id) == id \in DOMAIN dates[t]

\* Table t with a row of this day, new or touched.
Written(t, id) ==
    [i \in DOMAIN dates[t] \union {id} |-> IF i = id THEN today ELSE dates[t][i]]

\* Table t without the rows gone.
Without(t, gone) == [i \in DOMAIN dates[t] \ gone |-> dates[t][i]]

\* What a DELETE takes along: ON DELETE CASCADE of prompt_responses.request_id.
Cascade(t, gone) ==
    [u \in Names |->
       IF u = t \/ (u = "prompt_responses" /\ t = "prompt_requests") THEN gone ELSE {}]

----------------------------------------------------------------------------
(* The application *)

DayPasses ==
    /\ today < MaxDay
    /\ today' = today + 1
    /\ UNCHANGED <<database, process>>

\* The session is upserted with the day of the prompt and the prompt recorded.
RecordPrompt(r, s) ==
    /\ ~Has("prompt_requests", r)
    /\ dates' = [dates EXCEPT !["sessions"] = Written("sessions", s),
                              !["prompt_requests"] = Written("prompt_requests", r)]
    /\ sessionOf' = [sessionOf EXCEPT ![r] = s]
    /\ UNCHANGED <<today, requestOf, process>>

\* A row whose prompt is gone is refused by its foreign key.
RecordResponse(r) ==
    /\ Has("prompt_requests", r)
    /\ ~Has("prompt_responses", r)
    /\ dates' = [dates EXCEPT !["prompt_responses"] = Written("prompt_responses", r)]
    /\ UNCHANGED <<today, sessionOf, requestOf, process>>

RecordAgent(e, r) ==
    /\ Has("prompt_requests", r)
    /\ ~Has("agent_events", e)
    /\ dates' = [dates EXCEPT !["agent_events"] = Written("agent_events", e)]
    /\ requestOf' = [requestOf EXCEPT ![e] = r]
    /\ UNCHANGED <<today, sessionOf, process>>

----------------------------------------------------------------------------
(* The retention run *)

\* Variant with a fault: a window of 0 is a window.
TooOldAtOnce(t, windows, now) == {i \in DOMAIN dates[t] : dates[t][i] + windows[t] < now}

\* column < now - days, for a table with a window.
TooOld(t, windows, now) ==
    IF windows[t] = 0 THEN {} ELSE {i \in DOMAIN dates[t] : dates[t][i] + windows[t] < now}

\* resolve_windows()
Windows(days, override) ==
    [t \in Names |-> IF t \in DOMAIN override THEN override[t] ELSE days]

\* Refused when every window is 0.
Begin(days, override, dry) ==
    LET windows == Windows(days, override) IN
    /\ run.is # "running"
    /\ windows # NoWindows
    /\ run' = Run("running", dry, windows, today)
    /\ affected' = NoWindows
    /\ due' = [t \in Names |-> TooOld(t, windows, today)]
    /\ UNCHANGED <<today, database>>

\* The DELETE of table t, with what the foreign keys do about it.
Delete(t, gone) ==
    LET taken == Cascade(t, gone) IN
    /\ dates' = [u \in Names |-> Without(u, taken[u])]
    /\ sessionOf' = [r \in Prompts |->
                       IF t = "sessions" /\ sessionOf[r] \in gone THEN Null ELSE sessionOf[r]]
    /\ requestOf' = [e \in AgentEvents |->
                       IF t = "prompt_requests" /\ requestOf[e] \in gone THEN Null
                       ELSE requestOf[e]]

\* Variant with a fault: a table without a window ends the run.
NextWindow ==
    LET t == Tables[run.next]
        old == TooOld(t, run.windows, run.now)
    IN
    /\ run.is = "running"
    /\ affected' = [affected EXCEPT ![t] = Cardinality(old)]
    /\ IF run.dry THEN UNCHANGED database ELSE Delete(t, old)
    /\ run' = IF run.next = Len(Tables) \/ run.windows[t] = 0 THEN [run EXCEPT !.is = "finished"]
              ELSE [run EXCEPT !.next = @ + 1]
    /\ UNCHANGED <<today, due>>

\* The next table: counted and, unless the run is dry, cleared.
NextTable ==
    LET t == Tables[run.next]
        old == TooOld(t, run.windows, run.now)
    IN
    /\ run.is = "running"
    /\ affected' = [affected EXCEPT ![t] = Cardinality(old)]
    /\ IF run.dry THEN UNCHANGED database ELSE Delete(t, old)
    /\ run' = IF run.next = Len(Tables) THEN [run EXCEPT !.is = "finished"]
              ELSE [run EXCEPT !.next = @ + 1]
    /\ UNCHANGED <<today, due>>

\* The database fails or the process is killed; what is committed stays.
Interrupted ==
    /\ run.is = "running"
    /\ run' = [run EXCEPT !.is = "none"]
    /\ UNCHANGED <<today, database, affected, due>>

RetentionNext ==
    \/ DayPasses
    \/ \E r \in Prompts :
         \/ \E s \in Sessions : RecordPrompt(r, s)
         \/ RecordResponse(r)
         \/ \E e \in AgentEvents : RecordAgent(e, r)
    \/ \E days \in Defaults, override \in Overrides, dry \in BOOLEAN :
         Begin(days, override, dry)
    \/ NextTable
    \/ Interrupted

RetentionSpec == RetentionInit /\ [][RetentionNext]_retentionVars

----------------------------------------------------------------------------
(* Properties *)

\* Whom a row refers to is there.
KeysIntact ==
    /\ \A r \in DOMAIN dates["prompt_responses"] : Has("prompt_requests", r)
    /\ \A r \in DOMAIN dates["prompt_requests"] :
         sessionOf[r] # Null => Has("sessions", sessionOf[r])
    /\ \A e \in DOMAIN dates["agent_events"] :
         requestOf[e] # Null => Has("prompt_requests", requestOf[e])

RetentionTypeOK ==
    /\ today \in 0 .. MaxDay
    /\ \A t \in Names : DOMAIN dates[t] \subseteq Ids[t]
    /\ \A t \in Names : \A i \in DOMAIN dates[t] : dates[t][i] \in 0 .. today
    /\ sessionOf \in [Prompts -> Sessions \union {Null}]
    /\ requestOf \in [AgentEvents -> Prompts \union {Null}]
    /\ run \in [is : {"none", "running", "finished"}, dry : BOOLEAN,
                windows : [Names -> Nat], now : 0 .. today, next : DOMAIN Tables]
    /\ affected \in [Names -> Nat]

(* "An interrupted run leaves a consistent database and the next run       *)
(* finishes the job" (retention.py:13): whatever an earlier run left half  *)
(* done and whatever is written meanwhile, the keys hold at all times, and *)
(* when a run has finished no table has a row older than its window.       *)
NextRunFinishesTheJob ==
    /\ RetentionTypeOK
    /\ KeysIntact
    /\ run.is = "finished" /\ ~run.dry =>
         \A t \in Names : TooOld(t, run.windows, run.now) = {}

(* Nothing goes before its time: a row leaves only through a run that is   *)
(* not dry, when its own window has passed - or, a response, with its      *)
(* prompt.  (The comment at retention.py:34 promises more: that the        *)
(* windows are independent.)                                               *)
OnlyExpiredRowsLeave ==
    [][\A t \in Names : \A i \in DOMAIN dates[t] \ DOMAIN dates'[t] :
         /\ ~run.dry
         /\ \/ run.windows[t] > 0 /\ dates[t][i] < today - run.windows[t]
            \/ t = "prompt_responses"
               /\ run.windows["prompt_requests"] > 0
               /\ dates["prompt_requests"][i] <
                    today - run.windows["prompt_requests"]]_retentionVars

(* The report is honest ("deleting explicitly keeps ... the row counts     *)
(* honest", retention.py:35), dry or not: it names of each table the rows  *)
(* that were too old when the run began, although rows go one table after  *)
(* the other and take others along.  Only a session can have been touched  *)
(* meanwhile.                                                              *)
CountsAreHonest ==
    run.is = "finished" =>
        \A t \in Names :
            \/ affected[t] = Cardinality(due[t])
            \/ t = "sessions" /\ affected[t] < Cardinality(due[t])
=============================================================================
