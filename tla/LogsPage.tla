------------------------------ MODULE LogsPage ------------------------------
(***************************************************************************)
(* The page of the logs: the configuration it is gated by, its filters in  *)
(* the URL, the debounced search, and the query hook with its requests     *)
(* that can be aborted, its lines and its loading state.  The lines of an  *)
(* answer are known by the query they answer.                              *)
(***************************************************************************)
EXTENDS Naturals, FiniteSets

CONSTANTS
  Service, FirstService,  \* the services of the configuration
  Field, FieldsOf,        \* filter fields, and those of each service
  Value,                  \* values of a field, "" among them
  Window, Text,           \* time ranges, searches
  MaxTimers,              \* bound of the pending timeouts of doneLoading
  Nothing

LogsAssumption ==
  /\ FirstService \in Service /\ FieldsOf \in [Service -> SUBSET Field]
  /\ "" \in Value /\ "" \in Text /\ MaxTimers \in Nat /\ Nothing \notin Service

VARIABLES
  config,     \* loading, failed or ready
  url,        \* the parameters service, window and the fields
  localQuery, debouncedQuery,
  debounce,   \* the debounce timer is armed
  request,    \* the query sent to VictoriaLogs: its phase, or none
  late,       \* a query that was aborted when its answer had just come
  lines,      \* the query whose lines are shown, or Nothing
  isLoading, error,
  recent,     \* the last query was sent less than 300 ms ago
  timers      \* pending setTimeout(() => setIsLoading(false))

search == <<config, url, localQuery, debouncedQuery, debounce>>
hook == <<request, late, lines, isLoading, error, recent, timers>>
vars == <<search, hook>>

Params == [service : Service \cup {Nothing}, window : Window, field : [Field -> Value]]

(* Values of the filter fields of a service.                               *)
FilterOf(s) == [FieldsOf[s] -> Value]

Queries == [service : Service, window : Window, text : Text,
            fields : UNION {FilterOf(s) : s \in Service}]

TypeOK ==
  /\ config \in {"loading", "failed", "ready"}
  /\ url \in Params
  /\ localQuery \in Text /\ debouncedQuery \in Text /\ debounce \in BOOLEAN
  /\ request \in [query : Queries \cup {Nothing},
                  phase : {"none", "sent", "answered", "failed"}]
  /\ late \in Queries \cup {Nothing}
  /\ lines \in Queries \cup {Nothing}
  /\ isLoading \in BOOLEAN /\ error \in BOOLEAN /\ recent \in BOOLEAN
  /\ timers \in 0 .. MaxTimers

activeService(u) == IF u.service \in Service THEN u.service ELSE FirstService

(* What the hook is called with: the fields of other services that are     *)
(* still in the URL do not count.                                          *)
Query(u, text) ==
  [service |-> activeService(u), window |-> u.window, text |-> text,
   fields |-> [f \in FieldsOf[activeService(u)] |-> u.field[f]]]

Current == Query(url, debouncedQuery)

Idle == [query |-> Nothing, phase |-> "none"]

Init ==
  /\ config = "loading"
  /\ url \in [service : Service \cup {Nothing}, window : Window,
              field : {[f \in Field |-> ""]}]
  /\ localQuery \in Text /\ debouncedQuery = localQuery
  /\ debounce = FALSE
  /\ request = Idle /\ late = Nothing /\ lines = Nothing
  /\ isLoading = FALSE /\ error = FALSE /\ recent = FALSE /\ timers = 0

-----------------------------------------------------------------------------
(* The query hook.                                                         *)

(* An aborted request rejects at once, unless its answer has come: then    *)
(* its callback is still to run.                                           *)
FetchLogs(query) ==
  /\ request' = [query |-> query, phase |-> "sent"]
  /\ late' = IF request.phase = "answered" THEN request.query ELSE late
  /\ isLoading' = TRUE /\ error' = FALSE /\ recent' = TRUE
  /\ UNCHANGED timers

\* Mutant: the lines stay until the first answer for the other service.
LinesKept(u) == lines

LinesAfter(u) == IF activeService(u) # activeService(url) THEN Nothing ELSE lines

(* The effects after a render with other parameters: the query is sent     *)
(* again if it has changed, other services' lines go.                      *)
Effects(u, text) ==
  IF Query(u, text) = Current THEN UNCHANGED hook
  ELSE FetchLogs(Query(u, text)) /\ lines' = LinesAfter(u)

(* GET /api/v1/log-viewer-config: the page mounts with its first query and *)
(* its first service in the URL.                                           *)
ConfigArrives ==
  /\ config = "loading"
  /\ config' = "ready"
  /\ url' = [url EXCEPT !.service = IF @ = Nothing THEN FirstService ELSE @]
  /\ debounce' = TRUE
  /\ FetchLogs(Current)
  /\ UNCHANGED <<localQuery, debouncedQuery, lines>>

ConfigFails ==
  /\ config = "loading"
  /\ config' = "failed"
  /\ UNCHANGED <<url, localQuery, debouncedQuery, debounce, hook>>

(* The interval of 30 s, or the button, which is disabled while loading.   *)
Interval ==
  /\ config = "ready"
  /\ FetchLogs(Current)
  /\ UNCHANGED <<search, lines>>

Refresh ==
  /\ config = "ready" /\ ~isLoading
  /\ FetchLogs(Current)
  /\ UNCHANGED <<search, lines>>

Arrives ==
  /\ request.phase = "sent"
  /\ \E phase \in {"answered", "failed"} : request' = [request EXCEPT !.phase = phase]
  /\ UNCHANGED <<search, late, lines, isLoading, error, recent, timers>>

(* The loading state is kept for 300 ms.                                   *)
DoneLoading ==
  IF recent THEN timers < MaxTimers /\ timers' = timers + 1 /\ UNCHANGED isLoading
  ELSE isLoading' = FALSE /\ UNCHANGED timers

Callback ==
  /\ request.phase \in {"answered", "failed"}
  /\ request' = Idle
  /\ IF request.phase = "answered" THEN lines' = request.query /\ UNCHANGED error
     ELSE error' = TRUE /\ UNCHANGED lines
  /\ DoneLoading
  /\ UNCHANGED <<search, late, recent>>

\* Mutant: the callback does not look whether its request was aborted.
LinesLate == lines' = late

(* if (controller.signal.aborted) return.                                  *)
LinesAborted == UNCHANGED lines

CallbackAborted ==
  /\ late # Nothing
  /\ late' = Nothing
  /\ LinesAborted
  /\ UNCHANGED <<search, request, isLoading, error, recent, timers>>

(* A timeout does not know which query it was set for.                     *)
TimeoutFires ==
  /\ timers > 0
  /\ timers' = timers - 1
  /\ isLoading' = FALSE
  /\ UNCHANGED <<search, request, late, lines, error, recent>>

TimePasses ==
  /\ recent
  /\ recent' = FALSE
  /\ UNCHANGED <<search, request, late, lines, isLoading, error, timers>>

-----------------------------------------------------------------------------
(* The user.                                                               *)

UpdateParams(u) ==
  /\ config = "ready"
  /\ url' = u
  /\ Effects(u, debouncedQuery)

(* A tab: the fields of the service that is chosen are cleared.            *)
ChooseService(s) ==
  /\ UpdateParams([url EXCEPT !.service = s,
       !.field = [f \in Field |-> IF f \in FieldsOf[s] THEN "" ELSE @[f]]])
  /\ UNCHANGED <<config, localQuery, debouncedQuery, debounce>>

(* The filters on the page are those of the active service.                *)
Filters == FieldsOf[activeService(url)]

ChooseField(f, v) ==
  /\ f \in Filters
  /\ UpdateParams([url EXCEPT !.field[f] = v])
  /\ UNCHANGED <<config, localQuery, debouncedQuery, debounce>>

ChooseWindow(w) ==
  /\ UpdateParams([url EXCEPT !.window = w])
  /\ UNCHANGED <<config, localQuery, debouncedQuery, debounce>>

(* A search that is typed is used 300 ms after the last key.               *)
Type(text) ==
  /\ config = "ready" /\ text # localQuery
  /\ localQuery' = text
  /\ debounce' = TRUE
  /\ UNCHANGED <<config, url, debouncedQuery, hook>>

ClearFilters ==
  /\ \/ \E f \in Filters : url.field[f] # ""
     \/ localQuery # ""
  /\ UpdateParams([url EXCEPT !.field =
       [f \in Field |-> IF f \in Filters THEN "" ELSE @[f]]])
  /\ localQuery' = ""
  /\ debounce' = (debounce \/ localQuery # "")
  /\ UNCHANGED <<config, debouncedQuery>>

\* Mutant: the search of the mount is the one used for ever.
DebounceStale == debouncedQuery' = debouncedQuery

DebounceTakes == debouncedQuery' = localQuery

Debounce ==
  /\ debounce
  /\ debounce' = FALSE
  /\ DebounceTakes
  /\ Effects(url, debouncedQuery')
  /\ UNCHANGED <<config, url, localQuery>>

-----------------------------------------------------------------------------
Answered == Arrives \/ Callback

Passes == Debounce \/ TimeoutFires \/ TimePasses

User ==
  \/ \E s \in Service : ChooseService(s)
  \/ \E f \in Field, v \in Value : ChooseField(f, v)
  \/ \E w \in Window : ChooseWindow(w)
  \/ \E t \in Text : Type(t)
  \/ ClearFilters \/ Refresh

Next ==
  \/ ConfigArrives \/ ConfigFails \/ User \/ Interval
  \/ Answered \/ CallbackAborted
  \/ Passes

Spec == Init /\ [][Next]_vars

-----------------------------------------------------------------------------
(* The lines shown, and downloaded under the name of the active service,   *)
(* are that service's, whatever answers are still to come.                 *)
LinesOfService == lines # Nothing => lines.service = activeService(url)

(* The query under way is the one the controls show, a search as soon as   *)
(* no debounce timer is armed; once it is over with no error, the lines    *)
(* are its own.                                                            *)
LinesOfQuery ==
  /\ ~debounce => debouncedQuery = localQuery
  /\ config = "ready" =>
       /\ request # Idle => request.query = Current
       /\ request = Idle /\ ~error => lines = Current

(* "Ensure loading state stays visible for at least 300ms".                *)
LoadingStays == [][isLoading /\ ~isLoading' => ~recent]_vars
=============================================================================
