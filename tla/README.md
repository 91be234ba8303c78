# adrest in TLA+

A TLA+ development of adrest, a library for REST APIs on Django 1.5 to 1.7
(Python 2).  Every definition is read from the code under `src/adrest`, with
its tests (`src/tests`), its README and its docs; `PROJECT.json` names, for each
definition, the lines it stands for.

Nine components are modelled, each in a module of its own: the dispatch of a
request with the handlers it calls (`Dispatch`), the throttle (`Throttle`), the
queryset that all instances of a resource share (`Collection`), the pages of a
collection (`Paging`), the making and registering of resource classes
(`Registry`), the filters of a listing (`Filters`), authentication (`Auth`), remote
calls (`Rpc`) and serialization (`Serialize`).  Two abstract specifications say what
the first and the third promise a client (`RestStore`, `SnapshotRead`).

## The system

An application declares resource classes (`ResourceView` and its mixins), each with
a `Meta`, and registers them with an `Api`, which makes urls of them.  For each
request Django makes a view instance and calls `dispatch` in the thread that
serves the request.  Threads share the database, the cache, and the classes with
their `_meta`; nothing in adrest takes a lock or opens a transaction.

| Part | Code | State | Operations | Module |
| --- | --- | --- | --- | --- |
| Dispatch | `views.py` | the view instance: request, resources, auth | `dispatch`, `check_owners`, `handle_exception` | `Dispatch` |
| Handlers | `mixin/handler.py` | the table, `resources` | `get_resources`, `post`, `put`, `patch`, `delete`, `head`, `options` | `Dispatch` |
| Form | `forms.py` | its data | `PartitialForm.__init__`, `is_valid`, `save` | `Dispatch` |
| Throttle | `utils/throttle.py`, `mixin/throttle.py` | one cache entry per key | `should_be_throttled` | `Throttle` |
| Collections | `mixin/dynamic.py`, `mixin/handler.py` | `_meta.queryset`, shared | `__init__`, `get_collection`, `paginate` | `Collection` |
| Filters | `mixin/dynamic.py`, `mixin/handler.py` | the dictionary of filters, the queryset | `get_resources`, `get_filters`, `get_default_filters`, `get_sorting` | `Filters` |
| Paginator | `utils/paginator.py` | `_page`, `query_dict`, `count` | `page`, `next_page`, `previous_page`, `resources` | `Paging` |
| Class metadata | `utils/meta.py`, the metaclasses | `_meta` of each class | `MixinBaseMeta`, `EmitterMeta` | `Registry` |
| Api | `api.py` | `resources`, `meta` | `__init__`, `register`, `call` | `Registry`, `Rpc` |
| Authentication | `mixin/auth.py`, `utils/auth.py`, `models.py` | `request.user`, `auth`, `identifier`, access keys | `authenticate`, `configure`, `create_api_key` | `Auth` |
| Rights | `mixin/auth.py` | none | `check_rights` | an outcome in `Dispatch` |
| RPC | `resources/rpc.py` | `methods` (of the class), the request it shares with the views it calls | `handle_request`, both `rpc_call`s, `configure_rpc` | `Rpc` |
| Access log | `models.py` | rows of `Access` | `save_log` | `Rpc` |
| Emitters | `mixin/emitter.py`, `utils/emitter.py`, `utils/response.py` | none | `emit`, `determine_emitter` | `Rpc`; in `Dispatch` a step that may fail after the handler; `Link` in `Paging` |
| Serializers | `utils/serializer.py` | the recursion in work | `to_simple`, `to_simple_model`, `_dumps` | `Serialize` |
| Parsers | `mixin/parser.py`, `utils/parser.py` | none | `parse`, `determine_content` | `Rpc`; part of `Admit`, where it may fail, in `Dispatch` |
| Map, GA, mail, admin, templates | `resources/map.py`, `resources/ga.py`, `utils/mail.py`, ... | none that is read back | | not modelled |

How they interact: `dispatch` calls, in this order, the signals, the method check,
`authenticate`, `throttle_check`, `parse`, `get_resources` (which calls the
parent's `get_resources` first), `check_owners`, `check_rights`, the handler, and
`emit`; whatever raises on the way goes through `handle_exception`, which calls
`emit` itself.  `Dispatch` holds that whole sequence, with authentication,
throttling and rights as steps that pass or refuse; `Throttle` is one of
these steps in detail and `Auth` another; `Filters` and `Collection` are what a GET
with no key does in the handler, the one with a single client and every query, the
other with many clients and none; `Serialize` is what `emit` does with objects, and
`Paging` what it does with a page.  `Rpc` is a view whose handler has other views
dispatch the same request; it contains an abstract dispatch, in which what the
other modules describe passes, refuses or fails.  `Registry` describes how the classes
come about of which all those are instances.

What is hard in it:

* concurrency: two requests between any two database accesses; the
  read-modify-write of the throttle; a queryset shared by all threads of a class;
* lazy values: querysets and pages are read when somebody first looks at them,
  sometimes again;
* partial effects: a bulk PUT or DELETE that fails or races half-way;
* order: checks before writes, found parents after the form's data and after the
  query's filters, inherited `Meta`s in the order of the mro, one authenticator after
  another on the same request, dictionaries that are visited in any order;
* nesting: a view that rewrites the request it is serving and dispatches it again; a
  serializer that follows relations back to where it started;
* what runs outside the `try` of `dispatch`: receivers of signals, the access log;
* boundaries: the limit of the throttle, the first and last page, a page that
  turned empty, a timeout that became zero.

`PROJECT.json` lists each of these hazards at the line where it bites.

## Modules

**`Dispatch`**.  `pc[w]` is where worker `w` is in `dispatch`; `req`, `parent`,
`found`, `insts`, `todo`, `cur`, `status` and `done` are its request and local
values; `owners` and `rows` are two tables, of which the second has a foreign key to
the first.  An action is the code from one database access to the next:
`GetParent` and `GetOwn` are `get_resources`; `CheckOwners` is `check_owners` with
the evaluation of the queryset it iterates; `BindForm` and `Save` are one turn of
`put`'s loop; `Drop` one turn of `delete`'s; `HandlePost` and `Create` the two
halves of `post`; `Emit` and `HandleException` end the request.  `Admit` includes the
parsing of the body, which may fail with 400; `Refuse` is an authenticator or the throttle
that refuses, or raises something else, which is a 500.  `Emit` may fail with any status after
the handler has done its work: an assertion or a validation error that is raised while a result is
serialized is a 400, an `HttpError` keeps its status, the rest is a 500.  A request is a record
of what the code looks at: method, route (with parent, with public access, flat),
keys, form data, what serializing its result comes to, and what of it is broken.

**`RestStore`** is the table as a single client sees it: only a POST inserts, a PUT
changes only supplied fields, a nested route moves nothing to another parent,
and what is refused changes nothing but the beginning of a bulk update, unless it is the
result that could not be shown, after all that was asked for is done.  `Told` of
`Dispatch` says what such a client has been told, `Store` maps the rest.

**`Throttle`**.  `Get`, `Check` and `Set` are the three parts of
`should_be_throttled`, with `Tick` (the clock) and `Evict` (the cache) between them.
`grants` is a history: how many requests of a key were granted in the window
that ends at a given time.

**`Collection`**.  `Clone` and `Assign` are `self._meta.queryset =
self._meta.queryset.all()` of `DynamicMixin.__init__`; `Collect` is `get_collection` and
`paginate`; `Count` and `Slice` the paginator's two reads; `Select`, `Store` and `Use` are
the evaluation of a full list, which Django keeps in the queryset.  The table is
represented by the number of changes it has seen, so that a read is told by its time.

**`SnapshotRead`** is what a client of a collection may rely on: a list is the table at
one moment between request and answer, a page at most two (count and rows).

**`Paging`**.  One action is one look at the property `page`; `part` tells whether the
body or the `Link` header is being made.  `walk` is a history of a client that
starts on the first page and follows the links.

**`Registry`**.  A class is a number, in the order of making; `own` is its `Meta`, `mro` its
linearisation, `meta` what `MixinBaseMeta` merged, `fields` the content of each
`emit_models` dictionary.  `Derive` and `Combine` are class statements; `Create` and `CreateRPC`
are `Api.__init__`, which registers the map and `AutoJSONRPC` before the Api's options are known
(`unfinished` until both are), and `Register` is `Api.register`.  `Enter` is what these three have in
common: a subclass whose `Meta` has the options `Given`, entered under its `url`.  Among the
options an Api gives may be a dictionary, one object for all it registers (`GivenDict`), so a
dictionary is told by the class or the Api that has brought it.  The linearisation of a class with two
bases is the one Python computes (`Linearizes`); it refuses bases that have none.

**`Filters`**.  A behaviour is one GET of a collection.  A parameter of the query is
named by its tokens (`status__gt__not` is three); `ReadParam` is a turn of the loop of
`get_filters` and `Apply` one of `get_collection`, each for any name or key that is left,
since both loops visit a dictionary.  `Defaults` puts the parent's filter over the
query's.  `Compared` is what a lookup looks at: under `in` each character of a text.  `route` is the
parent in the URL, if the URL has a place for one; it may be one that does not exist.
`Evaluate` is the moment the database is asked: a sort by an unknown field fails then, unless the
listing is `paged` and the page is the empty slice, and so may the comparison with several parents.

**`Auth`**.  `Arrive` and `CallNested` are the two ways a view is called: by a client, or by
`AutoJSONRPC` with the request of the outer view.  `Try` is a turn of the loop over the
authenticators, `Attempt` what each of the five answers and what it leaves in
`request.user`, which is a snapshot of the user as it was read.  `Edit`, `Grant`, `Revoke`,
`CreateUser` and `CreateKey` (the receiver of `post_save`) change the database between
any two turns.

**`Rpc`**.  `stack` holds the views in `dispatch`, the innermost first; all share `request`.
A resource is a REST resource, `AutoJSONRPC` (`CallView`, `Return`) or an `RPCResource` with a
scheme (`Run`).  Names of calls and schemes are sequences, split at the dots; `Methods` is the one table of
functions that all RPC resources share, by dotted name.  `Break` is an exception that `handle_exception` answers
with 500 or raises again.  Calls are numbered; the parameters of a call may hold another one,
under the name `payload`, spread over the fields, or in JSON.  `Written` is what
`rpc_call` writes into the request, `Fix` what `fix_request` does to it then, `Parsed` how the
parsers read it, `Taken` what becomes of the inner reply, and `Finish` the finished
signals with `save_log`.

**`Serialize`**.  `todo` is the recursion of `to_simple_model` as a stack, `Field` a turn of its loop
over names, `Close` its end, `Dump` the conversion to JSON or XML.  Where something
stands in the answer is told by the keys and names that lead there.  Related rows are
read in `Field`, when the others may have been deleted or moved.  `Cascade` is what django deletes with a
row: those that refer to it, those that refer to these, and so on.

**`MCDispatch`, `MCThrottle`, `MCCollection`, `MCPaging`, `MCRegistry`, `MCFilters`, `MCAuth`,
`MCRpc`, `MCSerialize`** give the constants values for TLC.  **`DispatchProof`, `EntryProof` (about `Throttle` and
`Auth`, the two checks at the entry of `dispatch`), `CollectionProof`, `PagingProof`, `RegistryProof`,
`FiltersProof`, `RpcProof`, `SerializeProof`** hold the theorems.  `EntryProof` extends both its modules, which is
why `Auth` calls its specification `AuthSpec`, its variables `authVars` and so on.

Definitions marked "Mutant" in a comment are not part of a specification: each is a
plausible error in the code, and the property named with it in `PROJECT.json` is
violated when it takes the place of the definition it varies.

## Runs

`tlc -config X.cfg M`, with M the module named here.

| Run | Module | What it asks | Distinct states |
| --- | --- | --- | --- |
| Race | MCDispatch | Two workers, every interleaving of twelve kinds of request: `OwnersChecked`, `RefusedIsHarmless`, `AnswerTellsEffect`, `LoopInv`, `NestedKeepsOwner` | 1,710,046 |
| Serial | MCDispatch | One worker and every odd request: `TypeOK`, `ImplementsStore` (dispatch refines `RestStore`), `Served` | 29,727 |
| ThrottleRace | MCThrottle | Two workers, evictions: `TypeOK`, `NoPrematureRefusal`, `CountsAreVouched` | 486,922 |
| ThrottleSerial | MCThrottle | One worker, no eviction: `WindowLimit`, `WindowsAreDisjoint`, `CacheIsExact` | 365,361 |
| Collection | MCCollection | Two workers on one queryset: `Fresh`, `FreshSource`, `ImplementsReads` (it refines `SnapshotRead`) | 163,297 |
| Paging | MCPaging | A walk while rows come and go: `AnswerOfOnePiece`, `WalkIsComplete`, `WalkAdvances`, `WalkEnds` | 501,437 |
| Registry | MCRegistry | Classes derived, combined and registered in every order: `NearestWins`, `RegistrationRedefines`, `SharedForCause` | 819,381 |
| Filters | MCFilters | Every query of up to two parameters on every URL: `StaysInside`, `AnswerMeansQuery`, `FailuresAreDeserved` | 1,777,442 |
| Auth | MCAuth | Chains of authenticators, nested views, changing users and keys: `AuthTypeOK`, `AcceptedIsActive`, `OnlyVouched`, `OrderAdmitsNobody` | 2,073,396 |
| Rpc | MCRpc | Calls up to three deep, failures everywhere: `DoneAsAsked`, `AnswerTellsEffect`, `DescendsIntoCall`, `LogIsComplete`, `Answered` | 108,653 |
| Serialize | MCSerialize | Objects that refer to each other, all kinds of options, changing rows: `UnfoldsAsTold`, `ShowsWhatIsAsked`, `FailsForCause` | 831,368 |
| Parentless | MCDispatch | finds a statement of the repository violated, see Findings | |

Bounds, and why they suffice:

* Race: two workers, two parents, two rows (`MaxItems = 2`), two titles, which are unique.
  What goes wrong between requests takes two of them; a bulk request of two rows has a
  first and a last turn and one in which the other worker acts between them; a second
  parent is needed for rows to move, and it is deletable; two requests may give the same
  title to two rows, pass the form both, and leave it to the database to refuse one.  Three
  of the requests have a result that cannot be shown (400, 404).
* Serial: three rows, titles that need not be unique, `ADREST_ALLOW_OPTIONS`, an allowed
  method without a handler (TRACE), refusals by all three checks, checks that raise, bodies
  that do not parse, emitters that fail with 400 or 500 on a result, on an error, and on both.
* ThrottleRace: `ThrottleAt = 3` is the least limit at which something is granted
  from a count read from the cache; `Timeframe = 2` and `MaxTime = 4` let a window
  end and a second begin while a worker is between its steps; six requests
  are two windows' grants and the refusals after them.
* ThrottleSerial: the same for three identifiers, two of which share a key; `MaxTime = 5`
  has room for three windows.
* Collection: four querysets are enough for a clone to be made whenever one is asked
  for (one shared, one held by each of two workers, one more); two changes of the table
  put a moment before, between and after.
* Paging: up to five rows in pages of two or three; page parameters none, 2 and 4 (the
  last out of range).  One walk takes at most three pages.  The bound on keys also says
  that rows arrive no more from some point on, which `WalkEnds` has as its premise: the code
  does not see to it.  `WalkAdvances` is what the code does see to, whoever inserts.
* Registry: the four classes of the library (`EmitterMixin`, `ResourceView`, `MapResource`,
  `AutoJSONRPC`) and three more, which is a diamond, or a resource with two registrations, or two
  unrelated resources of one Api; two Apis, one of which gives all its resources
  one `emit_models` dictionary, the other `emit_fields`; two options, since options interact only
  by way of the dictionary `emit_models`.
* Filters: two parents, and a third in the URL that does not exist, two numbers, two
  parameters, since a filter meets at most one other in the dictionary; parameter names have
  every lookup of the model with and without `not`, an unknown lookup, an unknown field; values
  are good, bad, and one of two characters; with and without pagination.  An unknown lookup of the foreign key is left out: what django does
  with it depends on its version.
* Auth: two users, two keys, six chains that have each authenticator before and after those
  that read or write `request.user`; one change of the database per request, which may
  come between any two authenticators; one nested view.
* Rpc: three REST resources (with different emitters, one not logged, one registered
  without emitters), both RPC resources, three schemes of which one is in the package of the next,
  seventeen simple calls, some of a name with more dots than expected or of a function
  that is not there, four that cannot be made, and each of them through another RPC resource,
  once or twice; a third level repeats the second.
* Serialize: two boats and two pirates, any of which the handler may return; options up
  to three levels deep, which lead back to the first object; one change.  A fourth level would
  go through the same two models again.

`CHECK_DEADLOCK FALSE` stands where a bound makes the system stop: the clock
and the number of requests in the throttle's runs, the number of classes in
Registry's; and in the runs that follow one request to its end: Filters, Auth, Rpc,
Serialize.  The other systems never stop.  Symmetry (of workers, of querysets) is used
in runs without liveness properties only.

Fairness.  Serial uses `FairSpec` of `Dispatch`: each worker's `Step` is weakly fair,
for the server goes on running the thread of a request it has accepted, and
`dispatch` waits for nobody.  No fairness is assumed of clients (`Receive`), nor of others
that delete parents.  Rpc assumes weak fairness of `Step`, for the same reason; a nested view
is an ordinary call in the same thread.  Paging uses weak fairness of the server's `Answer` and of
`Follow \/ Done`: `WalkEnds` is about a client that does go on.

## Findings

A run in which TLC violates a statement of the repository:

* **Parentless** (`views.py:190`).  `check_owners` reads `pr.pk` before it tests whether
  there is a `pr`: a nested request which names objects but no parent is answered 500, not
  the 403 that the comment at `:195` describes.

Consequences of the code that the models show and no run is devoted to:

* a PUT writes every field as it was read, so two partial PUTs of different fields of
  one row may lose one of the changes (`Save`);
* a PUT that saves a row which a DELETE has removed meanwhile inserts it again (`Save`);
* concurrent workers may together exceed the throttle's limit (`Get`, `Set`); the
  limit itself, `WindowLimit`, therefore belongs to ThrottleSerial;
* `ADREST_THROTTLE_AT = None` refuses every request in Python 2, where the README says
  that null is unlimited (`AtLimit`);
* identifiers that differ only in characters that keys may not have (`:`, say) share a
  count (`KeyOf`);
* the parent is compared when the objects are read, the row is written by primary key
  later: a row that has moved to another parent meanwhile is deleted (or written back)
  through its former one (`CheckOwners`, `Drop`, `Save`);
* a POST, PUT or PATCH may be answered 400 after it has written all it was asked to: an assertion, a
  validation error or an `HttpError` raised while the result is serialized is answered like one of
  the handler (`Emit`, `Unshown`);
* the "maximum requests per timeframe" of `settings.py:49` is one more than what is granted
  (`AtLimit`);
* a page that turned empty is false, so it is made again, from the `query_dict` into which
  `next_page` or `previous_page` has just written its neighbour's number (`Found`);
  `AnswerOfOnePiece` has its premise for this reason;
* nothing ends a walk from page to page while rows arrive as fast as the client walks (`WalkEnds`
  has its premise for this reason);
* a class writes `emit_fields` into an `emit_models` dictionary it shares with its
  ancestors, so that registering a resource a second time changes what the first
  registration serializes; and an Api created with `emit_models` lends one dictionary to all its resources,
  which overwrite each other's fields however unrelated they are (`Make`, `GivenDict`;
  `SharedForCause` says who can meet);
* the map and the `AutoJSONRPC` that an Api makes for itself lack the Api's options (`Create`);
* `f` and `f__not` have the same key and one replaces the other, as the dictionary has it;
  a repeated lookup (`f__gt=1&f__gt=2`) and an unknown one are ignored, an unknown sort field
  is answered 500, but 200 on an empty page; several parents are an error for databases
  that refuse `= (SELECT ...)` of several rows; `f=x` for a number is answered 400, `f__gt=x` 500; `f__in=12` asks for the
  characters 1 and 2; a nested listing ignores what the query says of the parent, its
  negation too (`Key`, `Apply`, `Evaluate`, `Operands`, `Defaults`);
* `UserAuthenticator` before `UserLoggedInAuthenticator` turns a valid session away, since it
  replaces `request.user` by None (`OrderAdmitsNobody` names the case); a failed login before
  `AnonimousAuthenticator` leaves `request.user` None or an inactive user (`Attempt`);
* an `Authorization` header that is no base64, or a key that two users have, is answered 500
  before the rest of the chain is tried (`Raises`);
* a PATCH through `AutoJSONRPC` loses its parameters: `fix_request` reads the body again,
  for `rpc_call` sets `request.PUT` but no `request.PATCH` (`Fix`; `DoneAsAsked` names the case);
* the functions of all schemes stand in one table, under the name of the scheme, a dot and their own, so
  that `inner.f`, called on the RPC resource of the scheme `pkg`, runs the `f` of the scheme
  `pkg.inner` (`Methods`, `Run`);
* what `handle_request` catches of a remote call is answered, and logged, with status 200 and an
  error in the body (`RpcError`); what the checks before it refuse keeps its status, and so does
  an inner answer that `AutoJSONRPC` passes on as it is, since it emits that type, too (`Check`, `Taken`).
  The outer row of the access log has the method of the inner call (`Finish`);
* a form in which a call stands under the name `payload` is refused, although a query with it is
  taken (`Parsed`, `Call`);
* `save_log` reads `resource.emitters`, which exists only if the resource, or its Api, was
  registered with emitters: a response it cannot decode raises outside `dispatch`'s try (`Logs`);
* a method `to_simple__x` is asked for the field x of related objects of other models, too,
  and in the simple format `to_simple__id` has no effect (`Field`, `Close`);
* XML fails for a text that is not ASCII, and for an object that shows a field called `model`
  (`Unwritable`), also in the report of an error;
* in a diamond, a class without a `Meta` of its own lets its inherited one overwrite what
  another branch has set.  `NearestWins` has the premise `Straight` for this reason.

## Proofs

`tlapm X.tla` proves, for all values of the constants that satisfy the named assumptions
(`DispatchAssumption`, `ThrottleAssumption`, and so on, one in each module, three in `Serialize` and in `Registry`):

* **`DispatchProof`**: `TypeCorrect`, `OwnersAreChecked`, `RefusalsAreHarmless`,
  `AnswersTellEffects`, `LoopsKeepCount`, `NestedOwnerKept`.  None of the four invariants is
  inductive by itself.  `RefusedIsHarmless` and `AnswerTellsEffect` leave one way for an error to
  come after a write: the whole effect is done and the result could not be shown (`Unshown`).
  `AnswerTellsEffect` needs to know that in the loops what is done
  and what is still to do make up what was found, without overlap, and that the found
  objects have different keys; that is `LoopInv`.  `TypeOK` needs `BoundInv`, that a
  validated form holds a complete row.  The inductive invariant is their conjunction,
  worker by worker (`LocalInv`); a step of one worker leaves the local part of the
  others alone, whatever it does to the tables.  `NestedKeepsOwner` is an action property:
  rows are written in `Create` and `Save` only, from a form whose owner is the found parent.
  `DispatchImplementsStore`, the refinement of `RestStore`, assumes `Alone`: one worker, and
  nobody who deletes parents.  Its strengthening, `Still`, is that what a request has read
  stays true until it writes itself: in the loops, what is still to do is what would be
  fetched now, and the keys found are those present.  Then each write is the insertion,
  change or removal that the request asks for (`NewRowAsAsked`, `FormRowAsAsked`), the end of a
  request tells what `RestStore` lets it tell, and all else is a stutter.
* **`EntryProof`**, on `Throttle`: `TypeCorrect`, `CountsVouched` and `NeverPremature` without any
  assumption on workers, clock or cache.  The argument is that a lost update or a late
  write can only lower a count below the number of grants in its window.  `SerialLimit`,
  `SerialWindows` and `SerialCache` assume `OneWorker`: one worker, no eviction, a limit of
  at least one.  Their strengthening is `CacheIsExact`: the last window is the one in the
  cache, its count is exact, and an absent or expired entry means every window has ended.
* **`EntryProof`**, on `Auth`: `AuthTypeCorrect`, `AcceptedAreActive`, `OnlyVouchedEnter`, for chains of any
  length.  `AcceptedIsActive` is inductive; it rests on `AttemptSound`, what an
  authenticator answers and leaves behind.  `NobodyAdmittedByOrder` assumes `LooksOnce`: no chain has
  `UserLoggedInAuthenticator` twice, for the second one looks at the user as the first has read
  it.  Its invariant, `Traced`, tells from which authenticator `request.user` can come if it is no
  longer what it was when the view was called.
* **`CollectionProof`**: `AnswersAreFresh` and `SourcesAreFresh`, for any number
  of workers and querysets, and `CollectionImplementsReads`, the refinement of
  `SnapshotRead`.  The invariant says that from its assignment on a worker finds in the
  shared place only querysets with no rows older than its request, and that nobody is
  about to store older ones there (`NoOlder`).  It is kept because what is stored in the
  shared place is always a clone that has never been evaluated and that nobody else
  holds (`Private`, a part of the invariant).
* **`PagingProof`**: `OnePiece`, `CompleteWalk` and `WalkGoesOn`, for any number of rows, pages of any size,
  and rows that come and go at any moment.  `OnePage` says that a page once read and not
  empty is looked at till the end of the answer, `Told` which parts of the answer are already
  settled by it, `Ordered` in what order they come.  For walks a row has a `Rank`, the number of rows
  before it, and page `N` holds the ranks from `(N - 1) * size` on (`InSlice`).  A
  deletion only lowers ranks and new rows go to the end, so a row shown on an earlier page stays
  below the next one (`NeverTwice`); and without deletions a row of the start keeps its rank, which is
  below the count, and is met on the page that has it (`NoneMissed`).  `PageHasRows` and
  `SliceFits` tell how many rows a slice has.  `WalkGoesOn` proves `WalkAdvances`; its invariant,
  `Onward`, says that what the body tells of the next page is one more than what was asked for, even if
  the page was made again in between, and that there is a row beyond this page by the count.
* **`RegistryProof`**: `NearestMetaWins`, `RegistrationsRedefine`, `SharingHasCause`, for any number of
  classes, Apis and registrations, derived and combined in any order.  `Ordered` is what a
  linearisation is: a class comes first and `ResourceView` last, and each is followed by its own
  ancestors; that a line joined from two bases is one again needs the order Python gives it (`Linearizes`).
  `Merged` says that `_meta`, put together once, is still what merging would give, for a
  class' `Meta` and line never change; `Written`, that a shared dictionary holds what the last of its
  sharers wrote; `Registered`, what an Api has made of each resource, whose dictionary stands in
  a `Meta` (`Lent`), and that the last one made under a name has it.
* **`FiltersProof`**: `ListingStaysInside`, for all queries, URLs and orders of the two dictionaries.
  The invariant says of each stage what is settled: the parent is the one the URL means
  (`ParentIsMeant`), its filter is among those to be applied, and once it has been
  applied no row from elsewhere is left (`ParentHasLastWord`).  `ListingMeansQuery` and
  `ListingFailsForCause`, for names with any number of lookups, rest on `Meaning`: some of the parameters
  read so far are kept, one of each key, and every filter is what one of them asks for or the parent's
  (`Kept`); the queryset is what the filters applied so far let through, and none of them has
  compared a number with what is none (`Applied`).  `PassesWhatIsAsked` says that a filter, whose
  key django takes apart, lets through what its parameter asks for.  The assumptions on names and values (nonempty
  sequences, `not` no field) are what splitting a query string gives.
* **`RpcProof`**: `OneIsDoneAsAsked`, `ViewsDescend`, `AnswersTellEffects` and `LogTellsSuccess`, for
  every Api and calls nested to any depth.  None is inductive.  The first two need to know that all views but the innermost wait
  (`OthersWait`), and that until its handler runs a view finds in the shared request
  exactly what it was asked (`RequestOf`): the request a client sends, and the one that
  `rpc_call` writes, have that form, and `fix_request` only spoils it for a PATCH.  The third needs `Told`: the
  reply on its way to the client, be it in the view that answers, handed to the one that
  called it, or sent, is a success exactly if something was done and nothing failed since.  The
  fourth needs that the stack holds the first of the views called, and that as long as nothing has failed
  since the effect, the log tells of exactly those that have left it, the last one first (`Logged`).

* **`SerializeProof`**: `Unfolds`, `Fails` and `ShowsAsked`, for any models, objects and options, related ones
  to any depth, and any deletions and changes of rows meanwhile.  What options hold at a path is told by handing
  the related options down along it, a recursive function; `Handed` is what such a function is,
  step by step, `BelowNext` and `BelowNothing` the two equations that follow, and `WayOn` how a path grows.
  That there is one is an induction on its length.  The library's induction theorems cannot be used, for
  their parameter is an operator; `UpTo` is induction for a set of numbers, from `Least`, which rests on the well-foundedness
  of the finite sets.  The invariant itself needs no induction over paths: a path only grows at the top of the
  stack, by the two equations.  The invariant `Inv` says of an object in work that what it has shown and what is left
  make up what is asked, and that nothing is below what is left (`Working`); of every other, that it shows
  all that is asked (`Done`).  An object is put at a path only once (`Apart`, `Once`), for the name by which it is reached was
  left till then.  Until something changes, all related objects are below the one that shows them (`Complete`).
  `Fails` needs to know what has been read: the foreign keys of an instance hold keys of rows
  that are there or have been deleted since, and an instance that a manager has found has kept the
  one it was found from (`Known`).  `Inv` has the set of instances read so far as a parameter, `IInv` says that there is one.

Only model-checked: the liveness properties `Served`, `WalkEnds` and `Answered`, for TLAPS does not
prove liveness or reason about ENABLED.  Every other property of a passing run, invariant, action property or
refinement, is stated by a theorem.  No module declares RECURSIVE operators.

## Abstractions and what is left out

* Database: one statement is atomic; constraints (foreign key, unique) are enforced; a
  read sees the latest state.  The lookups of one form's validation are taken
  as one step.  Many-to-many fields, which `PartitialForm` and `save_m2m` handle, are left out.
* A resource without a model or a form is not modelled.  Only one level of nesting is.
* Emitters, parsers and authenticators appear in `Dispatch` as parts of steps that succeed or fail;
  `Auth`, `Rpc` and `Serialize` say when.  An application's own authenticator, `test_rights`
  and `get_request` functions of an RPC scheme are the application's; `check_rights` is an
  outcome of `Dispatch`.
* Output whose form no property looks at is left out: the wording of JSON and XML, the callback
  of JSONP, templates, the headers `Allow` and `Vary`, `as_url`, error mail.  What makes XML or
  JSON fail is in `Serialize`.
* `Filters` has a model of an integer and a foreign key, with the lookups that differ in
  how adrest treats their operands; filters that a resource declares with a function of its own are
  the application's.
* `Serialize` takes any models; its run has two that refer to each other.  Dates, numbers and
  files are scalars that never fail; a `to_simple` hook of a resource is application code.
* The hash that shortens cache keys of more than 230 characters does not occur.
* Map renders a list of registered resources; GA forwards one call.  Neither keeps
  state.  The admin, the template tags, the status constants and the test client are
  outside the running server.

## Plan

Done, in the order of importance: Dispatch (with RestStore), Throttle, Collection (with
SnapshotRead), Paging, Registry, Filters, Auth, Rpc, Serialize; proofs for all of them,
with every invariant that a run checks, the action properties, and both refinements.

Open: a second level of nesting in Dispatch, many-to-many fields in its form, and composing
`Throttle` and `Auth` with it rather than as outcomes of its steps.
