----------------------------- MODULE Dashboard -----------------------------
(***************************************************************************)
(* The page of a signed-in user, from the moment it is mounted: the form,   *)
(* the submission, the loads of the items, the subscription to FeedChannel  *)
(* and the handler of its broadcasts.  Rails is FeedService, the promise    *)
(* that FeedRequests keeps.  Every callback of the page is a step; the      *)
(* browser runs them one at a time, in an order that the network chooses.   *)
(*                                                                          *)
(* FeedsController always answers with mode "full", so the other branch of  *)
(* handleFeedSubmit never runs and is left out.                             *)
(***************************************************************************)
EXTENDS FeedList

CONSTANTS
    Feeds,         \* feed URLs
    ItemsOf,       \* what each feed holds: a sequence of [link, date], 0 = undated
    Typed,         \* feed URLs that the user may type
    NoUrl,         \* an empty field of the form
    EarlierUrls,   \* feeds of the request made before the page was mounted
    Loads,         \* the calls of getFeedItems: "mount" is the effect of Dashboard,
                   \* "login" that of handleLogin, when the page comes after a sign-in
    MaxRequests,   \* bound: requests, the earlier one included
    MaxFields,     \* bound: fields of the form
    MaxTells,      \* bound: broadcasts
    MaxDrops       \* bound: losses of the WebSocket

ASSUME BoundsAssumption == {MaxRequests, MaxFields, MaxTells, MaxDrops} \subseteq Nat \ {0}
ASSUME LoadsAssumption == Loads \in {{"mount"}, {"login", "mount"}}
ASSUME UrlsAssumption == EarlierUrls \subseteq Feeds /\ Typed \subseteq Feeds

Requests == 1 .. MaxRequests
Earlier == 1

VARIABLES
    urls,        \* FeedForm: its fields
    loading,     \* a submission is under way
    error,       \* what the banner is about
    rows,        \* pendingRequests: the status of each, "none" without a row
    feedItems,   \* the items, in the order of the array
    post,        \* POST /feeds: [step, urls, id]
    load,        \* GET /feed_items of each caller: [step, read]
    timers,      \* setTimeouts that will remove the row of a request
    \* the cable
    streaming,   \* the subscription is confirmed and its connection is up
    wire,        \* broadcasts on their way to the page
    drops,       \* losses of the connection so far
    \* Rails
    asked,       \* feed_requests.urls, {} before the row exists
    visible,     \* FeedService
    told,        \* FeedService
    \* history
    missed,      \* requests of which a broadcast did not reach the page
    early,       \* requests of which a broadcast was handled without a row
    raced        \* <<r, f>> handled while a load was on its way that had read less

pageVars == <<urls, loading, error, rows, feedItems>>
callVars == <<post, load, timers>>
cableVars == <<streaming, wire, drops>>
railsVars == <<asked, visible, told>>
history == <<missed, early, raced>>
vars == <<pageVars, callVars, cableVars, railsVars, history>>

Service == INSTANCE FeedService

NoPost == [step |-> "none", urls |-> {}, id |-> Earlier]

Statuses == {"none", "pending", "done", "failed"}
Banners == {"none", "submit", "load", "feeds"}

Created(r) == asked[r] # {}
Told(r) == \E o \in Service!Outcomes : <<r, o>> \in told

\* What a parse of r's URLs can come to.
Outcomes(r) == {o \in Service!Outcomes : o.feeds \subseteq asked[r]}

LinksOf(items) == {e.link : e \in ToSet(items)}

ASSUME ItemsAssumption ==
    /\ IsFiniteSet(Feeds)
    /\ \A f \in Feeds : ItemsOf[f] \in Seq([link : LinksOf(ItemsOf[f]), date : Nat])

\* The places of the items of some feeds, and what is there.
Cells(feeds) == UNION {{f} \X DOMAIN ItemsOf[f] : f \in feeds}
ItemAt(c) == ItemsOf[c[1]][c[2]]

\* A finite set in every order.
Orders(S) == Bijection(1 .. Cardinality(S), S)

----------------------------------------------------------------------------
(* FeedForm *)

FormStep ==
    /\ UNCHANGED <<loading, error, rows, feedItems>>
    /\ UNCHANGED <<callVars, cableVars, railsVars, history>>

\* Bound: the form is touched while a submission is left to make.  What it holds
\* afterwards nobody reads.
FormMatters ==
    Cardinality({r \in Requests : ~Created(r)}) > (IF post.step = "sent" THEN 1 ELSE 0)

handleUrlChange(k, url) ==
    /\ FormMatters
    /\ urls[k] # url
    /\ urls' = [urls EXCEPT ![k] = url]
    /\ FormStep

addField ==
    /\ FormMatters
    /\ ~loading
    /\ Len(urls) < MaxFields
    /\ urls' = Append(urls, NoUrl)
    /\ FormStep

\* Not disabled while a submission is under way.
removeField(k) ==
    /\ FormMatters
    /\ Len(urls) > 1
    /\ urls' = RemoveAt(urls, k)
    /\ FormStep

activeUrls == ToSet(urls) \ {NoUrl}

isSubmitDisabled == loading \/ activeUrls = {}

\* The browser submits nothing while a required field is empty.
FieldsAreFilled == NoUrl \notin ToSet(urls)

\* handleSubmit and, up to its await, handleFeedSubmit.  The fields stay as they
\* are, so the next click sends them again.
handleSubmit ==
    /\ ~isSubmitDisabled
    /\ FieldsAreFilled
    /\ FormMatters
    /\ loading' = TRUE
    /\ error' = "none"
    /\ post' = [NoPost EXCEPT !.step = "sent", !.urls = activeUrls]
    /\ UNCHANGED <<urls, rows, feedItems, load, timers, cableVars, railsVars, history>>

----------------------------------------------------------------------------
(* handleFeedSubmit after its await, and the request in Rails *)

\* FeedsController#create; the primary key counts up.
CreateRequest(r) ==
    /\ post.step = "sent"
    /\ ~Created(r) /\ \A q \in 1 .. r - 1 : Created(q)
    /\ asked' = [asked EXCEPT ![r] = post.urls]
    /\ post' = [post EXCEPT !.step = "served", !.id = r]
    /\ UNCHANGED <<pageVars, load, timers, cableVars, visible, told, history>>

SubmitReturns ==
    /\ post.step = "served"
    /\ rows' = [rows EXCEPT ![post.id] = "pending"]
    /\ loading' = FALSE
    /\ post' = NoPost
    /\ UNCHANGED <<urls, error, feedItems, load, timers, cableVars, railsVars, history>>

\* request throws: Rails is out of reach, refuses, or its answer is lost, maybe
\* after it made the request.
SubmitThrows ==
    /\ post.step \in {"sent", "served"}
    /\ error' = "submit"
    /\ loading' = FALSE
    /\ post' = NoPost
    /\ UNCHANGED <<urls, rows, feedItems, load, timers, cableVars, railsVars, history>>

----------------------------------------------------------------------------
(* getFeedItems *)

\* The items that v makes visible, in every order.
AnyOrder(v) ==
    {[n \in DOMAIN s |-> ItemAt(s[n])] : s \in Orders(Cells({p[2] : p \in v}))}

\* The answer of FeedItemsController when v is visible: ORDER BY publish_date
\* DESC, which puts null first and leaves the order of a day open.
ItemAnswers(v) ==
    {s \in AnyOrder(v) : \A i, j \in DOMAIN s : i < j =>
        \/ s[i].date = Null
        \/ s[j].date # Null /\ s[i].date >= s[j].date}

ReadItems(l) ==
    /\ load[l].step = "asked"
    /\ load' = [load EXCEPT ![l] = [step |-> "served", read |-> visible]]
    /\ UNCHANGED <<pageVars, post, timers, cableVars, railsVars, history>>

LoadEnds(l) == load' = [load EXCEPT ![l] = [step |-> "ended", read |-> {}]]

\* setFeedItems replaces what the page has.
LoadReturns(l) ==
    /\ load[l].step = "served"
    /\ feedItems' \in ItemAnswers(load[l].read)
    /\ LoadEnds(l)
    /\ UNCHANGED <<urls, loading, error, rows, post, timers, cableVars, railsVars, history>>

\* The banner is the Dashboard's own; handleLogin's error goes to the login form.
LoadThrows(l) ==
    /\ load[l].step \in {"asked", "served"}
    /\ error' = IF l = "mount" THEN "load" ELSE error
    /\ LoadEnds(l)
    /\ UNCHANGED <<urls, loading, rows, feedItems, post, timers, cableVars, railsVars, history>>

----------------------------------------------------------------------------
(* The cable: useFeedChannel, FeedChannel and what ActionCable does for them *)

\* The subscription is confirmed, also the one that is made again after a loss.
Subscribed ==
    /\ ~streaming
    /\ streaming' = TRUE
    /\ UNCHANGED <<pageVars, callVars, wire, drops, railsVars, history>>

\* Nothing is sent again to a page that comes back.
ConnectionIsLost ==
    /\ streaming
    /\ drops < MaxDrops
    /\ drops' = drops + 1
    /\ streaming' = FALSE
    /\ missed' = missed \union {wire[k].id : k \in DOMAIN wire}
    /\ wire' = <<>>
    /\ UNCHANGED <<pageVars, callVars, railsVars, early, raced>>

\* An item of rssservice as the broadcast has it.
Sent(item) == [link |-> item.link, date |-> IF item.date = Null THEN ZeroDate ELSE item.date]

\* Places of some feeds with all their links, in each feed a link once: deduplicate
\* drops what another feed that was fetched has too, a cached feed is not compared.
Listed(feeds) ==
    {K \in SUBSET Cells(feeds) :
        /\ {ItemAt(c).link : c \in K} = {ItemAt(c).link : c \in Cells(feeds)}
        /\ \A c, d \in K : c[1] = d[1] /\ ItemAt(c).link = ItemAt(d).link => c = d}

\* Those of a feed come newest first, without a date (0) last.
Sorted(s) ==
    \A i, j \in DOMAIN s : i < j /\ s[i][1] = s[j][1] => ItemAt(s[i]).date >= ItemAt(s[j]).date

\* The items of a result: those of cached feeds first, then what Parse returned.
SentItems(feeds) ==
    {[n \in DOMAIN s |-> Sent(ItemAt(s[n]))] :
        s \in {s \in UNION {Orders(K) : K \in Listed(feeds)} : Sorted(s)}}

\* Whether a result has errors: a feed that brings nothing failed, or has no items.
Errors(r, o) == IF o.status = "failed" THEN {TRUE} ELSE {FALSE, o.feeds # asked[r]}

Message(r, o, items, errors) ==
    [id |-> r, status |-> o.status, feeds |-> o.feeds, items |-> items, errors |-> errors]

\* Rails commits the last row of f for r.
ShowItems(r, f) ==
    /\ f \in asked[r]
    /\ <<r, f>> \notin visible
    /\ Service!Show(r, f)
    /\ UNCHANGED <<asked, pageVars, callVars, cableVars, history>>

\* Rails broadcasts to the stream of the user.
TellOutcome(r, o) ==
    /\ Created(r) /\ o \in Outcomes(r)
    /\ <<r, o>> \notin told /\ Cardinality(told) < MaxTells
    /\ Service!Tell(r, o)
    /\ IF streaming
       THEN /\ \E items \in SentItems(o.feeds), errors \in Errors(r, o) :
                 wire' = Append(wire, Message(r, o, items, errors))
            /\ UNCHANGED missed
       ELSE missed' = missed \union {r} /\ UNCHANGED wire
    /\ UNCHANGED <<asked, pageVars, callVars, streaming, drops, early, raced>>

----------------------------------------------------------------------------
(* handleBroadcastMessage *)

\* What filter keeps of the items of a message, in its order: those whose link the
\* page lacks.
NewItems(items) ==
    LET new == {k \in DOMAIN items : items[k].link \notin LinksOf(feedItems)}
    IN {[n \in DOMAIN s |-> items[s[n]]] :
           s \in {s \in Orders(new) : \A i, j \in DOMAIN s : i < j => s[i] < s[j]}}

\* Mutant: the new items take the place of what was there.
ReplaceItems(items) == NewItems(items)

\* Mutant: every item of the message goes in front.
MergeAll(items) == {items \o feedItems}

\* New links go in front, whatever their date.
Merge(items) == {new \o feedItems : new \in NewItems(items)}

\* Mutant: the status of the row stays what it was.
KeepStatus(r, status) == rows

\* Mutant: a row that the message touches is processing.
ProcessingStatus(r, status) == [rows EXCEPT ![r] = "processing"]

SetStatus(r, status) ==
    [rows EXCEPT ![r] = IF @ = "none" THEN @ ELSE status]

\* Only done and failed are ever broadcast, so the timer is always set.
handleBroadcastMessage ==
    /\ wire # <<>>
    /\ LET data == Head(wire) IN
       /\ wire' = Tail(wire)
       /\ rows' = SetStatus(data.id, data.status)
       /\ timers' = [timers EXCEPT ![data.id] = @ + 1]
       /\ feedItems' \in IF data.status = "done" THEN Merge(data.items) ELSE {feedItems}
       /\ error' = IF data.errors THEN "feeds" ELSE error
       /\ early' = IF rows[data.id] = "none" THEN early \union {data.id} ELSE early
       /\ raced' = raced \union {p \in {data.id} \X data.feeds :
                        \E l \in Loads : load[l].step = "served" /\ p \notin load[l].read}
    /\ UNCHANGED <<urls, loading, post, load, streaming, drops, railsVars, missed>>

\* Mutant: only the rows of requests that are done go away.
RemoveDone(r) ==
    /\ timers[r] > 0
    /\ timers' = [timers EXCEPT ![r] = @ - 1]
    /\ rows' = [rows EXCEPT ![r] = IF @ = "done" THEN "none" ELSE @]
    /\ UNCHANGED <<urls, loading, error, feedItems, post, load, cableVars, railsVars, history>>

\* Three seconds later.
TimerFires(r) ==
    /\ timers[r] > 0
    /\ timers' = [timers EXCEPT ![r] = @ - 1]
    /\ rows' = [rows EXCEPT ![r] = "none"]
    /\ UNCHANGED <<urls, loading, error, feedItems, post, load, cableVars, railsVars, history>>

\* ErrorBanner's onClose.
CloseBanner ==
    /\ error # "none"
    /\ error' = "none"
    /\ UNCHANGED <<urls, loading, rows, feedItems, callVars, cableVars, railsVars, history>>

----------------------------------------------------------------------------
Init ==
    /\ urls = <<NoUrl>>
    /\ loading = FALSE
    /\ error = "none"
    /\ rows = [r \in Requests |-> "none"]
    /\ feedItems = <<>>
    /\ post = NoPost
    /\ load = [l \in Loads |-> [step |-> "asked", read |-> {}]]
    /\ timers = [r \in Requests |-> 0]
    /\ streaming = FALSE
    /\ wire = <<>>
    /\ drops = 0
    /\ asked = [r \in Requests |-> IF r = Earlier THEN EarlierUrls ELSE {}]
    /\ Service!Init
    /\ missed = {}
    /\ early = {}
    /\ raced = {}

Form ==
    \/ \E k \in DOMAIN urls, url \in Typed \union {NoUrl} : handleUrlChange(k, url)
    \/ addField
    \/ \E k \in DOMAIN urls : removeField(k)
    \/ handleSubmit

Next ==
    \/ Form
    \/ SubmitReturns
    \/ SubmitThrows
    \/ \E r \in Requests : CreateRequest(r) \/ TimerFires(r)
    \/ \E l \in Loads : ReadItems(l) \/ LoadReturns(l) \/ LoadThrows(l)
    \/ Subscribed
    \/ ConnectionIsLost
    \/ \E r \in Requests, f \in Feeds : ShowItems(r, f)
    \/ \E r \in Requests, o \in Service!Outcomes : TellOutcome(r, o)
    \/ handleBroadcastMessage
    \/ CloseBanner

Spec == Init /\ [][Next]_vars

\* Timers fire and messages on an open connection arrive.  Nobody has to use the
\* page, the connection may stay down, and a call may hang: fetch has no timeout.
Fairness ==
    /\ WF_vars(handleBroadcastMessage)
    /\ \A r \in Requests : WF_vars(TimerFires(r))

FairSpec == Spec /\ Fairness

----------------------------------------------------------------------------
(* Properties *)

Dates == Int
PageItems == [link : UNION {LinksOf(ItemsOf[f]) : f \in Feeds}, date : Dates]
Messages == [id : Requests, status : {"done", "failed"}, feeds : SUBSET Feeds,
             items : Seq(PageItems), errors : BOOLEAN]

\* Every variable keeps its type.
TypeOK ==
    /\ urls \in Seq(Feeds \union {NoUrl}) /\ urls # <<>>
    /\ loading \in BOOLEAN
    /\ error \in Banners
    /\ rows \in [Requests -> Statuses]
    /\ feedItems \in Seq(PageItems)
    /\ post \in [step : {"none", "sent", "served"}, urls : SUBSET Feeds, id : Requests]
    /\ load \in [Loads -> [step : {"asked", "served", "ended"}, read : SUBSET (Requests \X Feeds)]]
    /\ timers \in [Requests -> Nat]
    /\ streaming \in BOOLEAN
    /\ wire \in Seq(Messages)
    /\ drops \in 0 .. MaxDrops
    /\ asked \in [Requests -> SUBSET Feeds]
    /\ visible \subseteq Requests \X Feeds
    /\ told \subseteq Requests \X Service!Outcomes
    /\ missed \subseteq Requests
    /\ early \subseteq Requests
    /\ raced \subseteq Requests \X Feeds

OnWire(r) == \E k \in DOMAIN wire : wire[k].id = r

\* What the user was told of is on the page.  It is missing only while its
\* broadcast is on the way, when a broadcast found no subscription, or when the
\* broadcast overtook the answer of a load that had read less
\* (App.jsx:71-77 and 135-138).  That the page needs no other reason rests on the
\* order in which Rails saves and broadcasts.
MissingHasReason ==
    \A t \in told : \A f \in t[2].feeds :
        \/ LinksOf(ItemsOf[f]) \subseteq LinksOf(feedItems)
        \/ OnWire(t[1])
        \/ t[1] \in missed
        \/ <<t[1], f>> \in raced

\* No two of the visible items have a link in common, and each has its own day.
Distinct(items) ==
    \A i, j \in DOMAIN items : i # j =>
        items[i].link # items[j].link /\ items[i].date # items[j].date

\* A page that has all the items shows what a reload would show, card by card,
\* however it came by them: by broadcasts in any order, by loads, or by both
\* (App.jsx:71-77, FeedList.jsx:7-11, feed_items_controller.rb:4-8).  The exceptions
\* are undated items of a broadcast, shared links and items of one day.
LiveMatchesReload ==
    \A answer \in ItemAnswers(visible) :
        /\ Distinct(answer)
        /\ LinksOf(answer) = LinksOf(feedItems)
        /\ \A k \in DOMAIN feedItems : ~IsInvalid(feedItems[k].date)
        => sortedItems(feedItems) = sortedItems(answer)

\* A row says pending after its request was broadcast only while the message is on
\* its way, when it did not reach the page, or when it came before the answer to
\* the submission and found no row to change (App.jsx:51-62 and 94-102).
StuckRowHasReason ==
    \A r \in Requests : rows[r] = "pending" /\ Told(r) =>
        OnWire(r) \/ r \in missed \union early

\* The row of a broadcast request goes away in the end, with the same exceptions
\* (App.jsx:64-69).
RowsSettle ==
    \A r \in Requests :
        rows[r] # "none" /\ Told(r) ~> rows[r] = "none" \/ r \in missed \union early

----------------------------------------------------------------------------
(* What the documents and comments say, and the code does not keep. *)

\* FeedList.jsx:6: "Sort items by publish_date descending", and GEMINI.md:662 of
\* rss_frontend: "sorted by publish_date desc (matches rssreader sort order)", in
\* which undated items come last.
NewestFirst ==
    LET shown == sortedItems(feedItems)
        Undated(k) == shown[k].shows \in {Blank, ZeroDate}
    IN \A i, j \in DOMAIN shown : i < j =>
           Undated(j) \/ (~Undated(i) /\ shown[i].shows >= shown[j].shows)
=============================================================================
