--------------------------- MODULE MeetingScreens ---------------------------
(***************************************************************************)
(* What a candidate's screens show of the meeting of MeetingRegistrations  *)
(* and which buttons they offer: the summary the API computes beside the   *)
(* checks of its requests, and the cards that MeetingCalendarView and      *)
(* MyMeetingRegistrationsView draw from it.                                *)
(*                                                                         *)
(* Every definition is of a screen that has just been read.  The three     *)
(* queries behind it are one step here, and the calendar keeps the day     *)
(* details it has loaded: README.md, "Not modelled", says what that means. *)
(***************************************************************************)
EXTENDS MeetingRegistrations

(* The summary of the API.                                                 *)

IsBooked(s) == OnSlot(registration, s) # {}
MyRegistration(c) == OfCandidate(registration, c)
BookedByMe(c, s) == \E r \in MyRegistration(c) : registration[r].slot = s

IsBookableByDate == clock \in {"before", "dayBefore"}
IsSelfCancellationAllowed == clock = "before"
HasAnyFreeSlot == Slot = {} \/ \E s \in Slot : ~IsBooked(s)

CanBook(c) ==
  /\ c \in approved
  /\ IsBookableByDate
  /\ MyRegistration(c) = {}
  /\ HasAnyFreeSlot

(* The first of the conditions, in the order of the code.  No application  *)
(* is approved at all, or none for this commission: one case here.         *)
BookingBlockedReason(c) ==
  IF c \notin approved THEN "NOT_APPROVED_APPLICATION"
  ELSE IF ~IsBookableByDate THEN "MEETING_NOT_OPEN"
  ELSE IF MyRegistration(c) # {} THEN "ALREADY_REGISTERED"
  ELSE IF ~HasAnyFreeSlot THEN "NO_FREE_SLOTS"
  ELSE "none"

(* Mutant: the deadline of a booking taken for that of a cancellation.     *)
CanCancelUntilMeetingDay(c) == MyRegistration(c) # {} /\ IsBookableByDate

CanCancelMyRegistration(c) == MyRegistration(c) # {} /\ IsSelfCancellationAllowed
-----------------------------------------------------------------------------
(* The buttons of the screens.                                             *)

BookingButtons(c) == {s \in Place : CanBook(c) /\ ~IsBooked(s)}

(* A card with slots has the button beside the slot booked by me.          *)
CancellationButtonOnCard(c) ==
  /\ CanCancelMyRegistration(c)
  /\ Slot # {} => \E s \in Slot : BookedByMe(c, s)

(* The list of my registrations has one card for each, with its own        *)
(* canCancelMyRegistration.                                                *)
CancellationButtonInMyList(c) == MyRegistration(c) # {} /\ IsSelfCancellationAllowed
-----------------------------------------------------------------------------
(* The answers of the API about the meeting.                               *)

(* listForScout, for the months from first to last; the months are counted *)
(* from that of the meeting, and the page asks for one.                    *)
ListedIn(first, last) == first <= 0 /\ 0 <= last

(* The counts beside the summary: active rows are counted once for the     *)
(* meeting and once for each slot.                                         *)
TotalSlots         == Cardinality(Slot)
AvailableSlots     == Cardinality({s \in Slot : ~IsBooked(s)})
RegistrationsCount == Cardinality(RegisteredIn(registration))

(* listMyRegistrationsForScout, up to the end of the day of the meeting,   *)
(* and, for a manager, listMeetingRegistrations.                           *)
MyRegistrationsList(c) ==
  {[row |-> r, slot |-> registration[r].slot] : r \in {q \in MyRegistration(c) : clock # "after"}}
MeetingRegistrationsList ==
  {[row |-> r, candidate |-> registration[r].candidate, slot |-> registration[r].slot] :
     r \in RegisteredIn(registration)}
-----------------------------------------------------------------------------
(* The page: three views, of which the calendar and the list can be        *)
(* filtered.  A link to another view takes its own filters along, and the  *)
(* page drops those that the view does not have.                           *)
View   == {"list", "calendar", "mine"}
Filter == [open: BOOLEAN, available: BOOLEAN, commission: {"all", "own", "other"}]
NoFilter == [open |-> FALSE, available |-> FALSE, commission |-> "all"]

FiltersOfView(view, f) ==
  CASE view = "list"     -> f
    [] view = "calendar" -> [NoFilter EXCEPT !.commission = f.commission]
    [] view = "mine"     -> NoFilter

(* Mutant: a meeting is available when it can be booked.                   *)
AvailableIsBookable(c) == CanBook(c)

IsMeetingAvailableForUser(c) == CanBook(c) \/ MyRegistration(c) # {}

(* filterMeetings; the meeting is open.                                    *)
Kept(c, f) ==
  /\ f.available => IsMeetingAvailableForUser(c)
  /\ f.commission # "other"

(* What the page of a month asks the API for: my registrations of all      *)
(* months, or the meetings of its own.                                     *)
PageData(c, view, month) ==
  [meetings      |-> IF view # "mine" /\ ListedIn(month, month) THEN {"meeting"} ELSE {},
   registrations |-> IF view = "mine" THEN MyRegistrationsList(c) ELSE {}]

(* The calendar and the list show the meetings, or one of two empty states. *)
MeetingsShown(c, f, meetings) ==
  IF meetings = {} THEN "emptyMonth" ELSE IF ~Kept(c, f) THEN "filteredEmpty" ELSE "meetings"

(* The page itself; the attempts to load it and its errors are left out.   *)
PageShows(c, view, f, month) ==
  LET data == PageData(c, view, month) IN
  IF view # "mine" THEN MeetingsShown(c, FiltersOfView(view, f), data.meetings)
  ELSE IF data.registrations = {} THEN "noRegistrations" ELSE "registrations"

(* The day of the meeting on a page that shows it: the marker of my        *)
(* registration, and the card, which says so again in its header.          *)
MarkedMine(c) == MyRegistration(c) # {}

(* renderMeetingCard, row by row: a slot, or the day of a DAY_ONLY meeting. *)
CancellationShown(c) == IF CanCancelMyRegistration(c) THEN "cancel" ELSE "deadlinePassed"
OfferShown(c) ==
  IF CanBook(c) THEN "book"
  ELSE IF BookingBlockedReason(c) # "none" THEN "blocked" ELSE "notAvailableNow"
RowShown(c, s) ==
  IF s \in Slot
  THEN IF BookedByMe(c, s) THEN CancellationShown(c)
       ELSE IF IsBooked(s) THEN "booked" ELSE OfferShown(c)
  ELSE IF MyRegistration(c) # {} THEN CancellationShown(c) ELSE OfferShown(c)
MineShown == {"cancel", "deadlinePassed"}

(* MyMeetingRegistrationsView: a card for each registration of my list.    *)
MyCards(c) ==
  {[slot |-> entry.slot, shown |-> IF CancellationButtonInMyList(c) THEN "cancel" ELSE "deadlinePassed"] :
     entry \in MyRegistrationsList(c)}

(* The card of the dashboard: the first registration of my list, or links. *)
UpcomingCard(c) ==
  IF MyRegistrationsList(c) = {} THEN {} ELSE {CHOOSE card \in MyRegistrationsList(c) : TRUE}
-----------------------------------------------------------------------------
(* What the API would do with a request that is about to run alone.        *)
Granted(w) == Admitted(w) # {} /\ Taken(registration, w) = {}

(* The screens and the requests follow rules of their own: a fresh screen  *)
(* offers a booking exactly when the request would be granted, names a     *)
(* reason exactly when it offers none, and shows either cancel button      *)
(* exactly when the cancellation would be granted.                         *)
OfferedIsGranted ==
  /\ \A w \in {v \in Worker : tx[v].phase = "queued"} :
       /\ tx[w].op = "createRegistration" =>
            (tx[w].slot \in BookingButtons(tx[w].candidate) <=> Granted(w))
       /\ tx[w].op = "cancelMyRegistration" =>
            /\ CancellationButtonOnCard(tx[w].candidate) <=> Admitted(w) # {}
            /\ CancellationButtonInMyList(tx[w].candidate) <=> Admitted(w) # {}
  /\ \A c \in Candidate : BookingBlockedReason(c) = "none" <=> BookingButtons(c) # {}

(* The summary, its counts, the lists, the filters and the cards are made  *)
(* by queries and conditions of their own; read at one moment, they tell a *)
(* candidate one story.  The counts differ by the booked slots.  Whoever   *)
(* filters for what is available keeps the meeting exactly if its card has *)
(* a button to book or shows a booking of theirs.  A registration is shown *)
(* on one row and is never filtered out but by the commission.  Until the  *)
(* day of the meeting is over my list has it too, in every month, and the  *)
(* dashboard, on the same row and with the same offer to cancel; from then *)
(* on they leave out what the calendar and the list still mark as mine,    *)
(* and nothing can be done with it there.  No row is left without an       *)
(* offer, a reason or a booking.  The manager's list holds what the API    *)
(* lets a manager cancel, each candidate and each slot once.               *)
ScreensAgree ==
  /\ Slot # {} => AvailableSlots + RegistrationsCount = TotalSlots
  /\ \A c \in Candidate :
       /\ PageShows(c, "list", [NoFilter EXCEPT !.available = TRUE], 0) = "meetings" <=>
            \E s \in Place : RowShown(c, s) \in MineShown \cup {"book"}
       /\ MarkedMine(c) =>
            /\ \E own \in Place :
                 /\ {s \in Place : RowShown(c, s) \in MineShown} = {own}
                 /\ {card.slot : card \in UpcomingCard(c)} = IF clock = "after" THEN {} ELSE {own}
            /\ \A view \in View \ {"mine"}, f \in Filter :
                 f.commission # "other" => PageShows(c, view, f, 0) = "meetings"
            /\ \A card \in MyCards(c) : RowShown(c, card.slot) = card.shown
            /\ \A s \in Place :
                 RowShown(c, s) = "cancel" => \E card \in MyCards(c) : card.slot = s
       /\ \A f \in Filter, month \in {0, 1} :
            PageShows(c, "mine", f, month) = "registrations" <=> MarkedMine(c) /\ clock # "after"
       /\ \A s \in Place : RowShown(c, s) # "notAvailableNow"
  /\ \A w \in {v \in Worker : tx[v].phase = "queued" /\ tx[v].op = "cancelRegistration"} :
       (\E entry \in MeetingRegistrationsList : entry.row = tx[w].row) <=> Admitted(w) # {}
  /\ \A e, o \in MeetingRegistrationsList :
       e # o => e.candidate # o.candidate /\ (Slot # {} => e.slot # o.slot)
=============================================================================
