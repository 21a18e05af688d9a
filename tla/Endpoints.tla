------------------------------- MODULE Endpoints -------------------------------
(***************************************************************************)
(* shared/api/endpoints.ts: what each call of the mini app reads or writes *)
(* on the server, by table.  A response's own rows count, and so do the    *)
(* photos and the rating that services and staff carry with them; titles   *)
(* and names joined into a row of another table do not.  "accounts" is the *)
(* column staff.user_id, the link between a staff member and a user.       *)
(***************************************************************************)
EXTENDS FiniteSets

Table == {"branches", "services", "staff", "links", "accounts", "hours", "exceptions",
          "business", "bookings", "reviews", "photos", "team", "profile"}

Reads(tables) == [reads |-> tables, writes |-> {}]
Writes(tables) == [reads |-> {}, writes |-> tables]

\* The server has no such route and answers 405.
Unserved == [reads |-> {}, writes |-> {}]

BranchesApi == [list |-> Reads({"branches"})]

ServicesApi ==
    [list |-> Reads({"services", "photos", "reviews"}),
     get  |-> Reads({"services", "photos", "reviews"})]

StaffApi ==
    [listForService |-> Reads({"staff", "links", "photos", "reviews"}),
     get            |-> Reads({"staff", "photos", "reviews"})]

\* A review updates the rating of its service and staff member.
ReviewsApi ==
    [create         |-> Writes({"reviews"}),
     context        |-> Reads({"bookings", "reviews"}),
     listForService |-> Reads({"reviews"}),
     listForStaff   |-> Reads({"reviews"})]

SlotsApi ==
    [forDay |-> Reads({"bookings", "business", "services", "staff", "links",
                       "branches", "hours", "exceptions"})]

\* listMy is followed by module BookingFlow.
BookingsApi ==
    [create     |-> Writes({"bookings"}),
     listMy     |-> Reads({"bookings"}),
     cancel     |-> Writes({"bookings"}),
     reschedule |-> Writes({"bookings"})]

\* The ticket of an export is signed and not stored.
AdminFiguresApi ==
    [dashboard         |-> Reads({"bookings"}),
     statistics        |-> Reads({"bookings"}),
     issueExportTicket |-> Writes({})]

AdminBranchesApi ==
    [list    |-> Reads({"branches"}),
     create  |-> Writes({"branches"}),
     update  |-> Writes({"branches"}),
     archive |-> Writes({"branches"})]

AdminBusinessApi ==
    [get    |-> Reads({"business"}),
     update |-> Writes({"business"})]

AdminServicesApi ==
    [create  |-> Writes({"services"}),
     update  |-> Writes({"services"}),
     archive |-> Writes({"services"})]

\* GET /admin/staff fills the services of each row and not its user_id, and
\* there is no GET of a staff member's exceptions.
AdminStaffApi ==
    [list                |-> Reads({"staff", "links"}),
     create              |-> Writes({"staff", "accounts"}),
     update              |-> Writes({"staff", "accounts"}),
     archive             |-> Writes({"staff"}),
     replaceServices     |-> Writes({"links"}),
     getWorkingHours     |-> Reads({"hours"}),
     replaceWorkingHours |-> Writes({"hours"}),
     listExceptions      |-> Unserved,
     createException     |-> Writes({"exceptions"}),
     deleteException     |-> Writes({"exceptions"})]

AdminBookingsApi ==
    [list       |-> Reads({"bookings"}),
     patch      |-> Writes({"bookings"}),
     create     |-> Writes({"bookings"}),
     cancel     |-> Writes({"bookings"}),
     reschedule |-> Writes({"bookings"})]

\* The users that a staff member may be linked to.
AdminUsersApi == [list |-> Reads({"team", "accounts"})]

\* Who stops being staff loses the link to the staff member.
AdminTeamApi ==
    [get           |-> Reads({"team"}),
     createInvite  |-> Writes({"team"}),
     revokeInvite  |-> Writes({"team"}),
     setMemberRole |-> Writes({"team", "accounts"}),
     removeMember  |-> Writes({"team", "accounts"})]

\* The intent is a row that no query reads: the upload is finished by the bot.
\* updateSort is called nowhere.
AdminPhotosApi ==
    [createUploadIntent |-> Writes({}),
     delete             |-> Writes({"photos"})]

AdminReviewsApi ==
    [list   |-> Reads({"reviews"}),
     hide   |-> Writes({"reviews"}),
     unhide |-> Writes({"reviews"}),
     reply  |-> Writes({"reviews"}),
     delete |-> Writes({"reviews"})]

MeApi ==
    [get              |-> Reads({"profile"}),
     patchPreferences |-> Writes({"profile"}),
     patchProfile     |-> Writes({"profile"})]

StaffMeApi ==
    [profile             |-> Reads({"staff", "accounts"}),
     bookings            |-> Reads({"bookings"}),
     patchBooking        |-> Writes({"bookings"}),
     schedule            |-> Reads({"hours", "exceptions", "bookings"}),
     getWorkingHours     |-> Reads({"hours"}),
     replaceWorkingHours |-> Writes({"hours"}),
     createException     |-> Writes({"exceptions"}),
     deleteException     |-> Writes({"exceptions"}),
     cancelBooking       |-> Writes({"bookings"}),
     rescheduleBooking   |-> Writes({"bookings"}),
     statistics          |-> Reads({"bookings"})]
=================================================================================
