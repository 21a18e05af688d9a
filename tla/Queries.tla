-------------------------------- MODULE Queries --------------------------------
(***************************************************************************)
(* The query and mutation hooks of the mini app.  A query has a key, a     *)
(* sequence of which invalidateQueries names a prefix, and the tables its  *)
(* answer is read from; fresh tells that it has a staleTime and may be     *)
(* shown on mounting without being asked for, and served that the server   *)
(* has the route.  A mutation has the tables it writes and the prefixes    *)
(* its onSuccess invalidates.  One row of each kind is followed, so ids    *)
(* are the same in every key.                                              *)
(***************************************************************************)
EXTENDS Endpoints, Sequences, SequencesExt

Id == "id"

Fresh(key, call) == [key |-> key, reads |-> call.reads, fresh |-> TRUE, served |-> call # Unserved]
Query(key, call) == [Fresh(key, call) EXCEPT !.fresh = FALSE]
Mutation(call, prefixes) == [writes |-> call.writes, invalidates |-> prefixes]

Covers(m, q) == \E prefix \in m.invalidates : IsPrefix(prefix, q.key)
Concerns(m, q) == m.writes \cap q.reads # {}

-----------------------------------------------------------------------------
(* Shared by clients and staff *)

useBranches == Fresh(<<"branches", "list">>, BranchesApi.list)
useServices == Fresh(<<"services", "list", "all">>, ServicesApi.list)
useStaffForService == Fresh(<<"staff", "forService", Id, "all">>, StaffApi.listForService)
useSlotsForDay == Fresh(<<"slots", Id, Id, "day">>, SlotsApi.forDay)
serviceDetail == Query(<<"service", Id>>, ServicesApi.get)
serviceReviews == Query(<<"reviews", "service", Id>>, ReviewsApi.listForService)
staffDetail == Query(<<"staff", Id>>, StaffApi.get)
staffReviews == Query(<<"reviews", "staff", Id>>, ReviewsApi.listForStaff)
reviewContext == Query(<<"review-context", Id>>, ReviewsApi.context)
me == Query(<<"me">>, MeApi.get)

createReview == Mutation(ReviewsApi.create,
    {<<"reviews">>, <<"services">>, <<"staff">>, <<"review-context", Id>>})
patchPrefs == Mutation(MeApi.patchPreferences, {<<"me">>})
patchProfile == Mutation(MeApi.patchProfile, {<<"me">>})

-----------------------------------------------------------------------------
(* The administrator's bookings *)

useAdminBookings(filters) == Fresh(<<"admin", "bookings", filters>>, AdminBookingsApi.list)
useAdminBookingDetail == Fresh(<<"admin", "booking", Id>>, AdminBookingsApi.list)
useAdminDashboard == Fresh(<<"admin", "dashboard">>, AdminFiguresApi.dashboard)
useStatistics == Fresh(<<"admin", "statistics", "30d">>, AdminFiguresApi.statistics)

BookingLists == {<<"admin", "bookings">>, <<"admin", "booking">>, <<"admin", "dashboard">>}

usePatchBooking == Mutation(AdminBookingsApi.patch, BookingLists)
useCreateAdminBooking == Mutation(AdminBookingsApi.create, BookingLists \cup {<<"slots">>})
useAdminCancelBooking == Mutation(AdminBookingsApi.cancel, BookingLists \cup {<<"slots">>})
useAdminRescheduleBooking ==
    Mutation(AdminBookingsApi.reschedule, BookingLists \cup {<<"slots">>})

-----------------------------------------------------------------------------
(* Branches, services and the business *)

useAdminBranches == Fresh(<<"admin", "branches", "list">>, AdminBranchesApi.list)

BranchLists == {<<"admin", "branches", "list">>, <<"branches", "list">>}
useCreateBranch == Mutation(AdminBranchesApi.create, BranchLists)
useUpdateBranch == Mutation(AdminBranchesApi.update, BranchLists)
useArchiveBranch == Mutation(AdminBranchesApi.archive, BranchLists)

useAdminServices == Fresh(<<"admin", "services">>, ServicesApi.list)
servicePhotos == Query(<<"service", Id, "photos">>, ServicesApi.get)

ServiceLists == {<<"admin", "services">>, <<"services">>}
useCreateService == Mutation(AdminServicesApi.create, ServiceLists)
useUpdateServiceById == Mutation(AdminServicesApi.update, ServiceLists)
useArchiveService == Mutation(AdminServicesApi.archive, ServiceLists)
delServicePhoto == Mutation(AdminPhotosApi.delete, {<<"service", Id, "photos">>})

useAdminBusiness == Fresh(<<"admin", "business">>, AdminBusinessApi.get)
useUpdateBusiness == Mutation(AdminBusinessApi.update, {<<"admin", "business">>, <<"slots">>})

-----------------------------------------------------------------------------
(* Staff members, the team and reviews *)

useAdminStaff == Fresh(<<"admin", "staff">>, AdminStaffApi.list)
useStaffWorkingHours ==
    Fresh(<<"admin", "staff", Id, "working-hours">>, AdminStaffApi.getWorkingHours)
useStaffExceptions ==
    Fresh(<<"admin", "staff", Id, "exceptions">>, AdminStaffApi.listExceptions)
linkableUsers == Query(<<"admin", "users", "linkable", Id>>, AdminUsersApi.list)
staffPhotos == Query(<<"staff", Id, "photos">>, StaffApi.get)

StaffLists == {<<"admin", "staff">>, <<"staff">>}
useCreateStaff == Mutation(AdminStaffApi.create, StaffLists)
useUpdateStaff == Mutation(AdminStaffApi.update, StaffLists)
useArchiveStaff == Mutation(AdminStaffApi.archive, StaffLists)
useReplaceStaffServices ==
    Mutation(AdminStaffApi.replaceServices, StaffLists \cup {<<"admin", "staff", Id>>})
useReplaceWorkingHours ==
    Mutation(AdminStaffApi.replaceWorkingHours, {<<"admin", "staff", Id, "working-hours">>})
\* save and remove of the editor also ask for the list again.
useCreateException ==
    Mutation(AdminStaffApi.createException, {<<"admin", "staff", Id>>})
useDeleteException ==
    Mutation(AdminStaffApi.deleteException, {<<"admin", "staff", Id>>})
delStaffPhoto == Mutation(AdminPhotosApi.delete, {<<"staff", Id, "photos">>})

useTeam == Fresh(<<"admin", "team">>, AdminTeamApi.get)
useCreateInvite == Mutation(AdminTeamApi.createInvite, {<<"admin", "team">>})
useRevokeInvite == Mutation(AdminTeamApi.revokeInvite, {<<"admin", "team">>})
useSetMemberRole == Mutation(AdminTeamApi.setMemberRole, {<<"admin", "team">>})
useRemoveMember == Mutation(AdminTeamApi.removeMember, {<<"admin", "team">>})

adminReviews == Query(<<"admin", "reviews", "all">>, AdminReviewsApi.list)
hideReview == Mutation(AdminReviewsApi.hide, {<<"admin", "reviews">>})
unhideReview == Mutation(AdminReviewsApi.unhide, {<<"admin", "reviews">>})
replyToReview == Mutation(AdminReviewsApi.reply, {<<"admin", "reviews">>})
deleteReview == Mutation(AdminReviewsApi.delete, {<<"admin", "reviews">>})

-----------------------------------------------------------------------------
(* The staff member's own cabinet *)

useStaffMe == Query(<<"staff-me", "profile">>, StaffMeApi.profile)
useMyBookings(filters) == Query(<<"staff-me", "bookings", filters>>, StaffMeApi.bookings)
useMySchedule == Query(<<"staff-me", "schedule", "week">>, StaffMeApi.schedule)
useMyWorkingHours == Query(<<"staff-me", "working-hours">>, StaffMeApi.getWorkingHours)
useMyStatistics == Query(<<"staff-me", "statistics", "30d">>, StaffMeApi.statistics)

MyCalendar == {<<"staff-me", "bookings">>, <<"staff-me", "schedule">>}

useUpdateMyBooking == Mutation(StaffMeApi.patchBooking, MyCalendar)
useCancelMyBooking == Mutation(StaffMeApi.cancelBooking, MyCalendar)
useRescheduleMyBooking == Mutation(StaffMeApi.rescheduleBooking, MyCalendar)
useReplaceMyWorkingHours ==
    Mutation(StaffMeApi.replaceWorkingHours,
             {<<"staff-me", "working-hours">>, <<"staff-me", "schedule">>})
useCreateMyException == Mutation(StaffMeApi.createException, {<<"staff-me", "schedule">>})
useDeleteMyException == Mutation(StaffMeApi.deleteException, {<<"staff-me", "schedule">>})
=================================================================================
