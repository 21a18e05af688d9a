--------------------------------- MODULE Pages ---------------------------------
(***************************************************************************)
(* The pages of the mini app around the booking wizard: which queries each *)
(* of them observes, what its forms start from and what it saves.  A tab   *)
(* of a page is a page here; the tabs of one component share a shell, so   *)
(* that changing between them mounts only what the tab adds.               *)
(***************************************************************************)
EXTENDS Queries

(***************************************************************************)
(* A form starts from the data of a query.  With each it starts over       *)
(* whenever other data lands, else once, when it first has data; with      *)
(* blank it may be edited and saved before.                                *)
(***************************************************************************)
Draft(q, each) == [of |-> {q}, each |-> each, blank |-> FALSE]
NoDraft == [of |-> {}, each |-> FALSE, blank |-> TRUE]

\* The page that is shown after a save; Stay if it is the same one.
Stay == "stay"

\* A button, one that the rows of a query carry, and one that sends what the
\* form holds of the tables.
Button(m, next) == [by |-> m, next |-> next, rows |-> {}, replaces |-> {}]
RowButton(m, next, q) == [Button(m, next) EXCEPT !.rows = {q}]
Submit(m, next, tables) == [Button(m, next) EXCEPT !.replaces = tables]

\* needs: queries without whose data the page has no form and no button.
Page(shell, shows) ==
    [shell |-> shell, guard |-> "none", shows |-> shows, needs |-> {},
     draft |-> NoDraft, saves |-> <<>>]
AdminPage(shell, shows) == [Page(shell, shows) EXCEPT !.guard = "admin"]
StaffPage(shell, shows) == [Page(shell, shows) EXCEPT !.guard = "staff"]

-----------------------------------------------------------------------------
(* Client *)

OnboardingPage == Page("home", {})

\* The client's own bookings are module BookingFlow's.
MyBookingsPage == Page("myBookings", {})

BranchStep == Page("branch", {useBranches})
ServiceStep == Page("service", {useServices})
StaffStep == Page("staff", {useStaffForService})
TimeStep == Page("time", {useSlotsForDay})

ServiceDetailPage == Page("serviceDetail", {serviceDetail, serviceReviews})
StaffPublicProfilePage == Page("staffProfile", {staffDetail, staffReviews})

ReviewPage ==
    [Page("review", {reviewContext}) EXCEPT
        !.saves = [submit |-> Button(createReview, "myBookings")]]

\* The number typed and the switch; the page shows them once there is data.
SettingsPage ==
    [Page("settings", {me}) EXCEPT
        !.needs = {me}, !.draft = Draft(me, TRUE),
        !.saves = [toggle    |-> Submit(patchPrefs, Stay, {"profile"}),
                   savePhone |-> Submit(patchProfile, Stay, {"profile"})]]

-----------------------------------------------------------------------------
(* Administrator *)

AdminDashboardPage == AdminPage("dashboard", {useAdminDashboard, useAdminBookings("today")})

AdminBookingsPage == AdminPage("bookings", {useAdminBookings("today")})

AdminCalendarPage == AdminPage("calendar", {useAdminBookings("week"), useAdminStaff})

AdminStatisticsPage == AdminPage("statistics", {useStatistics})

\* BookingForm offers the services and the staff.
AdminBookingNewPage ==
    [AdminPage("bookingNew", {useAdminServices, useAdminStaff}) EXCEPT
        !.saves = [submit |-> Button(useCreateAdminBooking, "bookingDetail")]]

AdminBookingDetailPage ==
    [AdminPage("bookingDetail", {useAdminBookingDetail}) EXCEPT
        !.needs = {useAdminBookingDetail}, !.draft = Draft(useAdminBookingDetail, TRUE),
        !.saves = [setStatus   |-> Button(usePatchBooking, Stay),
                   saveComment |-> Submit(usePatchBooking, Stay, {"bookings"}),
                   reschedule  |-> Button(useAdminRescheduleBooking, Stay),
                   cancel      |-> Button(useAdminCancelBooking, "bookings")]]

AdminServicesPage == AdminPage("services", {useAdminServices})

\* AdminServiceFormPage without and with an id; ServiceForm takes its initial
\* values when it mounts.
AdminServiceNewPage ==
    [AdminPage("serviceNew", {useAdminServices, useAdminBranches}) EXCEPT
        !.saves = [create |-> Button(useCreateService, "services")]]
AdminServiceFormPage ==
    [AdminPage("serviceForm", {useAdminServices, servicePhotos, useAdminBranches}) EXCEPT
        !.needs = {useAdminServices}, !.draft = Draft(useAdminServices, FALSE),
        !.saves = [update    |-> Submit(useUpdateServiceById, "services", {"services"}),
                   archive   |-> Button(useArchiveService, "services"),
                   delPhoto  |-> RowButton(delServicePhoto, Stay, servicePhotos)]]

AdminBranchesPage == AdminPage("branches", {useAdminBranches})

AdminBranchNewPage ==
    [AdminPage("branchNew", {useAdminBranches}) EXCEPT
        !.saves = [create |-> Button(useCreateBranch, "branches")]]
AdminBranchFormPage ==
    [AdminPage("branchForm", {useAdminBranches}) EXCEPT
        !.needs = {useAdminBranches}, !.draft = Draft(useAdminBranches, FALSE),
        !.saves = [update  |-> Submit(useUpdateBranch, "branches", {"branches"}),
                   archive |-> Button(useArchiveBranch, "branches")]]

AdminSettingsPage ==
    [AdminPage("business", {useAdminBusiness}) EXCEPT
        !.needs = {useAdminBusiness}, !.draft = Draft(useAdminBusiness, TRUE),
        !.saves = [save |-> Submit(useUpdateBusiness, Stay, {"business"})]]

AdminStaffPage == AdminPage("staffList", {useAdminStaff})

\* StaffForm with UserLinkField.
AdminStaffFormPage ==
    [AdminPage("staffNew", {useAdminBranches, linkableUsers}) EXCEPT
        !.saves = [create |-> Button(useCreateStaff, "staffProfileTab")]]

\* AdminStaffDetailPage, which waits for the list, and its tabs.
AdminStaffDetailPage(adds) ==
    [AdminPage("staffDetail", {useAdminStaff, useStaffWorkingHours} \cup adds) EXCEPT
        !.needs = {useAdminStaff}]

ProfileTab ==
    [AdminStaffDetailPage({useAdminBranches, linkableUsers, staffPhotos}) EXCEPT
        !.draft = Draft(useAdminStaff, FALSE),
        !.saves = [saveProfile  |-> Submit(useUpdateStaff, Stay, {"staff", "accounts"}),
                   archiveStaff |-> Button(useArchiveStaff, "staffList"),
                   delPhoto     |-> RowButton(delStaffPhoto, Stay, staffPhotos)]]

\* StaffServicesEditor
ServicesTab ==
    [AdminStaffDetailPage({useAdminServices}) EXCEPT
        !.draft = Draft(useAdminStaff, TRUE),
        !.saves = [save |-> Submit(useReplaceStaffServices, Stay, {"links"})]]

\* WorkingHoursEditor on what there is, possibly nothing.
HoursTab ==
    [AdminStaffDetailPage({}) EXCEPT
        !.draft = [Draft(useStaffWorkingHours, TRUE) EXCEPT !.blank = TRUE],
        !.saves = [saveHours |-> Submit(useReplaceWorkingHours, Stay, {"hours"})]]

\* ExceptionsEditor
ExceptionsTab ==
    [AdminStaffDetailPage({useStaffExceptions}) EXCEPT
        !.saves = [save   |-> Button(useCreateException, Stay),
                   remove |-> RowButton(useDeleteException, Stay, useStaffExceptions)]]

\* With InviteSheet.
AdminTeamPage ==
    [AdminPage("team", {useTeam}) EXCEPT
        !.saves = [invite       |-> Button(useCreateInvite, Stay),
                   handleRevoke |-> RowButton(useRevokeInvite, Stay, useTeam),
                   saveRole     |-> RowButton(useSetMemberRole, Stay, useTeam),
                   handleRemove |-> RowButton(useRemoveMember, Stay, useTeam)]]

AdminReviewsPage ==
    [AdminPage("reviews", {adminReviews}) EXCEPT
        !.saves = [hide         |-> RowButton(hideReview, Stay, adminReviews),
                   unhide       |-> RowButton(unhideReview, Stay, adminReviews),
                   saveReply    |-> RowButton(replyToReview, Stay, adminReviews),
                   deleteReview |-> RowButton(deleteReview, Stay, adminReviews)]]

-----------------------------------------------------------------------------
(* Staff member *)

\* Every query of the cabinet is observed whatever its tab.
StaffCabinetPage ==
    [StaffPage("cabinet", {useStaffMe, useMyBookings("today"), useMySchedule,
                           useMyWorkingHours, useMyStatistics}) EXCEPT
        !.saves = [mark   |-> RowButton(useUpdateMyBooking, Stay, useMyBookings("today")),
                   cancel |-> RowButton(useCancelMyBooking, Stay, useMyBookings("today"))]]

\* The tab "schedule" with its two editors.
CabinetScheduleTab ==
    [StaffCabinetPage EXCEPT
        !.draft = [Draft(useMyWorkingHours, TRUE) EXCEPT !.blank = TRUE],
        !.saves = [saveHours |-> Submit(useReplaceMyWorkingHours, Stay, {"hours"}),
                   save      |-> RowButton(useCreateMyException, Stay, useMySchedule),
                   remove    |-> RowButton(useDeleteMyException, Stay, useMySchedule)]]

StaffBookingDetailPage ==
    [StaffPage("myBooking", {useMyBookings("all")}) EXCEPT
        !.needs = {useMyBookings("all")}, !.draft = Draft(useMyBookings("all"), FALSE),
        !.saves = [mark        |-> Button(useUpdateMyBooking, Stay),
                   saveComment |-> Submit(useUpdateMyBooking, Stay, {"bookings"}),
                   doCancel    |-> Button(useCancelMyBooking, "cabinet")]]

StaffRescheduleWizardPage ==
    [StaffPage("myReschedule", {useMyBookings("all"), useSlotsForDay}) EXCEPT
        !.needs = {useMyBookings("all")},
        !.saves = [handleSubmit |-> Button(useRescheduleMyBooking, "cabinet")]]

-----------------------------------------------------------------------------

\* The routes of app.tsx.
PageOf ==
    [home |-> OnboardingPage, myBookings |-> MyBookingsPage, branch |-> BranchStep, service |-> ServiceStep,
     staff |-> StaffStep, time |-> TimeStep,
     serviceDetail |-> ServiceDetailPage, staffProfile |-> StaffPublicProfilePage,
     review |-> ReviewPage, settings |-> SettingsPage,
     dashboard |-> AdminDashboardPage, bookings |-> AdminBookingsPage,
     bookingNew |-> AdminBookingNewPage, bookingDetail |-> AdminBookingDetailPage,
     services |-> AdminServicesPage, serviceNew |-> AdminServiceNewPage,
     serviceForm |-> AdminServiceFormPage, branches |-> AdminBranchesPage,
     branchNew |-> AdminBranchNewPage, branchForm |-> AdminBranchFormPage,
     staffList |-> AdminStaffPage, staffNew |-> AdminStaffFormPage,
     staffProfileTab |-> ProfileTab, staffServicesTab |-> ServicesTab,
     staffHoursTab |-> HoursTab, staffExceptionsTab |-> ExceptionsTab,
     calendar |-> AdminCalendarPage, business |-> AdminSettingsPage,
     statistics |-> AdminStatisticsPage, team |-> AdminTeamPage,
     reviews |-> AdminReviewsPage,
     cabinet |-> StaffCabinetPage, cabinetSchedule |-> CabinetScheduleTab,
     myBooking |-> StaffBookingDetailPage, myReschedule |-> StaffRescheduleWizardPage]

PageName == DOMAIN PageOf
AllQueries == UNION {PageOf[p].shows : p \in PageName}
=================================================================================
