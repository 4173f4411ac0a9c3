------------------------------- MODULE Access -------------------------------
(***************************************************************************)
(* Which requests reach a handler: the metadata that the controllers put   *)
(* on their routes and the five global guards that read it (app.module     *)
(* applies them in this order: key, client, token, status, role).          *)
(*                                                                         *)
(* A route is one handler of one controller.  Everything the guards read   *)
(* of the account comes from the access token, never from the database.    *)
(***************************************************************************)
EXTENDS Naturals

UserRole == {"user", "manager", "admin", "engineer", "clergy"}
UserStatus == {"active", "unverified", "disabled", "blocked", "deleted"}
ApiClientType == {"mobile", "ios", "manager", "web", "web_app", "website", "landing",
                  "back_office", "swagger"}

\* The metadata of a route: @Public, @NoKey, @Roles, @RequireClientType, @AllowStatus.
SignedIn == [public |-> FALSE, noKey |-> FALSE, roles |-> {}, clients |-> {}, allow |-> {}]
Open == [SignedIn EXCEPT !.public = TRUE]
Keyless == [Open EXCEPT !.noKey = TRUE]
For(roles) == [SignedIn EXCEPT !.roles = roles]
AllowStatus(statuses) == [SignedIn EXCEPT !.allow = statuses]

Platform == {"admin", "engineer"}
Desk == {"admin", "manager"}
Parish == Platform \cup {"clergy"}

Routes(controller, policy, handlers) ==
    {[controller |-> controller, handler |-> h, policy |-> policy] : h \in handlers}

-----------------------------------------------------------------------------
(* The tables, one per controller *)

AuthRoutes ==
    Routes("auth", Open, {"register", "login", "google", "send-reset-otp",
        "confirm-reset-otp", "reset-password", "send-reset-link", "reset-from-link", "login-pin"})
    \cup Routes("auth", Keyless, {"refresh"})
    \cup Routes("auth", AllowStatus({"unverified"}), {"confirm-email", "resend-confirm"})
    \cup Routes("auth", SignedIn, {"logout", "logout-all", "update-password", "sessions",
        "revokeSession", "setup-pin", "remove-pin", "reset-pin", "has-pin", "send-pin-otp"})

\* Oneself, and the list of accounts.
UserRoutes ==
    Routes("users", SignedIn, {"getMe", "updateMe", "deleteMe"})
    \cup Routes("users", For(Desk \cup Platform), {"listUsers", "getUser"})
    \cup Routes("users", For(Desk \cup Parish), {"lookupByEmail"})

\* What is done to the account of another, and the pictures.
UserAdminRoutes ==
    Routes("users", For(Desk), {"updateStatus"})
    \cup Routes("users", For({"admin"}), {"updateRoles", "revokeUserSession",
        "revokeAllUserSessions", "hardDelete", "adminUpdateProfileImage"})
    \cup Routes("users", For(Platform), {"adminResetPassword", "getUserSessions"})
    \cup Routes("users", SignedIn, {"updateProfileImage"})

\* Countries, regions, zones and villages have the same five routes.
ReferenceRoutes(controller) ==
    Routes(controller, Open, {"list", "getById"})
    \cup Routes(controller, For(Platform), {"create", "update"})
    \cup Routes(controller, For({"admin"}), {"delete"})

CountryRoutes == ReferenceRoutes("countries")
RegionRoutes == ReferenceRoutes("regions")
ZoneRoutes == ReferenceRoutes("zones")
VillageRoutes == ReferenceRoutes("villages")

\* listActive is named list in both.
TypeRoutes == ReferenceRoutes("types") \cup Routes("types", For(Platform), {"listAdmin"})
RequestTypeRoutes ==
    ReferenceRoutes("request-types") \cup Routes("request-types", For(Platform), {"listAdmin"})

ChatRoutes ==
    Routes("chat", SignedIn, {"create", "myConversations", "getById", "listParticipants",
        "unreadCount", "listMessages", "sendMessage", "sendMessageWithFiles", "deleteMessage",
        "markRead", "handoff"})
    \cup Routes("chat", For(Platform), {"listAdmin"})
    \cup Routes("chat", For(Parish), {"releaseToBot"})

AttachmentRoutes == Routes("attachments", SignedIn, {"upload"})
ChatGuestRoutes == Routes("chat/guest", Open, {"open", "listMessages", "sendMessage"})

ChurchRoutes ==
    Routes("churches", Open, {"listPublic", "getBySlug"})
    \cup Routes("churches", SignedIn, {"getById"})
    \cup Routes("churches", For(Platform), {"listAdmin", "create", "update", "setPerimeter"})
    \cup Routes("churches", For(Parish), {"updateInfo", "updateBanner", "updateLogo",
        "addPhotos", "removePhoto"})
    \cup Routes("churches", For({"admin"}), {"updateStatus", "delete"})

ChurchProfileRoutes ==
    Routes("church-profiles", Open, {"getForChurch"})
    \cup Routes("church-profiles", For(Parish), {"upsertForChurch"})

\* What the clergy of a church manages: public to read, written by clergy and platform.
ParishRoutes(controller) ==
    Routes(controller, Open, {"list", "getById"})
    \cup Routes(controller, For(Platform), {"listAdmin"})
    \cup Routes(controller, SignedIn, {"listForChurch"})
    \cup Routes(controller, For(Parish), {"create", "update", "delete"})

ClergyMemberRoutes == ParishRoutes("clergy-members")
EntranceRoutes == ParishRoutes("entrances")
PaymentMethodRoutes == ParishRoutes("payment-methods")
GroupRoutes == ParishRoutes("groups") \cup Routes("groups", Open, {"stats"})
ScheduleRoutes ==
    ParishRoutes("schedules") \cup Routes("schedules", Open, {"massSlots", "nearby"})
\* listPublic and getPublicById are named list and getById here.
PublicationRoutes ==
    ParishRoutes("publications") \cup Routes("publications", For(Parish), {"updateStatus"})

TariffRoutes ==
    Routes("tariffs", Open, {"resolve", "resolveMinLeadHours"})
    \cup Routes("tariffs", For(Platform), {"listAdmin"})
    \cup Routes("tariffs", SignedIn, {"listForChurch"})
    \cup Routes("tariffs", For(Parish), {"getById", "create", "update", "delete"})

MembershipRoutes ==
    Routes("memberships", SignedIn, {"listMine", "listForChurch", "follow", "setHomeChurch",
        "unfollow"})
    \cup Routes("memberships", For(Platform), {"listAdmin"})

GroupMemberRoutes ==
    Routes("group-members", SignedIn, {"listMine", "join", "leave"})
    \cup Routes("group-members", For(Platform), {"listForGroup"})

MediaRoutes ==
    Routes("media", Open, {"list"})
    \cup Routes("media", For(Parish), {"upload", "add", "delete"})

RequestRoutes ==
    Routes("requests", SignedIn, {"listMine", "listForChurch", "create", "uploadAttachment",
        "getById"})
    \cup Routes("requests", For(Platform), {"listAdmin"})
    \cup Routes("requests", For(Parish), {"updateStatus"})

DonationRoutes ==
    Routes("donations", SignedIn, {"listMine", "listForChurch", "create", "getById"})
    \cup Routes("donations", For(Platform), {"listAdmin"})

PaymentRoutes ==
    Routes("payments", For(Platform), {"listAdmin"})
    \cup Routes("payments", For(Parish), {"getById"})
    \cup Routes("payments", SignedIn, {"listForChurch", "updateStatus", "uploadReceiptImage"})

ContactRoutes ==
    Routes("contact", Open, {"create"})
    \cup Routes("contact", For(Desk), {"list", "getById", "updateStatus"})
    \cup Routes("contact", For({"admin"}), {"delete"})

FaqRoutes ==
    Routes("faq", Open, {"listPublished", "getById"})
    \cup Routes("faq", For(Desk), {"listAdmin", "create", "update"})
    \cup Routes("faq", For({"admin"}), {"delete"})

SettingRoutes ==
    Routes("settings", Open, {"getPublicMap"})
    \cup Routes("settings", For(Desk), {"listAdmin", "create", "getById", "update"})
    \cup Routes("settings", For({"admin"}), {"delete"})

LiturgicalPeriodRoutes ==
    Routes("liturgical-periods", Open, {"getStatus", "getById"})
    \cup Routes("liturgical-periods", For(Platform), {"listAdmin", "create", "update", "delete"})

NotificationRoutes ==
    Routes("notifications", SignedIn, {"list", "unreadCount", "markAllRead", "markRead", "remove"})

MailRoutes ==
    Routes("mail", [For(Platform) EXCEPT !.clients = {"back_office"}], {"list", "retry", "abandon"})

\* listPublic also asks for a token of its own, which no account has.
ApiErrorRoutes ==
    Routes("api-errors", For(Platform), {"list", "delete"})
    \cup Routes("api-errors", Keyless, {"listPublic"})

DashboardRoutes == Routes("dashboard", For(Parish), {"stats"})
AppRoutes == Routes("app", Keyless, {"getStatus"})

AllRoutes == UNION {
    AuthRoutes, UserRoutes, UserAdminRoutes, CountryRoutes, RegionRoutes, ZoneRoutes,
    VillageRoutes, TypeRoutes, RequestTypeRoutes, ChatRoutes, AttachmentRoutes, ChatGuestRoutes,
    ChurchRoutes, ChurchProfileRoutes, ClergyMemberRoutes, EntranceRoutes, PaymentMethodRoutes,
    GroupRoutes, ScheduleRoutes, PublicationRoutes, TariffRoutes, MembershipRoutes,
    GroupMemberRoutes, MediaRoutes, RequestRoutes, DonationRoutes, PaymentRoutes, ContactRoutes,
    FaqRoutes, SettingRoutes, LiturgicalPeriodRoutes, NotificationRoutes, MailRoutes,
    ApiErrorRoutes, DashboardRoutes, AppRoutes}

ASSUME RolesExist == \A r \in AllRoutes : r.policy.roles \subseteq UserRole

-----------------------------------------------------------------------------
(* The guards.  A credential is what the middleware reads from a bearer    *)
(* token: whether it is expired, whether its jti is revoked, the status    *)
(* and the roles it was signed with.  NoToken is a request without one.    *)

NoToken == [present |-> FALSE, expired |-> FALSE, revoked |-> FALSE,
            status |-> "unverified", roles |-> {}]

\* ApiKeyGuard; the key of a client that is configured.
KeyAccepted(p, key) == p.noKey \/ key \in ApiClientType

ClientAccepted(p, key) == p.public \/ p.clients = {} \/ key \in p.clients

\* RequireAuthGuard.
TokenAccepted(p, t) == p.public \/ (t.present /\ ~t.expired /\ ~t.revoked)

\* RequireUserStatusGuard: no route declares a required status.
StatusAccepted(p, t) ==
    p.public \/ (t.present /\ (t.status \in p.allow \/ t.status = "active"))

\* RequireRoleGuard, with the bypass of engineers.
RoleAccepted(p, t) ==
    \/ p.public
    \/ p.roles = {}
    \/ t.present /\ ("engineer" \in t.roles \/ p.roles \cap t.roles # {})

Granted(p, key, t) ==
    /\ KeyAccepted(p, key)
    /\ ClientAccepted(p, key)
    /\ TokenAccepted(p, t)
    /\ StatusAccepted(p, t)
    /\ RoleAccepted(p, t)
=============================================================================
