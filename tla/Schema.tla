------------------------------- MODULE Schema -------------------------------
(***************************************************************************)
(* The tables that a seed fixture fills, as the migrations declare them    *)
(* and as the helpers of packages/seeding look rows up.  Of a table the    *)
(* unique keys and the references are kept; a reference is a column and    *)
(* the table it points to.  Columns that are only data are left out, and   *)
(* so is what happens when a row is deleted, which no code does.           *)
(***************************************************************************)
EXTENDS TLC

LOCAL Table(keys, references) == [keys |-> keys, references |-> references]
LOCAL Nothing == [c \in {} |-> ""]

AccountTables ==
    [users |-> Table({{"email"}, {"nickname"}}, Nothing),
     memberships |-> Table({{"user_id", "scope_type", "scope_id", "role_code"}},
                           [user_id |-> "users"]),
     organizations |-> Table({{"slug"}}, [created_by_user_id |-> "users"])]

CatalogTables ==
    [events |-> Table({{"organization_id", "slug"}},
                      [organization_id |-> "organizations", created_by_user_id |-> "users"]),
     disciplines |-> Table({{"slug"}}, Nothing),
     tags |-> Table({{"slug"}}, Nothing),
     teams |-> Table({{"organization_id", "slug"}},
                     [organization_id |-> "organizations", created_by_user_id |-> "users"])]

MemberTables ==
    [team_memberships |-> Table({{"team_id", "user_id"}},
                                [team_id |-> "teams", user_id |-> "users"]),
     scoring_profiles |-> Table({},
                                [organization_id |-> "organizations",
                                 created_by_user_id |-> "users"])]

TournamentTables ==
    [tournaments |-> Table({{"organization_id", "event_id", "slug"}},
                           [organization_id |-> "organizations", event_id |-> "events",
                            created_by_user_id |-> "users", discipline_id |-> "disciplines",
                            scoring_profile_id |-> "scoring_profiles"]),
     tournament_tags |-> Table({{"tournament_id", "tag_id"}},
                               [tournament_id |-> "tournaments", tag_id |-> "tags"])]

EntrantTables ==
    [tournament_entrants |-> Table({{"tournament_id", "entrant_type", "entrant_id"}},
                                   [tournament_id |-> "tournaments"]),
     tournament_rosters |-> Table({{"tournament_id", "entrant_id"}},
                                  [tournament_id |-> "tournaments",
                                   entrant_id |-> "tournament_entrants"]),
     tournament_roster_members |-> Table({{"roster_id", "user_id"}},
                                         [roster_id |-> "tournament_rosters",
                                          user_id |-> "users"])]

ParticipantKeys == {{"match_id", "entrant_id"}, {"match_id", "slot"}}

MatchTables ==
    [stages |-> Table({{"tournament_id", "order_index"}}, [tournament_id |-> "tournaments"]),
     matches |-> Table({}, [tournament_id |-> "tournaments", stage_id |-> "stages",
                            discipline_id |-> "disciplines"]),
     match_participants |-> Table(ParticipantKeys,
                                  [match_id |-> "matches",
                                   entrant_id |-> "tournament_entrants"])]

StandingTable ==
    [standings |-> Table({{"tournament_id", "stage_id", "entrant_id"}},
                         [tournament_id |-> "tournaments", stage_id |-> "stages",
                          entrant_id |-> "tournament_entrants"])]

Tables == AccountTables @@ CatalogTables @@ MemberTables @@ TournamentTables
              @@ EntrantTables @@ MatchTables @@ StandingTable
-----------------------------------------------------------------------------
(* The columns by which getOrInsert... looks for a row.                    *)

AccountLookup ==
    [users |-> {"email"},
     organizations |-> {"slug"},
     memberships |-> {"user_id", "scope_type", "scope_id", "role_code"}]

CatalogLookup ==
    [events |-> {"organization_id", "slug"},
     disciplines |-> {"slug"},
     tags |-> {"slug"},
     teams |-> {"organization_id", "slug"},
     team_memberships |-> {"team_id", "user_id"},
     scoring_profiles |-> {"organization_id", "name"},
     tournaments |-> {"organization_id", "event_id", "slug"}]

EntrantLookup ==
    [tournament_tags |-> {"tournament_id", "tag_id"},
     tournament_entrants |-> {"tournament_id", "entrant_type", "entrant_id"},
     tournament_rosters |-> {"tournament_id", "entrant_id"},
     tournament_roster_members |-> {"roster_id", "user_id"}]

StandingLookup == {"tournament_id", "stage_id", "entrant_id"}

MatchLookup ==
    [stages |-> {"tournament_id", "order_index"},
     matches |-> {"tournament_id", "stage_id", "order_index"},
     match_participants |-> {"match_id", "slot"},
     standings |-> StandingLookup]

Lookup == AccountLookup @@ CatalogLookup @@ EntrantLookup @@ MatchLookup
=============================================================================
