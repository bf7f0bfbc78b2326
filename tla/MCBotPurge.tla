---------------------------- MODULE MCBotPurge ----------------------------
(* Two sidecars, a schema of two tables of their own and two identifiers, a bot. *)
EXTENDS BotPurge

MCOwnedTables == <<"lock", "profile">>
MCIdentifiers == <<"ck_daily_budget_spent", "uk_reservation_public_id">>
MCBots == {1}
MCBotTables == {"profile"}
=============================================================================
