---------------------------- MODULE ConfigStore -----------------------------
(* The SQLite store of the configuration: what a save writes, what a load   *)
(* reads, and the repairs a load makes (store/sqlite_store.go).             *)
EXTENDS ConfigPatches

\* What the platform can do with secrets.
Codecs == {"none", "unsupported", "broken", "works"}

\* A store that was never seeded, and one that holds the tables of a file.
NoStore == [seeded |-> FALSE]

(********************************** Save ***********************************)
\* The table of offers keeps one offer of a model for each provider: the row
\* written last, behind the others.
OfferRows(offers) ==
    LET isLast(n) == \A k \in n + 1..Len(offers) : offers[k].model # offers[n].model
        kept == SetToSortSeq({n \in DOMAIN offers : isLast(n)}, <)
    IN  [n \in DOMAIN kept |-> offers[kept[n]]]
\* The settings are rows of their own; those of the extensions are one row.
SettingRows(f) ==
    [defaults |-> f.default, web_search |-> f.search,
     extensions |-> [feature |-> f.ext, profiles |-> f.profiles]]
ProviderRow(p) == [url |-> p.url, key |-> p.key, env |-> p.env, proto |-> p.proto,
                   search |-> p.search, ext |-> p.ext]
\* A row of the table of routes has no place for the old form of a target.
Tables(f) ==
    [settings |-> SettingRows(f), models |-> f.models,
     providers |-> [p \in DOMAIN f.providers |-> ProviderRow(f.providers[p])],
     offers |-> [p \in DOMAIN f.providers |-> OfferRows(f.providers[p].offers)],
     routes |-> [a \in DOMAIN f.routes |-> [f.routes[a] EXCEPT !.to = None]]]
Stored(f) == [seeded |-> TRUE, tables |-> Tables(f)]

\* NormalizeProviderSecrets with a codec: no file if it cannot encrypt.
Normalize(f, codec) ==
    IF codec = "none" \/ ~HasPlainKey(f) THEN {f}
    ELSE IF codec = "works" THEN {Normalized(f)} ELSE {}
\* SaveConfig and SeedFromConfig; only the first validates.
Seed(c, codec) == {Stored(f) : f \in Normalize(ToFile(c), codec)}
Save(c, codec) == IF Valid(c) THEN Seed(c, codec) ELSE {}

(********************************** Load ***********************************)
\* applySetting
WithSettings(f, settings) ==
    [search |-> settings.web_search, default |-> settings.defaults,
     ext |-> settings.extensions.feature, profiles |-> settings.extensions.profiles] @@ f
\* loadFileConfig: a provider gets the offers that have its key.
LoadFile(t) ==
    WithSettings([models |-> t.models, routes |-> t.routes,
                  providers |-> [p \in DOMAIN t.providers |-> [offers |-> t.offers[p]] @@ t.providers[p]]],
                 t.settings)
PlainProviders(f) == {p \in DOMAIN f.providers : f.providers[p].key.kind = "plain"}
\* A key that cannot be encrypted is dropped from what is loaded, stays in the
\* store, and is reported.
MigrateKeys(f, codec) ==
    LET plain == PlainProviders(f)
        without == [f EXCEPT !.providers =
                        [p \in DOMAIN @ |-> IF p \in plain THEN [@[p] EXCEPT !.key = NoKey] ELSE @[p]]]
    IN  IF codec = "works" THEN [file |-> Normalized(f), stored |-> Normalized(f), issues |-> {}]
        ELSE [file |-> without, stored |-> f, issues |-> plain]

\* A table of profiles under its old name is renamed, and gets an active
\* profile if there is only one.
MigrateProfiles(profiles) ==
    IF profiles.shape # "table" \/ DOMAIN profiles.table = {} THEN profiles
    ELSE [profiles EXCEPT !.shape = "profiles",
                          !.active = IF @ = None /\ Cardinality(DOMAIN profiles.table) = 1
                                     THEN CHOOSE id \in DOMAIN profiles.table : TRUE ELSE @]

\* LoadAll: the repairs of the store, the keys it could not encrypt, and the
\* configurations that what it read may become; none if it is refused.
Repaired(store, codec) ==
    Stored([MigrateKeys(LoadFile(store.tables), codec).stored EXCEPT
                !.profiles = MigrateProfiles(@)])
Issues(store, codec) == MigrateKeys(LoadFile(store.tables), codec).issues
LoadAll(store, codec) ==
    IF ~store.seeded THEN {}
    ELSE FromFile([MigrateKeys(LoadFile(store.tables), codec).file EXCEPT
                        !.profiles = MigrateProfiles(@)])

(***************************** A change, whole ****************************)
\* acceptCandidate: the configurations a file may be accepted as, and what the
\* store then holds. Nothing if it is refused. The runtime refuses nothing that
\* FromFile accepts here: its managers need a URL and a provider.
Accept(f, codec) ==
    UNION {{[config |-> c, store |-> s] : s \in Save(c, codec)} :
            c \in UNION {FromFile(g) : g \in Normalize(f, codec)}}
=============================================================================
