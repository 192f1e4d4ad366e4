---------------------------- MODULE MCHapVerify ----------------------------
\* A gallery and a system source in the list of the release, a source of no
\* known kind in the test list, and a developer known to neither.
EXTENDS HapVerify, Sequences, TLC

MCReleaseRoots == {"R", "OH"}
MCTestRoots    == {"T"}
MCOpenHarmony  == "OH"
MCNames == {"gallery", "system", "tester", "developer", "releaser", "debugger",
            "ticketer"}

Cert(name, root, oids) == [name |-> name, root |-> root, oids |-> oids]

Gallery   == Cert("gallery", "R", {})
System    == Cert("system", "OH", {})
SystemR   == Cert("system", "R", {})
Tester    == Cert("tester", "T", {})
Developer == Cert("developer", "R", {"developer", "resign"})
Other     == Cert("developer", "R", {})
Unrooted  == Cert("developer", NoName, {})
Releaser  == Cert("releaser", "R", {"resign"})
Debugger  == Cert("debugger", "T", {})
Ticketer  == Cert("ticketer", "R", {})

MCCerts == {Gallery, System, SystemR, Tester, Developer, Other, Unrooted,
            Releaser, Debugger, Ticketer}
MCTicketSigners == {"ticketer"}
MCLocalCerts    == {Developer, System}

Source(test, kind, root, app, release, debug) ==
    [test |-> test, kind |-> kind, root |-> root, app |-> app,
     release |-> release, debug |-> debug]

MCSources ==
    {Source(FALSE, "gallery", "R", "gallery", "releaser", "debugger"),
     Source(FALSE, "system", "OH", "system", "releaser", NoName),
     Source(TRUE, "other", "T", "tester", "releaser", "debugger"),
     Source(TRUE, "gallery", "R", "tester", NoName, "debugger")}

Profile(type, dist, devices, development, distribution) ==
    [whole |-> TRUE, type |-> type, dist |-> dist, devices |-> devices,
     development |-> development, distribution |-> distribution]

MCProfiles ==
    {[Profile("DEBUG", "NONE", "listed", Developer, None) EXCEPT !.whole = FALSE],
     Profile("DEBUG", "NONE", "listed", Developer, None),
     Profile("DEBUG", "NONE", "others", Developer, Other),
     Profile("DEBUG", "ENTERPRISE", "otherType", Developer, None),
     Profile("DEBUG", "DEVELOPER", "listed", Developer, None),
     Profile("RELEASE", "ENTERPRISE", "empty", Other, Developer),
     Profile("RELEASE", "APP_GALLERY", "empty", None, Developer),
     Profile("RELEASE", "INTERNALTESTING", "others", None, Developer),
     Profile("RELEASE", "INTERNALTESTING", "empty", None, Developer),
     Profile("RELEASE", "DEVELOPER", "empty", None, Other)}

MCTickets ==
    {[profile |-> Profile("RELEASE", "APP_GALLERY", "listed", None, c),
      alike |-> a] : c \in {Developer, Other}, a \in BOOLEAN}

\* Debug mode starts off; a later call finds it as the earlier ones left it.
MCSettings == {{}, {"devMode"}, {"devMode", "rdDevice"},
               {"devMode", "development"}, {"enterprise"}}

MCSwitchable == {"testRoots", "testSources"}
=============================================================================
