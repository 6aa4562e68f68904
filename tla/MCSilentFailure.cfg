\* A test that raises an exception goes from passing or unknown to failing.
SPECIFICATION Spec
CONSTANTS
    r1 = r1  r2 = r2  t1 = t1
    NoRun = NoRun
    Run = {r1}
    Test = {t1}
    MaxFaults = 0
PROPERTIES
    FailuresRaiseAlerts
