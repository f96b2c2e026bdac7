------------------------------ MODULE MCStageZt ------------------------------
EXTENDS StageZtProofs

CONSTANTS absent

MCExecs == {"zt"}
MCVersions == {"", "latest", "v1"}

====
