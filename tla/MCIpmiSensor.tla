---------------------------- MODULE MCIpmiSensor ----------------------------
EXTENDS IpmiSensor

CONSTANTS agg, c1, c2

MCComputes == {c1, c2}
MCNoneNonRoot == {}
MCNonRoot == {c2}
=============================================================================
