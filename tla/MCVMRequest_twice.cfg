SPECIFICATION Spec

CONSTANTS
    r1 = r1
    r2 = r2
    s1 = s1
    s2 = s2
    t1 = t1
    t2 = t2
    d1 = d1
    v1 = v1
    v2 = v2
    v3 = v3
    i1 = i1
    i2 = i2
    i3 = i3
    NoRequest = NoRequest
    NoVmid = NoVmid
    NoIp = NoIp
    NoVm = NoVm
    Free = Free
    Request = {r1}
    Scheduler = {s1, s2}
    Task = {}
    Deleter = {}
    Vmid = {v1, v2}
    Ip = {i1, i2}
    Fault = {}
    MaxFault = 0
    HostOf <- OwnHost

CHECK_DEADLOCK FALSE
INVARIANT AtMostOneProvisioner
