SPECIFICATION MCSpec
CONSTANTS
    Schemes = {"vless", "trojan", "hysteria2", "hy2", "tuic", "http", "socks5", "bare", "https", "vmess", "ss", "ssr"}
    Transports = {"absent", "tcp", "raw", "ws", "h2", "quic"}
    Securities = {"absent", "tls", "reality"}
    OptionSets = {{}, {"insecure", "flow"}, {"hello"}, {"pbk"}}
    Rates = {1, 2}
    Floor = 2
    Gate = TRUE
    Threads = {w1, w2}
    Endpoints = {a, b, c}
    TTL = 2
    Cap = 2
    MaxClock = 4
INVARIANTS DialTypeOK HandshakeCertifies DialsAsProbed RowNamesEndpoint MemoBounded MemoRefusalIsRecent
CHECK_DEADLOCK FALSE
